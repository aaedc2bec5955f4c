----------------------------- MODULE ScValProofs -----------------------------
(***************************************************************************)
(* A contract value that goes through the node comes back as the client     *)
(* wrote it.  First the splitting of wide integers into words and their     *)
(* joining, which undo each other at any width of a word, signed or not;    *)
(* then the four conversions, for values however deep: that their recursion *)
(* is well founded, and what they make of a value one after the other.      *)
(***************************************************************************)
EXTENDS ScVal, DataLemmas

-----------------------------------------------------------------------------
(* Words.                                                                   *)

LEMMA WordBasePositive == WordBase \in Nat /\ WordBase >= 2
  BY WordBaseAssumption

\* What `>>` shifts out is what `&` keeps.
LEMMA HighAndLow ==
  ASSUME NEW n \in Int
  PROVE  /\ HighPart(n) \in Int
         /\ LowWord(n) \in UnsignedWord
         /\ n = HighPart(n) * WordBase + LowWord(n)
  BY WordBasePositive DEF HighPart, LowWord, UnsignedWord

\* There is but one way to write a number as a multiple of the base and a word.
LEMMA PartsAreUnique ==
  ASSUME NEW h \in Int, NEW l \in UnsignedWord
  PROVE  HighPart(h * WordBase + l) = h /\ LowWord(h * WordBase + l) = l
<1> DEFINE n == h * WordBase + l
           g == HighPart(n)
           k == LowWord(n)
<1>1. n \in Int /\ l \in Int
  BY WordBasePositive DEF UnsignedWord
<1>2. g \in Int /\ k \in UnsignedWord /\ n = g * WordBase + k
  BY <1>1, HighAndLow
<1>3. (g - h) * WordBase = l - k
  BY <1>1, <1>2, WordBasePositive DEF UnsignedWord
<1>4. l - k < WordBase /\ k - l < WordBase
  BY <1>1, <1>2, WordBasePositive DEF UnsignedWord
<1> HIDE DEF g, k, n
<1>5. CASE g - h >= 1
  <2>1. (g - h) * WordBase >= WordBase
    BY <1>2, <1>5, WordBasePositive
  <2> QED BY <2>1, <1>3, <1>4, <1>1, <1>2, WordBasePositive DEF UnsignedWord
<1>6. CASE g - h <= -1
  <2>1. (h - g) * WordBase >= WordBase
    BY <1>2, <1>6, WordBasePositive
  <2>2. (h - g) * WordBase = k - l
    BY <1>2, <1>3, <1>1, WordBasePositive DEF UnsignedWord
  <2> QED BY <2>1, <2>2, <1>4, <1>1, <1>2, WordBasePositive DEF UnsignedWord
<1>7. CASE g = h
  <2>1. k = l
    BY <1>7, <1>2, <1>3, <1>1, WordBasePositive DEF UnsignedWord
  <2> QED BY <1>7, <2>1 DEF g, k, n
<1> QED BY <1>5, <1>6, <1>7, <1>2

\* scval_to_json undoes scval_from_json: a 128 or 256 bit integer that was split
\* into words is the number it was, negative or not.
THEOREM JoinUndoesSplit ==
  \A n \in Int : Join2(Split2(n)) = n /\ Join4(Split4(n)) = n
<1> SUFFICES ASSUME NEW n \in Int
             PROVE  Join2(Split2(n)) = n /\ Join4(Split4(n)) = n
  OBVIOUS
<1> DEFINE h1 == HighPart(n)
           h2 == HighPart(h1)
           h3 == HighPart(h2)
<1>1. h1 \in Int /\ n = h1 * WordBase + LowWord(n)
  BY HighAndLow
<1>2. h2 \in Int /\ h1 = h2 * WordBase + LowWord(h1)
  BY <1>1, HighAndLow
<1>3. h2 = h3 * WordBase + LowWord(h2)
  BY <1>2, HighAndLow
<1>4. Join2(Split2(n)) = h1 * WordBase + LowWord(n)
  BY DEF Join2, Split2
<1>5. Join4(Split4(n))
        = ((h3 * WordBase + LowWord(h2)) * WordBase + LowWord(h1)) * WordBase + LowWord(n)
  BY DEF Join4, Split4
<1> HIDE DEF h1, h2, h3
<1> QED BY <1>1, <1>2, <1>3, <1>4, <1>5

\* scval_from_json undoes scval_to_json: whatever the top word, signed or not,
\* the words a client sends are the words it is served.
THEOREM SplitUndoesJoin ==
  ASSUME NEW top \in Int, NEW a \in UnsignedWord, NEW b \in UnsignedWord,
         NEW c \in UnsignedWord
  PROVE  /\ Split2(Join2(<<top, a>>)) = <<top, a>>
         /\ Split4(Join4(<<top, a, b, c>>)) = <<top, a, b, c>>
<1> DEFINE m1 == top * WordBase + a
           m2 == m1 * WordBase + b
           m3 == m2 * WordBase + c
<1>1. m1 \in Int /\ m2 \in Int
  <2>1. a \in Int /\ b \in Int
    BY DEF UnsignedWord
  <2>2. m1 \in Int
    BY <2>1, WordBasePositive
  <2> QED BY <2>1, <2>2, WordBasePositive
<1>2. HighPart(m1) = top /\ LowWord(m1) = a
  BY PartsAreUnique
<1>3. HighPart(m2) = m1 /\ LowWord(m2) = b
  BY <1>1, PartsAreUnique
<1>4. HighPart(m3) = m2 /\ LowWord(m3) = c
  BY <1>1, PartsAreUnique
<1>5. Join2(<<top, a>>) = m1 /\ Join4(<<top, a, b, c>>) = m3
  BY DEF Join2, Join4
<1> HIDE DEF m1, m2, m3
<1> QED BY <1>2, <1>3, <1>4, <1>5 DEF Split2, Split4

\* Shifting a word out shifts the bounds.
LEMMA HighPartIsBetween ==
  ASSUME NEW n \in Int, NEW lo \in Int, NEW hi \in Int,
         lo * WordBase <= n, n < hi * WordBase
  PROVE  lo <= HighPart(n) /\ HighPart(n) < hi
<1> DEFINE h == HighPart(n)
           l == LowWord(n)
<1>1. h \in Int /\ l \in UnsignedWord /\ n = h * WordBase + l
  BY HighAndLow
<1> HIDE DEF h, l
<1>2. ASSUME h < lo PROVE FALSE
  <2>1. (lo - h) * WordBase >= WordBase
    BY <1>1, <1>2, WordBasePositive
  <2> QED BY <2>1, <1>1, WordBasePositive DEF UnsignedWord
<1>3. ASSUME h >= hi PROVE FALSE
  <2>1. (h - hi) * WordBase >= 0
    BY <1>1, <1>3, WordBasePositive
  <2> QED BY <2>1, <1>1, WordBasePositive DEF UnsignedWord
<1> QED BY <1>1, <1>2, <1>3 DEF h

\* The numbers from lo words' worth to below hi words' worth of so many words.
Wide2(lo, hi) == {n \in Int : lo * WordBase <= n /\ n < hi * WordBase}
Wide4(lo, hi) == {n \in Int : /\ ((lo * WordBase) * WordBase) * WordBase <= n
                              /\ n < ((hi * WordBase) * WordBase) * WordBase}

Half == WordBase \div 2

\* A number in the range of its type splits into words in range, so that none is
\* refused: the top word of a signed number is a signed word, all others are not.
THEOREM WordsAreInRange ==
  /\ \A n \in Wide2(0, WordBase) : Split2(n) \in UnsignedWord \X UnsignedWord
  /\ \A n \in Wide2(-Half, Half) : Split2(n) \in SignedWord \X UnsignedWord
  /\ \A n \in Wide4(0, WordBase) :
       Split4(n) \in UnsignedWord \X UnsignedWord \X UnsignedWord \X UnsignedWord
  /\ \A n \in Wide4(-Half, Half) :
       Split4(n) \in SignedWord \X UnsignedWord \X UnsignedWord \X UnsignedWord
<1>1. Half \in Nat /\ -Half \in Int /\ WordBase \in Int /\ 0 \in Int
  BY WordBasePositive DEF Half
<1>2. ASSUME NEW lo \in Int, NEW hi \in Int, NEW n \in Wide2(lo, hi)
      PROVE  Split2(n) \in (lo .. hi - 1) \X UnsignedWord
  <2>1. n \in Int /\ lo * WordBase <= n /\ n < hi * WordBase
    BY DEF Wide2
  <2>2. lo <= HighPart(n) /\ HighPart(n) < hi
    BY <2>1, HighPartIsBetween
  <2> QED BY <2>1, <2>2, HighAndLow DEF Split2
<1>3. ASSUME NEW lo \in Int, NEW hi \in Int, NEW n \in Wide4(lo, hi)
      PROVE  Split4(n) \in (lo .. hi - 1) \X UnsignedWord \X UnsignedWord \X UnsignedWord
  <2> DEFINE h1 == HighPart(n)
             h2 == HighPart(h1)
             h3 == HighPart(h2)
             lo1 == lo * WordBase
             lo2 == lo1 * WordBase
             hi1 == hi * WordBase
             hi2 == hi1 * WordBase
  <2>1. lo1 \in Int /\ hi1 \in Int
    BY WordBasePositive
  <2>2. lo2 \in Int /\ hi2 \in Int
    BY <2>1, WordBasePositive
  <2>3. n \in Int /\ lo2 * WordBase <= n /\ n < hi2 * WordBase
    BY DEF Wide4
  <2>4. h1 \in Int /\ LowWord(n) \in UnsignedWord /\ lo2 <= h1 /\ h1 < hi2
    BY <2>2, <2>3, HighPartIsBetween, HighAndLow
  <2>5. h2 \in Int /\ LowWord(h1) \in UnsignedWord /\ lo1 <= h2 /\ h2 < hi1
    BY <2>1, <2>4, HighPartIsBetween, HighAndLow
  <2>6. h3 \in Int /\ LowWord(h2) \in UnsignedWord /\ lo <= h3 /\ h3 < hi
    BY <2>5, HighPartIsBetween, HighAndLow
  <2> QED BY <2>4, <2>5, <2>6 DEF Split4
<1>4. 0 .. WordBase - 1 = UnsignedWord /\ -Half .. Half - 1 = SignedWord
  BY DEF UnsignedWord, SignedWord, Half
<1> QED BY <1>1, <1>2, <1>3, <1>4

-----------------------------------------------------------------------------
(* Values are trees, and so is what the conversions make of them.           *)

\* Every part of a member is a member, of lower rank.
Tree(S, r) ==
  /\ r \in [S -> Nat]
  /\ \A x \in S : \A p \in PartsOf(x) : p \in S /\ r[p] < r[x]

RankOf(S) == CHOOSE r : Tree(S, r)

\* The parts of what f makes of a value are made of the parts of the value.
KeepsParts(f, S) ==
  \A x \in S : \A q \in PartsOf(f[x]) : \E p \in PartsOf(x) : q = f[p]

LEMMA RankOfTree ==
  ASSUME NEW S, NEW r, Tree(S, r)
  PROVE  Tree(S, RankOf(S))
  BY DEF RankOf

\* The least rank of all that is made into it ranks the image of a tree.
LEMMA ImageIsTree ==
  ASSUME NEW S, NEW r, Tree(S, r), NEW f, KeepsParts(f, S)
  PROVE  \E q : Tree({f[x] : x \in S}, q)
<1> DEFINE Image == {f[x] : x \in S}
           From(y) == {r[x] : x \in {z \in S : f[z] = y}}
           least(y) == CHOOSE n \in From(y) : \A m \in From(y) : n <= m
           q == [y \in Image |-> least(y)]
<1>1. ASSUME NEW y \in Image
      PROVE  /\ least(y) \in Nat /\ least(y) \in From(y)
             /\ \A m \in From(y) : least(y) <= m
  <2>1. From(y) \in SUBSET Nat
    BY DEF Tree
  <2>2. From(y) # {}
    OBVIOUS
  <2> DEFINE F == From(y)
  <2> HIDE DEF F
  <2>3. \E n \in F : \A m \in F : n <= m
    BY <2>1, <2>2, LeastNatural DEF F
  <2> QED
    BY <2>1, <2>3 DEF F
<1>2. ASSUME NEW y \in Image, NEW p \in PartsOf(y)
      PROVE  p \in Image /\ q[p] < q[y]
  <2>1. PICK x \in S : f[x] = y /\ r[x] = least(y)
    BY <1>1
  <2>2. PICK z \in PartsOf(x) : p = f[z]
    BY <2>1 DEF KeepsParts
  <2>3. z \in S /\ r[z] < r[x] /\ r[z] \in Nat /\ r[x] \in Nat
    BY DEF Tree
  <2>4. p \in Image /\ r[z] \in From(p)
    BY <2>2, <2>3
  <2>5. least(p) <= r[z] /\ least(p) \in Nat
    BY <1>1, <2>4
  <2>6. q[p] = least(p) /\ q[y] = least(y)
    BY <2>4
  <2> HIDE DEF least, From, q, Image
  <2> QED
    BY <2>1, <2>3, <2>4, <2>5, <2>6
<1>3. q \in [Image -> Nat]
  BY <1>1
<1> HIDE DEF q
<1>4. Tree(Image, q)
  <2> HIDE DEF Image
  <2> QED
    BY <1>2, <1>3 DEF Tree
<1> QED
  BY <1>4

LEMMA UnionIsTree ==
  ASSUME NEW S, NEW T, NEW r, NEW q, Tree(S, r), Tree(T, q)
  PROVE  \E u : Tree(S \cup T, u)
<1> DEFINE Both == S \cup T
           at(x) == IF x \notin S THEN q[x]
                    ELSE IF x \notin T THEN r[x]
                    ELSE IF r[x] < q[x] THEN r[x] ELSE q[x]
           u == [x \in Both |-> at(x)]
<1>1. /\ \A x \in S : r[x] \in Nat /\ \A p \in PartsOf(x) : p \in S /\ r[p] < r[x]
      /\ \A x \in T : q[x] \in Nat /\ \A p \in PartsOf(x) : p \in T /\ q[p] < q[x]
  BY DEF Tree
<1>2. \A x \in Both : /\ at(x) \in Nat
                      /\ x \in S => at(x) <= r[x]
                      /\ x \in T => at(x) <= q[x]
                      /\ \/ x \in S /\ at(x) = r[x]
                         \/ x \in T /\ at(x) = q[x]
  BY <1>1
<1>3. ASSUME NEW x \in Both, NEW p \in PartsOf(x) PROVE p \in Both /\ at(p) < at(x)
  <2>1. CASE x \in S /\ at(x) = r[x]
    <3>1. p \in S /\ r[p] < r[x] /\ r[p] \in Nat /\ r[x] \in Nat
      BY <1>1, <2>1
    <3>2. at(p) <= r[p] /\ at(p) \in Nat
      BY <1>2, <3>1
    <3> HIDE DEF at
    <3> QED
      BY <2>1, <3>1, <3>2
  <2>2. CASE x \in T /\ at(x) = q[x]
    <3>1. p \in T /\ q[p] < q[x] /\ q[p] \in Nat /\ q[x] \in Nat
      BY <1>1, <2>2
    <3>2. at(p) <= q[p] /\ at(p) \in Nat
      BY <1>2, <3>1
    <3> HIDE DEF at
    <3> QED
      BY <2>2, <3>1, <3>2
  <2> QED
    BY <1>2, <2>1, <2>2
<1>4. Tree(Both, u)
  <2> HIDE DEF at, Both
  <2>1. u \in [Both -> Nat] /\ \A x \in Both : u[x] = at(x)
    BY <1>2
  <2> HIDE DEF u
  <2> QED
    BY <1>3, <2>1 DEF Tree
<1> QED
  BY <1>4

LEMMA PartsAre ==
  ASSUME NEW v
  PROVE  /\ v[1] = "vec" => PartsOf(v) = {v[2][i] : i \in DOMAIN v[2]}
         /\ v[1] = "map" => PartsOf(v) = UNION {{e[1], e[2]} : e \in v[2]}
         /\ v[1] \notin {"vec", "map"} => PartsOf(v) = {}
  BY DEF PartsOf

\* The first item to raise is there, so the result is a raise.
LEMMA VecOfIs ==
  ASSUME NEW s, DOMAIN s \subseteq Nat
  PROVE  IF \E i \in DOMAIN s : Raises(s[i]) THEN Raises(VecOf(s)) ELSE VecOf(s) = <<"vec", s>>
<1> DEFINE bad == {i \in DOMAIN s : Raises(s[i])}
<1>1. CASE bad = {}
  BY <1>1 DEF VecOf
<1>2. CASE bad # {}
  <2>1. bad \in SUBSET Nat
    OBVIOUS
  <2>2. PICK m \in bad : \A i \in bad : m <= i
    BY <1>2, <2>1, LeastNatural
  <2>3. Min(bad) \in bad
    <3>1. \E x \in bad : \A y \in bad : x <= y
      BY <2>2
    <3> HIDE DEF bad
    <3> QED
      BY <3>1 DEF Min
  <2>4. VecOf(s) = s[Min(bad)]
    BY <1>2 DEF VecOf
  <2> QED
    BY <2>3, <2>4
<1> QED
  BY <1>1, <1>2

LEMMA MapOfIs ==
  ASSUME NEW es
  PROVE  IF \E e \in es : Raises(e[1]) \/ Raises(e[2]) THEN Raises(MapOf(es))
         ELSE MapOf(es) = <<"map", es>>
<1> DEFINE bad   == {e \in es : Raises(e[1]) \/ Raises(e[2])}
           first == CHOOSE e \in bad : TRUE
<1>1. CASE bad = {}
  BY <1>1 DEF MapOf
<1>2. CASE bad # {}
  <2>1. first \in bad
    <3> HIDE DEF bad
    <3> QED
      BY <1>2
  <2>2. MapOf(es) = IF Raises(first[1]) THEN first[1] ELSE first[2]
    BY <1>2 DEF MapOf
  <2> HIDE DEF first
  <2> QED
    BY <2>1, <2>2
<1> QED
  BY <1>1, <1>2

\* What is made of the parts is all a conversion looks at.
LEMMA PartsAgree ==
  ASSUME NEW v, NEW f, NEW g, \A p \in PartsOf(v) : f[p] = g[p]
  PROVE  /\ v[1] = "vec" => [i \in DOMAIN v[2] |-> f[v[2][i]]]
                              = [i \in DOMAIN v[2] |-> g[v[2][i]]]
         /\ v[1] = "map" => {<<f[e[1]], f[e[2]]>> : e \in v[2]}
                              = {<<g[e[1]], g[e[2]]>> : e \in v[2]}
<1>1. CASE v[1] = "vec"
  <2>1. \A i \in DOMAIN v[2] : f[v[2][i]] = g[v[2][i]]
    BY <1>1, PartsAre
  <2> QED
    BY <1>1, <2>1
<1>2. CASE v[1] = "map"
  <2>1. \A e \in v[2] : f[e[1]] = g[e[1]] /\ f[e[2]] = g[e[2]]
    BY <1>2, PartsAre
  <2> QED
    BY <1>2, <2>1
<1> QED
  BY <1>1, <1>2

LEMMA PairsOfPairs ==
  ASSUME NEW D, NEW f, NEW g
  PROVE  {<<g[e[1]], g[e[2]]>> : e \in {<<f[d[1]], f[d[2]]>> : d \in D}}
           = {<<g[f[d[1]]], g[f[d[2]]]>> : d \in D}
<1> DEFINE E == {<<f[d[1]], f[d[2]]>> : d \in D}
           L == {<<g[e[1]], g[e[2]]>> : e \in E}
           R == {<<g[f[d[1]]], g[f[d[2]]]>> : d \in D}
<1>1. ASSUME NEW x \in L PROVE x \in R
  <2>1. PICK e \in E : x = <<g[e[1]], g[e[2]]>>
    OBVIOUS
  <2>2. PICK d \in D : e = <<f[d[1]], f[d[2]]>>
    OBVIOUS
  <2> QED
    BY <2>1, <2>2
<1>2. ASSUME NEW x \in R PROVE x \in L
  <2>1. PICK d \in D : x = <<g[f[d[1]]], g[f[d[2]]]>>
    OBVIOUS
  <2> DEFINE e == <<f[d[1]], f[d[2]]>>
  <2>2. e \in E /\ e[1] = f[d[1]] /\ e[2] = f[d[2]]
    OBVIOUS
  <2> HIDE DEF e, E
  <2> QED
    BY <2>1, <2>2
<1> QED
  BY <1>1, <1>2

\* y is made of what f makes of the parts of x, if it has parts at all.
MadeOfParts(x, f, y) ==
  \/ x[1] = "vec" /\ y = <<"vec", [i \in DOMAIN x[2] |-> f[x[2][i]]]>>
  \/ x[1] = "map" /\ y = <<"map", {<<f[e[1]], f[e[2]]>> : e \in x[2]}>>
  \/ y[1] \notin {"vec", "map"}

LEMMA PartsMade ==
  ASSUME NEW x, NEW f, NEW y, MadeOfParts(x, f, y), NEW q \in PartsOf(y)
  PROVE  \E p \in PartsOf(x) : q = f[p]
<1> DEFINE s == [i \in DOMAIN x[2] |-> f[x[2][i]]]
           es == {<<f[e[1]], f[e[2]]>> : e \in x[2]}
<1>1. CASE x[1] = "vec" /\ y = <<"vec", s>>
  <2>1. y[1] = "vec" /\ y[2] = s
    BY <1>1
  <2>2. PICK i \in DOMAIN s : q = s[i]
    BY <2>1, PartsAre
  <2>3. x[2][i] \in PartsOf(x)
    BY <1>1, PartsAre
  <2> QED
    BY <2>2, <2>3
<1>2. CASE x[1] = "map" /\ y = <<"map", es>>
  <2>1. y[1] = "map" /\ y[2] = es
    <3> HIDE DEF es
    <3> QED
      BY <1>2
  <2>2. PICK e \in es : q = e[1] \/ q = e[2]
    BY <2>1, PartsAre
  <2>3. PICK d \in x[2] : e = <<f[d[1]], f[d[2]]>>
    OBVIOUS
  <2>4. d[1] \in PartsOf(x) /\ d[2] \in PartsOf(x)
    BY <1>2, PartsAre
  <2> QED
    BY <2>2, <2>3, <2>4
<1>3. CASE y[1] \notin {"vec", "map"}
  BY <1>3, PartsAre
<1> QED
  BY <1>1, <1>2, <1>3 DEF MadeOfParts

-----------------------------------------------------------------------------
(* scval_to_json.                                                           *)

Depths == [v \in ScVals |-> ValDepth[v]]

ToJsonRecursion == INSTANCE RankedRecursion WITH X <- ScVals, rank <- Depths, Body <- ToJson

LEMMA ScValsAreTree == Tree(ScVals, Depths)
  BY ScValAssumption DEF Tree, Depths

LEMMA ToJsonIs ==
  ASSUME NEW v \in ScVals
  PROVE  scval_to_json[v] = ToJson(v, scval_to_json)
<1> DEFINE Eqn(f) == f = [x \in ScVals |-> ToJson(x, f)]
<1>1. ASSUME NEW x \in ScVals, NEW f, NEW g,
             \A y \in ScVals : Depths[y] < Depths[x] => f[y] = g[y]
      PROVE  ToJson(x, f) = ToJson(x, g)
  <2>1. \A p \in PartsOf(x) : f[p] = g[p]
    BY <1>1, ScValsAreTree DEF Tree
  <2> QED
    BY <2>1, PartsAgree DEF ToJson
<1>2. ToJsonRecursion!Ranked
  BY <1>1, ScValsAreTree DEF ToJsonRecursion!Ranked, Tree
<1>3. \E f : Eqn(f)
  BY <1>2, ToJsonRecursion!SolutionExists DEF ToJsonRecursion!Solves
<1>4. scval_to_json = CHOOSE f : Eqn(f)
  BY DEF scval_to_json
<1>5. Eqn(scval_to_json)
  <2> HIDE DEF Eqn
  <2> QED
    BY <1>3, <1>4
<1>6. [x \in ScVals |-> ToJson(x, scval_to_json)][v] = ToJson(v, scval_to_json)
  OBVIOUS
<1> QED
  BY <1>5, <1>6

\* The values scval_to_json converts, and the types these have.
Fine  == {v \in ScVals : ~Raises(scval_to_json[v])}
Types == Plain \cup {"i128", "u128", "i256", "u256", "bytes", "address", "vec", "map"} \cup Texts

LEMMA JsonOfFine ==
  ASSUME NEW v \in Fine
  PROVE  /\ v \in ScVals /\ v[1] \in Types
         /\ scval_to_json[v][1] = v[1]
         /\ v[1] \in Plain => scval_to_json[v] = v
         /\ v[1] \in {"i128", "u128"} => scval_to_json[v] = <<v[1], Join2(v[2])>>
         /\ v[1] \in {"i256", "u256"} => scval_to_json[v] = <<v[1], Join4(v[2])>>
         /\ v[1] \in Texts => scval_to_json[v] = <<v[1], Decoded(v[2])>>
         /\ v[1] = "bytes" => scval_to_json[v] = <<"bytes", Hex(v[2])>>
         /\ v[1] = "address" => scval_to_json[v] = <<"address", <<v[2][1], Hex(v[2][2])>> >>
         /\ v[1] = "vec" =>
              scval_to_json[v] = <<"vec", [i \in DOMAIN v[2] |-> scval_to_json[v[2][i]]]>>
         /\ v[1] = "map" =>
              scval_to_json[v] = <<"map", {<<scval_to_json[e[1]], scval_to_json[e[2]]>> : e \in v[2]}>>
         /\ \A p \in PartsOf(v) : p \in Fine
<1> DEFINE j == scval_to_json[v]
           s == [i \in DOMAIN v[2] |-> scval_to_json[v[2][i]]]
           es == {<<scval_to_json[e[1]], scval_to_json[e[2]]>> : e \in v[2]}
<1>1. v \in ScVals /\ ~Raises(j) /\ j = ToJson(v, scval_to_json)
  BY ToJsonIs DEF Fine
<1>2. \A x : Raises(Raise(x))
  BY DEF Raises, Raise
<1>3. CASE v[1] = "vec"
  <2>1. j = VecOf(s)
    BY <1>1, <1>3 DEF ToJson, Plain, Texts
  <2>0. DOMAIN s \subseteq Nat
    <3>1. v[2] \in Seq(ScVals)
      BY <1>1, <1>3, ScValAssumption
    <3> QED
      BY <3>1
  <2>2. ~\E i \in DOMAIN s : Raises(s[i])
    <3> HIDE DEF s
    <3> QED
      BY <1>1, <2>0, <2>1, VecOfIs
  <2>3. j = <<"vec", s>>
    <3> HIDE DEF s
    <3> QED
      BY <2>0, <2>1, <2>2, VecOfIs
  <2>4. \A p \in PartsOf(v) : p \in Fine
    <3>1. \A p \in PartsOf(v) : p \in ScVals /\ \E i \in DOMAIN v[2] : p = v[2][i]
      BY <1>1, <1>3, PartsAre, ScValAssumption
    <3> QED
      BY <2>2, <3>1 DEF Fine
  <2>5. j[1] = "vec"
    BY <2>3
  <2> QED
    BY <1>1, <1>3, <2>3, <2>4, <2>5 DEF Types, Plain, Texts
<1>4. CASE v[1] = "map"
  <2>1. j = MapOf(es)
    BY <1>1, <1>4 DEF ToJson, Plain, Texts
  <2>2. ~\E e \in es : Raises(e[1]) \/ Raises(e[2])
    BY <1>1, <2>1, MapOfIs
  <2>3. j = <<"map", es>>
    BY <2>1, <2>2, MapOfIs
  <2>4. \A p \in PartsOf(v) : p \in Fine
    <3>1. \A p \in PartsOf(v) : p \in ScVals /\ \E e \in v[2] : p = e[1] \/ p = e[2]
      BY <1>1, <1>4, PartsAre, ScValAssumption
    <3>2. \A e \in v[2] : ~Raises(scval_to_json[e[1]]) /\ ~Raises(scval_to_json[e[2]])
      <4>1. ASSUME NEW e \in v[2]
            PROVE  ~Raises(scval_to_json[e[1]]) /\ ~Raises(scval_to_json[e[2]])
        <5> DEFINE d == <<scval_to_json[e[1]], scval_to_json[e[2]]>>
        <5>1. d \in es /\ d[1] = scval_to_json[e[1]] /\ d[2] = scval_to_json[e[2]]
          OBVIOUS
        <5> HIDE DEF d, es
        <5> QED
          BY <2>2, <5>1
      <4> QED
        BY <4>1
    <3> QED
      BY <3>1, <3>2 DEF Fine
  <2>5. j[1] = "map"
    BY <2>3
  <2> QED
    BY <1>1, <1>4, <2>3, <2>4, <2>5 DEF Types, Plain, Texts
<1>5. CASE v[1] \notin {"vec", "map"}
  <2>1. PartsOf(v) = {}
    BY <1>5, PartsAre
  <2> HIDE DEF s, es
  <2>2. v[1] \in Types
    BY <1>1, <1>2, <1>5 DEF ToJson, Types
  <2>3. CASE v[1] \in Texts
    BY <1>1, <1>2, <1>5, <2>1, <2>3 DEF ToJson, Types, Plain, Texts
  <2>4. CASE v[1] \in Plain
    BY <1>1, <2>1, <2>2, <2>4 DEF ToJson, Plain, Texts
  <2>5. CASE v[1] \in {"i128", "u128"}
    <3>1. j = <<v[1], Join2(v[2])>>
      BY <1>1, <2>5 DEF ToJson, Plain, Texts
    <3>2. j[1] = v[1]
      BY <3>1
    <3> QED
      BY <1>1, <2>1, <2>2, <2>5, <3>1, <3>2 DEF Plain, Texts
  <2>6. CASE v[1] \in {"i256", "u256"}
    <3>1. j = <<v[1], Join4(v[2])>>
      BY <1>1, <2>6 DEF ToJson, Plain, Texts
    <3>2. j[1] = v[1]
      BY <3>1
    <3> QED
      BY <1>1, <2>1, <2>2, <2>6, <3>1, <3>2 DEF Plain, Texts
  <2>7. CASE v[1] = "bytes"
    <3>1. j = <<"bytes", Hex(v[2])>>
      BY <1>1, <2>7 DEF ToJson, Plain, Texts
    <3>2. j[1] = v[1]
      BY <2>7, <3>1
    <3> QED
      BY <1>1, <2>1, <2>2, <2>7, <3>1, <3>2 DEF Plain, Texts
  <2>8. CASE v[1] = "address"
    <3>1. j = <<"address", <<v[2][1], Hex(v[2][2])>> >>
      BY <1>1, <2>8 DEF ToJson, Plain, Texts
    <3>2. j[1] = v[1]
      BY <2>8, <3>1
    <3> QED
      BY <1>1, <2>1, <2>2, <2>8, <3>1, <3>2 DEF Plain, Texts
  <2> QED
    BY <1>5, <2>2, <2>3, <2>4, <2>5, <2>6, <2>7, <2>8 DEF Types
<1> QED
  BY <1>3, <1>4, <1>5

\* The converted values are those made of the ones that are converted.
LEMMA JsonsAre == Jsons = {scval_to_json[v] : v \in Fine}
  BY DEF Jsons, Fine

LEMMA JsonKeepsParts == Tree(Fine, [v \in Fine |-> ValDepth[v]]) /\ KeepsParts(scval_to_json, Fine)
<1>1. Tree(Fine, [v \in Fine |-> ValDepth[v]])
  BY JsonOfFine, ScValAssumption DEF Tree
<1>2. ASSUME NEW v \in Fine, NEW q \in PartsOf(scval_to_json[v])
      PROVE  \E p \in PartsOf(v) : q = scval_to_json[p]
  <2>1. MadeOfParts(v, scval_to_json, scval_to_json[v])
    BY JsonOfFine DEF MadeOfParts
  <2> QED
    BY <2>1, PartsMade
<1> QED
  BY <1>1, <1>2 DEF KeepsParts

LEMMA JsonsAreTree == Tree(Jsons, RankOf(Jsons))
<1>1. \E q : Tree({scval_to_json[v] : v \in Fine}, q)
  BY JsonKeepsParts, ImageIsTree
<1> QED
  BY <1>1, JsonsAre, RankOfTree

-----------------------------------------------------------------------------
(* The values #decodeArg is defined on.                                     *)

DefinedRecursion == INSTANCE RankedRecursion WITH X <- Jsons, rank <- RankOf(Jsons), Body <- HasTerm

LEMMA DefinedIs ==
  ASSUME NEW j \in Jsons
  PROVE  /\ Defined[j] \in BOOLEAN
         /\ Defined[j] => /\ j[1] = "map" => \A d, e \in j[2] : d[1] = e[1] => d = e
                          /\ \A p \in PartsOf(j) : Defined[p]
<1> DEFINE Eqn(f) == f = [x \in Jsons |-> HasTerm(x, f)]
<1>1. ASSUME NEW x \in Jsons, NEW f, NEW g,
             \A y \in Jsons : RankOf(Jsons)[y] < RankOf(Jsons)[x] => f[y] = g[y]
      PROVE  HasTerm(x, f) = HasTerm(x, g)
  <2>1. \A p \in PartsOf(x) : f[p] = g[p]
    BY <1>1, JsonsAreTree DEF Tree
  <2> QED
    BY ONLY <2>1, Zenon DEF HasTerm
<1>2. DefinedRecursion!Ranked
  BY <1>1, JsonsAreTree DEF DefinedRecursion!Ranked, Tree
<1>3. \E f : Eqn(f)
  BY <1>2, DefinedRecursion!SolutionExists DEF DefinedRecursion!Solves
<1>4. Defined = CHOOSE f : Eqn(f)
  BY Zenon DEF Defined
<1>5. Eqn(Defined)
  <2> HIDE DEF Eqn
  <2> QED
    BY <1>3, <1>4
<1>6. [x \in Jsons |-> HasTerm(x, Defined)][j] = HasTerm(j, Defined)
  OBVIOUS
<1>7. Defined[j] = HasTerm(j, Defined)
  BY <1>5, <1>6
<1> QED
  BY <1>7, Zenon DEF HasTerm

\* The values that can be arguments and keys: all of what follows is about them.
Storable == {v \in Fine : Defined[scval_to_json[v]]}

LEMMA JsonOfStorable ==
  ASSUME NEW v \in Storable
  PROVE  /\ v \in Fine /\ v \in ScVals /\ v[1] \in Types
         /\ scval_to_json[v][1] = v[1]
         /\ v[1] \in Plain => scval_to_json[v] = v
         /\ v[1] \in {"i128", "u128"} => scval_to_json[v] = <<v[1], Join2(v[2])>>
         /\ v[1] \in {"i256", "u256"} => scval_to_json[v] = <<v[1], Join4(v[2])>>
         /\ v[1] \in Texts => scval_to_json[v] = <<v[1], Decoded(v[2])>>
         /\ v[1] = "bytes" => scval_to_json[v] = <<"bytes", Hex(v[2])>>
         /\ v[1] = "address" => scval_to_json[v] = <<"address", <<v[2][1], Hex(v[2][2])>> >>
         /\ v[1] = "vec" =>
              scval_to_json[v] = <<"vec", [i \in DOMAIN v[2] |-> scval_to_json[v[2][i]]]>>
         /\ v[1] = "map" =>
              scval_to_json[v] = <<"map", {<<scval_to_json[e[1]], scval_to_json[e[2]]>> : e \in v[2]}>>
         /\ \A p \in PartsOf(v) : p \in Storable
<1>1. v \in Fine
  BY DEF Storable
<1> DEFINE j == scval_to_json[v]
<1>2. ASSUME NEW p \in PartsOf(v) PROVE scval_to_json[p] \in PartsOf(j)
  <2>1. CASE v[1] = "vec"
    <3> DEFINE s == [i \in DOMAIN v[2] |-> scval_to_json[v[2][i]]]
    <3>1. PICK i \in DOMAIN v[2] : p = v[2][i]
      BY <2>1, PartsAre
    <3>2. j = <<"vec", s>>
      BY <1>1, <2>1, JsonOfFine
    <3>3. j[1] = "vec" /\ j[2] = s
      BY <3>2
    <3>4. i \in DOMAIN s /\ s[i] = scval_to_json[p]
      BY <3>1
    <3> HIDE DEF s, j
    <3> QED
      BY <3>3, <3>4, PartsAre
  <2>2. CASE v[1] = "map"
    <3> DEFINE es == {<<scval_to_json[e[1]], scval_to_json[e[2]]>> : e \in v[2]}
    <3>1. PICK e \in v[2] : p = e[1] \/ p = e[2]
      BY <2>2, PartsAre
    <3> DEFINE d == <<scval_to_json[e[1]], scval_to_json[e[2]]>>
    <3>2. d \in es /\ (d[1] = scval_to_json[p] \/ d[2] = scval_to_json[p])
      BY <3>1
    <3>3. j = <<"map", es>>
      BY <1>1, <2>2, JsonOfFine
    <3> HIDE DEF es, d
    <3>4. j[1] = "map" /\ j[2] = es
      BY <3>3
    <3> HIDE DEF j
    <3> QED
      BY <3>2, <3>4, PartsAre
  <2>3. CASE v[1] \notin {"vec", "map"}
    BY <2>3, PartsAre
  <2> QED
    BY <2>1, <2>2, <2>3
<1>3. j \in Jsons /\ Defined[j]
  BY <1>1, JsonsAre DEF Storable
<1>4. ASSUME NEW p \in PartsOf(v) PROVE p \in Storable
  <2>1. p \in Fine
    BY <1>1, JsonOfFine
  <2>2. Defined[scval_to_json[p]]
    BY <1>2, <1>3, DefinedIs
  <2> QED
    BY <2>1, <2>2 DEF Storable
<1> QED
  BY <1>1, <1>4, JsonOfFine

LEMMA DecodableAre == Decodable = {scval_to_json[v] : v \in Storable}
  BY JsonsAre DEF Decodable, Storable

LEMMA StorableIsTree == Tree(Storable, [v \in Storable |-> ValDepth[v]])
  BY JsonOfStorable, ScValAssumption DEF Tree

LEMMA DecodableIsTree == Tree(Decodable, RankOf(Decodable))
<1> DEFINE q == RankOf(Jsons)
<1>1. Tree(Jsons, q)
  BY JsonsAreTree
<1> HIDE DEF q
<1>2. \A j \in Decodable : j \in Jsons /\ \A p \in PartsOf(j) : p \in Decodable
  BY <1>1, DefinedIs DEF Tree, Decodable
<1>3. Tree(Decodable, [j \in Decodable |-> q[j]])
  BY <1>1, <1>2 DEF Tree
<1> QED
  BY <1>3, RankOfTree

-----------------------------------------------------------------------------
(* decodeArg.                                                               *)

TermRank == RankOf(Decodable)

DecodeRecursion == INSTANCE RankedRecursion WITH X <- Decodable, rank <- TermRank, Body <- Decode

LEMMA DecodeIs ==
  ASSUME NEW j \in Decodable
  PROVE  decodeArg[j] = Decode(j, decodeArg)
<1> DEFINE Eqn(f) == f = [x \in Decodable |-> Decode(x, f)]
<1>1. ASSUME NEW x \in Decodable, NEW f, NEW g,
             \A y \in Decodable : TermRank[y] < TermRank[x] => f[y] = g[y]
      PROVE  Decode(x, f) = Decode(x, g)
  <2>1. \A p \in PartsOf(x) : f[p] = g[p]
    BY <1>1, DecodableIsTree DEF Tree, TermRank
  <2> QED
    BY <2>1, PartsAgree DEF Decode
<1>2. DecodeRecursion!Ranked
  BY <1>1, DecodableIsTree DEF DecodeRecursion!Ranked, Tree, TermRank
<1>3. \E f : Eqn(f)
  BY <1>2, DecodeRecursion!SolutionExists DEF DecodeRecursion!Solves
<1>4. decodeArg = CHOOSE f : Eqn(f)
  BY DEF decodeArg
<1>5. Eqn(decodeArg)
  <2> HIDE DEF Eqn
  <2> QED
    BY <1>3, <1>4
<1>6. [x \in Decodable |-> Decode(x, decodeArg)][j] = Decode(j, decodeArg)
  OBVIOUS
<1> QED
  BY <1>5, <1>6

\* What the node stores for an argument.
Stored(v) == decodeArg[scval_to_json[v]]

LEMMA StoredIs ==
  ASSUME NEW v \in Storable
  PROVE  /\ v[1] \in Plain \cup {"bytes", "address"} => Stored(v) = v
         /\ v[1] \in {"i128", "u128"} => Stored(v) = <<v[1], Join2(v[2])>>
         /\ v[1] \in {"i256", "u256"} => Stored(v) = <<v[1], Join4(v[2])>>
         /\ v[1] \in Texts => Stored(v) = <<v[1], Decoded(v[2])>>
         /\ v[1] = "vec" => Stored(v) = <<"vec", [i \in DOMAIN v[2] |-> Stored(v[2][i])]>>
         /\ v[1] = "map" =>
              Stored(v) = <<"map", {<<Stored(e[1]), Stored(e[2])>> : e \in v[2]}>>
<1> DEFINE j == scval_to_json[v]
<1>1. j \in Decodable /\ Stored(v) = Decode(j, decodeArg) /\ j[1] = v[1]
  BY DecodableAre, DecodeIs, JsonOfStorable DEF Stored
<1>2. CASE v[1] \in Plain \cup {"i128", "u128", "i256", "u256"} \cup Texts
  <2>1. Stored(v) = j
    BY <1>1, <1>2 DEF Decode, Plain, Texts
  <2> QED
    BY <1>2, <2>1, JsonOfStorable DEF Plain, Texts
<1>3. CASE v[1] = "bytes"
  <2>1. j = <<"bytes", Hex(v[2])>>
    BY <1>3, JsonOfStorable
  <2>2. Stored(v) = <<"bytes", FromHex(j[2])>> /\ FromHex(j[2]) = v[2]
    BY <1>1, <1>3, <2>1 DEF Decode, FromHex, Hex
  <2>3. v = <<v[1], v[2]>>
    BY ScValAssumption, JsonOfStorable
  <2> QED
    BY <1>3, <2>2, <2>3 DEF Plain, Texts
<1>4. CASE v[1] = "address"
  <2>1. j = <<"address", <<v[2][1], Hex(v[2][2])>> >>
    BY <1>4, JsonOfStorable
  <2>2. /\ Stored(v) = <<"address", <<j[2][1], FromHex(j[2][2])>> >>
        /\ j[2][1] = v[2][1] /\ FromHex(j[2][2]) = v[2][2]
    BY <1>1, <1>4, <2>1 DEF Decode, FromHex, Hex
  <2>3. v = <<v[1], v[2]>> /\ v[2] = <<v[2][1], v[2][2]>>
    BY <1>4, ScValAssumption, JsonOfStorable
  <2> QED
    BY <1>4, <2>2, <2>3 DEF Plain, Texts
<1>5. CASE v[1] = "vec"
  <2> DEFINE s == [i \in DOMAIN v[2] |-> scval_to_json[v[2][i]]]
  <2>1. j = <<"vec", s>>
    BY <1>5, JsonOfStorable
  <2>2. Stored(v) = <<"vec", [i \in DOMAIN j[2] |-> decodeArg[j[2][i]]]>>
    BY <1>1, <1>5 DEF Decode
  <2>3. j[2] = s
    BY <2>1
  <2>4. [i \in DOMAIN s |-> decodeArg[s[i]]] = [i \in DOMAIN v[2] |-> Stored(v[2][i])]
    BY DEF Stored
  <2> QED
    BY <1>5, <2>2, <2>3, <2>4 DEF Plain, Texts
<1>6. CASE v[1] = "map"
  <2> DEFINE es == {<<scval_to_json[e[1]], scval_to_json[e[2]]>> : e \in v[2]}
  <2>1. j = <<"map", es>>
    BY <1>6, JsonOfStorable
  <2>2. Stored(v) = <<"map", {<<decodeArg[e[1]], decodeArg[e[2]]>> : e \in j[2]}>>
    BY <1>1, <1>6 DEF Decode
  <2>3. j[2] = es
    <3> HIDE DEF es
    <3> QED
      BY <2>1
  <2>4. {<<decodeArg[e[1]], decodeArg[e[2]]>> : e \in es}
          = {<<Stored(e[1]), Stored(e[2])>> : e \in v[2]}
    BY PairsOfPairs DEF Stored
  <2> QED
    BY <1>6, <2>2, <2>3, <2>4 DEF Plain, Texts
<1> QED
  BY <1>2, <1>3, <1>4, <1>5, <1>6, JsonOfStorable DEF Types

LEMMA StoredKeepsType ==
  ASSUME NEW v \in Storable
  PROVE  Stored(v)[1] = v[1]
<1>1. CASE v[1] = "vec"
  <2> DEFINE s == [i \in DOMAIN v[2] |-> Stored(v[2][i])]
  <2>1. Stored(v) = <<"vec", s>>
    BY <1>1, StoredIs
  <2> HIDE DEF s
  <2> QED
    BY <1>1, <2>1
<1>2. CASE v[1] = "map"
  <2> DEFINE es == {<<Stored(e[1]), Stored(e[2])>> : e \in v[2]}
  <2>1. Stored(v) = <<"map", es>>
    BY <1>2, StoredIs
  <2> HIDE DEF es
  <2> QED
    BY <1>2, <2>1
<1>3. CASE v[1] \in {"i128", "u128"}
  <2>1. Stored(v) = <<v[1], Join2(v[2])>>
    BY <1>3, StoredIs
  <2> QED
    BY <2>1
<1>4. CASE v[1] \in {"i256", "u256"}
  <2>1. Stored(v) = <<v[1], Join4(v[2])>>
    BY <1>4, StoredIs
  <2> QED
    BY <2>1
<1>5. CASE v[1] \in Texts
  <2>1. Stored(v) = <<v[1], Decoded(v[2])>>
    BY <1>5, StoredIs
  <2> QED
    BY <2>1
<1>6. CASE v[1] \in Plain \cup {"bytes", "address"}
  BY <1>6, StoredIs
<1> QED
  BY <1>1, <1>2, <1>3, <1>4, <1>5, <1>6, JsonOfStorable DEF Types

LEMMA KValsAre == KVals = {Stored(v) : v \in Storable}
  BY DecodableAre DEF KVals, Stored

LEMMA KValsAreTree == Tree(KVals, RankOf(KVals))
<1>1. KeepsParts(decodeArg, Decodable)
  <2>1. ASSUME NEW j \in Decodable PROVE MadeOfParts(j, decodeArg, decodeArg[j])
    <3>1. decodeArg[j] = Decode(j, decodeArg)
      BY DecodeIs
    <3>2. CASE j[1] = "bytes"
      <4>1. decodeArg[j] = <<"bytes", FromHex(j[2])>>
        BY <3>1, <3>2 DEF Decode
      <4> QED
        BY <4>1 DEF MadeOfParts
    <3>3. CASE j[1] = "address"
      <4>1. decodeArg[j] = <<"address", <<j[2][1], FromHex(j[2][2])>> >>
        BY <3>1, <3>3 DEF Decode
      <4> QED
        BY <4>1 DEF MadeOfParts
    <3>4. CASE j[1] \in {"vec", "map"}
      BY <3>1, <3>4 DEF Decode, MadeOfParts
    <3>5. CASE j[1] \notin {"bytes", "address", "vec", "map"}
      BY <3>1, <3>5 DEF Decode, MadeOfParts
    <3> QED
      BY <3>2, <3>3, <3>4, <3>5
  <2> QED
    BY <2>1, PartsMade DEF KeepsParts
<1>2. \E q : Tree({decodeArg[j] : j \in Decodable}, q)
  BY <1>1, DecodableIsTree, ImageIsTree
<1> QED
  BY <1>2, RankOfTree DEF KVals

-----------------------------------------------------------------------------
(* scVal2JSON.                                                              *)

KValRank == RankOf(KVals)

PresentRecursion == INSTANCE RankedRecursion WITH X <- KVals, rank <- KValRank, Body <- Present

LEMMA PresentIs ==
  ASSUME NEW k \in KVals
  PROVE  scVal2JSON[k] = Present(k, scVal2JSON)
<1> DEFINE Eqn(f) == f = [x \in KVals |-> Present(x, f)]
<1>1. ASSUME NEW x \in KVals, NEW f, NEW g,
             \A y \in KVals : KValRank[y] < KValRank[x] => f[y] = g[y]
      PROVE  Present(x, f) = Present(x, g)
  <2>1. \A p \in PartsOf(x) : f[p] = g[p]
    BY <1>1, KValsAreTree DEF Tree, KValRank
  <2> QED
    BY <2>1, PartsAgree DEF Present
<1>2. PresentRecursion!Ranked
  BY <1>1, KValsAreTree DEF PresentRecursion!Ranked, Tree, KValRank
<1>3. \E f : Eqn(f)
  BY <1>2, PresentRecursion!SolutionExists DEF PresentRecursion!Solves
<1>4. scVal2JSON = CHOOSE f : Eqn(f)
  BY DEF scVal2JSON
<1>5. Eqn(scVal2JSON)
  <2> HIDE DEF Eqn
  <2> QED
    BY <1>3, <1>4
<1>6. [x \in KVals |-> Present(x, scVal2JSON)][k] = Present(k, scVal2JSON)
  OBVIOUS
<1> QED
  BY <1>5, <1>6

\* The JSON form of what is stored.
Served(v) == scVal2JSON[Stored(v)]

LEMMA ServedIs ==
  ASSUME NEW v \in Storable
  PROVE  /\ v[1] = "i256" => Served(v) = Unsupported
         /\ v[1] \in Plain => Served(v) = v
         /\ v[1] \in {"i128", "u128"} => Served(v) = <<v[1], Join2(v[2])>>
         /\ v[1] = "u256" => Served(v) = <<v[1], Join4(v[2])>>
         /\ v[1] \in Texts => Served(v) = <<v[1], Decoded(v[2])>>
         /\ v[1] = "bytes" => Served(v) = <<"bytes", Hex(v[2])>>
         /\ v[1] = "address" => Served(v) = <<"address", <<v[2][1], Hex(v[2][2])>> >>
         /\ v[1] = "vec" => Served(v) = <<"vec", [i \in DOMAIN v[2] |-> Served(v[2][i])]>>
         /\ v[1] = "map" =>
              Served(v) = <<"map", {<<Served(e[1]), Served(e[2])>> : e \in v[2]}>>
<1> DEFINE k == Stored(v)
<1>1. k \in KVals /\ Served(v) = Present(k, scVal2JSON) /\ k[1] = v[1]
  BY KValsAre, PresentIs, StoredKeepsType DEF Served
<1>2. CASE v[1] \in Plain \cup {"i128", "u128", "u256"} \cup Texts
  <2>1. Served(v) = k
    BY <1>1, <1>2 DEF Present, Plain, Texts
  <2> QED
    BY <1>2, <2>1, StoredIs DEF Plain, Texts
<1>3. CASE v[1] = "i256"
  <2>1. Served(v) = Unsupported
    BY <1>1, <1>3 DEF Present
  <2> QED
    BY <1>3, <2>1 DEF Plain, Texts
<1>4. CASE v[1] \in {"bytes", "address"}
  <2>1. k = v
    BY <1>4, StoredIs
  <2>2. Served(v) = Present(v, scVal2JSON)
    BY <1>1, <2>1
  <2> QED
    BY <1>4, <2>2 DEF Present, Plain, Texts
<1>5. CASE v[1] = "vec"
  <2> DEFINE s == [i \in DOMAIN v[2] |-> Stored(v[2][i])]
  <2>1. k = <<"vec", s>>
    BY <1>5, StoredIs
  <2>2. Served(v) = <<"vec", [i \in DOMAIN k[2] |-> scVal2JSON[k[2][i]]]>>
    BY <1>1, <1>5 DEF Present
  <2>3. k[2] = s
    BY <2>1
  <2>4. [i \in DOMAIN s |-> scVal2JSON[s[i]]] = [i \in DOMAIN v[2] |-> Served(v[2][i])]
    BY DEF Served
  <2> QED
    BY <1>5, <2>2, <2>3, <2>4 DEF Plain, Texts
<1>6. CASE v[1] = "map"
  <2> DEFINE es == {<<Stored(e[1]), Stored(e[2])>> : e \in v[2]}
  <2>1. k = <<"map", es>>
    BY <1>6, StoredIs
  <2>2. Served(v) = <<"map", {<<scVal2JSON[e[1]], scVal2JSON[e[2]]>> : e \in k[2]}>>
    BY <1>1, <1>6 DEF Present
  <2>3. k[2] = es
    <3> HIDE DEF es
    <3> QED
      BY <2>1
  <2>4. {<<scVal2JSON[e[1]], scVal2JSON[e[2]]>> : e \in es}
          = {<<Served(e[1]), Served(e[2])>> : e \in v[2]}
    <3> DEFINE f == [p \in PartsOf(v) |-> Stored(p)]
    <3>1. \A e \in v[2] : f[e[1]] = Stored(e[1]) /\ f[e[2]] = Stored(e[2])
      BY <1>6, PartsAre
    <3> HIDE DEF f
    <3>2. es = {<<f[e[1]], f[e[2]]>> : e \in v[2]}
      BY <3>1
    <3>3. {<<scVal2JSON[f[e[1]]], scVal2JSON[f[e[2]]]>> : e \in v[2]}
            = {<<Served(e[1]), Served(e[2])>> : e \in v[2]}
      BY <3>1 DEF Served
    <3> DEFINE D == v[2]
    <3> HIDE DEF es, D
    <3>4. {<<scVal2JSON[e[1]], scVal2JSON[e[2]]>> : e \in {<<f[d[1]], f[d[2]]>> : d \in D}}
            = {<<scVal2JSON[f[d[1]]], scVal2JSON[f[d[2]]]>> : d \in D}
      BY PairsOfPairs
    <3> QED
      BY <3>2, <3>3, <3>4 DEF D
  <2> QED
    BY <1>6, <2>2, <2>3, <2>4 DEF Plain, Texts
<1> QED
  BY <1>2, <1>3, <1>4, <1>5, <1>6, JsonOfStorable DEF Types

LEMMA ReadableIs == Readable = Jsons \cup {Served(v) : v \in Storable}
  BY KValsAre DEF Readable, Served

LEMMA ReadableIsTree == Tree(Readable, RankOf(Readable))
<1>1. KeepsParts(scVal2JSON, KVals)
  <2>1. ASSUME NEW k \in KVals PROVE MadeOfParts(k, scVal2JSON, scVal2JSON[k])
    <3>1. scVal2JSON[k] = Present(k, scVal2JSON)
      BY PresentIs
    <3>2. CASE k[1] = "i256"
      <4>1. scVal2JSON[k] = <<"unsupported">>
        BY <3>1, <3>2 DEF Present, Unsupported
      <4>2. scVal2JSON[k][1] = "unsupported"
        BY <4>1
      <4> QED
        BY <4>2 DEF MadeOfParts
    <3>3. CASE k[1] = "bytes"
      <4>1. scVal2JSON[k] = <<"bytes", Hex(k[2])>>
        BY <3>1, <3>3 DEF Present
      <4> QED
        BY <4>1 DEF MadeOfParts
    <3>4. CASE k[1] = "address"
      <4>1. scVal2JSON[k] = <<"address", <<k[2][1], Hex(k[2][2])>> >>
        BY <3>1, <3>4 DEF Present
      <4> QED
        BY <4>1 DEF MadeOfParts
    <3>5. CASE k[1] \in {"vec", "map"}
      BY <3>1, <3>5 DEF Present, MadeOfParts
    <3>6. CASE k[1] \notin {"i256", "bytes", "address", "vec", "map"}
      BY <3>1, <3>6 DEF Present, MadeOfParts
    <3> QED
      BY <3>2, <3>3, <3>4, <3>5, <3>6
  <2> QED
    BY <2>1, PartsMade DEF KeepsParts
<1>2. PICK q : Tree({scVal2JSON[k] : k \in KVals}, q)
  BY <1>1, KValsAreTree, ImageIsTree
<1>3. \E u : Tree(Readable, u)
  BY <1>2, JsonsAreTree, UnionIsTree DEF Readable
<1> QED
  BY <1>3, RankOfTree

-----------------------------------------------------------------------------
(* scval_from_json.                                                         *)

ReadRank == RankOf(Readable)

FromJsonRecursion == INSTANCE RankedRecursion WITH X <- Readable, rank <- ReadRank, Body <- FromJson

LEMMA FromJsonIs ==
  ASSUME NEW j \in Readable
  PROVE  scval_from_json[j] = FromJson(j, scval_from_json)
<1> DEFINE Eqn(f) == f = [x \in Readable |-> FromJson(x, f)]
<1>1. ASSUME NEW x \in Readable, NEW f, NEW g,
             \A y \in Readable : ReadRank[y] < ReadRank[x] => f[y] = g[y]
      PROVE  FromJson(x, f) = FromJson(x, g)
  <2>1. \A p \in PartsOf(x) : f[p] = g[p]
    BY <1>1, ReadableIsTree DEF Tree, ReadRank
  <2> QED
    BY <2>1, PartsAgree DEF FromJson
<1>2. FromJsonRecursion!Ranked
  BY <1>1, ReadableIsTree DEF FromJsonRecursion!Ranked, Tree, ReadRank
<1>3. \E f : Eqn(f)
  BY <1>2, FromJsonRecursion!SolutionExists DEF FromJsonRecursion!Solves
<1>4. scval_from_json = CHOOSE f : Eqn(f)
  BY DEF scval_from_json
<1>5. Eqn(scval_from_json)
  <2> HIDE DEF Eqn
  <2> QED
    BY <1>3, <1>4
<1>6. [x \in Readable |-> FromJson(x, scval_from_json)][j] = FromJson(j, scval_from_json)
  OBVIOUS
<1> QED
  BY <1>5, <1>6

-----------------------------------------------------------------------------
(* The values with no JSON form.                                            *)

NoFormIn(v, part) == v[1] = "i256" \/ \E p \in PartsOf(v) : part[p]

NoFormRecursion == INSTANCE RankedRecursion WITH X <- ScVals, rank <- Depths, Body <- NoFormIn

LEMMA NoFormIs ==
  ASSUME NEW v \in ScVals
  PROVE  NoForm[v] <=> v[1] = "i256" \/ \E p \in PartsOf(v) : NoForm[p]
<1> DEFINE Eqn(f) == f = [x \in ScVals |-> NoFormIn(x, f)]
<1>1. ASSUME NEW x \in ScVals, NEW f, NEW g,
             \A y \in ScVals : Depths[y] < Depths[x] => f[y] = g[y]
      PROVE  NoFormIn(x, f) = NoFormIn(x, g)
  <2>1. \A p \in PartsOf(x) : f[p] = g[p]
    BY <1>1, ScValsAreTree DEF Tree
  <2> QED
    BY ONLY <2>1, Zenon DEF NoFormIn
<1>2. NoFormRecursion!Ranked
  BY <1>1, ScValsAreTree DEF NoFormRecursion!Ranked, Tree
<1>3. \E f : Eqn(f)
  BY <1>2, NoFormRecursion!SolutionExists DEF NoFormRecursion!Solves
<1>4. NoForm = CHOOSE f : Eqn(f)
  BY Zenon DEF NoForm, NoFormIn
<1>5. Eqn(NoForm)
  <2> HIDE DEF Eqn
  <2> QED
    BY <1>3, <1>4
<1>6. [x \in ScVals |-> NoFormIn(x, NoForm)][v] = NoFormIn(v, NoForm)
  OBVIOUS
<1>7. NoForm[v] = NoFormIn(v, NoForm)
  BY <1>5, <1>6
<1> QED
  BY <1>7, Zenon DEF NoFormIn

-----------------------------------------------------------------------------
(* There and back.                                                          *)

\* What a client makes of a value it finds stored.
Returned(v) == scval_from_json[Served(v)]

LEMMA ReturnedIs ==
  ASSUME NEW v \in Storable
  PROVE  Returned(v) = FromJson(Served(v), scval_from_json)
  BY ReadableIs, FromJsonIs DEF Returned

\* A client that reads a value back has the value that was written, unless it is
\* one scVal2JSON has no form for: then the conversion raises, and never returns
\* something else.
RoundTrip(v) == IF NoForm[v] THEN Raises(Returned(v)) ELSE Returned(v) = v

LEMMA NotRaised == \A v \in Storable : ~Raises(v)
  BY JsonOfStorable DEF Types, Plain, Texts, Raises

LEMMA VecComesBack ==
  ASSUME NEW v \in Storable, v[1] = "vec", \A p \in PartsOf(v) : p \in Storable /\ RoundTrip(p)
  PROVE  RoundTrip(v)
<1> DEFINE s == [i \in DOMAIN v[2] |-> Served(v[2][i])]
           t == [i \in DOMAIN v[2] |-> Returned(v[2][i])]
<1>1. Served(v) = <<"vec", s>>
  BY ServedIs
<1>2. Served(v)[1] = "vec" /\ Served(v)[2] = s
  BY <1>1
<1>3. Returned(v) = VecOf([i \in DOMAIN s |-> scval_from_json[s[i]]])
  BY <1>2, ReturnedIs DEF FromJson, Plain, Texts
<1>4. [i \in DOMAIN s |-> scval_from_json[s[i]]] = t
  BY DEF Returned
<1>5. Returned(v) = VecOf(t)
  BY <1>3, <1>4
<1>6. \A i \in DOMAIN v[2] : v[2][i] \in Storable /\ RoundTrip(v[2][i]) /\ t[i] = Returned(v[2][i])
  BY PartsAre
<1>7. v \in ScVals /\ v = <<"vec", v[2]>> /\ v[2] \in Seq(ScVals)
  BY ScValAssumption DEF Storable, Fine
<1>8. NoForm[v] <=> \E i \in DOMAIN v[2] : NoForm[v[2][i]]
  BY <1>7, NoFormIs, PartsAre
<1>9. DOMAIN t = DOMAIN v[2] /\ DOMAIN t \subseteq Nat
  <2>1. DOMAIN t = DOMAIN v[2]
    OBVIOUS
  <2> HIDE DEF t
  <2> QED
    BY <1>7, <2>1
<1> HIDE DEF t
<1>10. CASE NoForm[v]
  <2>1. \E i \in DOMAIN t : Raises(t[i])
    BY <1>6, <1>8, <1>9, <1>10 DEF RoundTrip
  <2> QED
    BY <1>5, <1>9, <1>10, <2>1, VecOfIs DEF RoundTrip
<1>11. CASE ~NoForm[v]
  <2>1. \A i \in DOMAIN v[2] : t[i] = v[2][i] /\ ~Raises(t[i])
    BY <1>6, <1>8, <1>11, NotRaised DEF RoundTrip
  <2>2. Returned(v) = <<"vec", t>>
    BY <1>5, <1>9, <2>1, VecOfIs
  <2>3. t = v[2]
    BY <1>7, <1>9, <2>1 DEF t
  <2> QED
    BY <1>7, <1>11, <2>2, <2>3 DEF RoundTrip
<1> QED
  BY <1>10, <1>11

LEMMA MapComesBack ==
  ASSUME NEW v \in Storable, v[1] = "map", \A p \in PartsOf(v) : p \in Storable /\ RoundTrip(p)
  PROVE  RoundTrip(v)
<1> DEFINE f  == [p \in PartsOf(v) |-> Served(p)]
           es == {<<f[e[1]], f[e[2]]>> : e \in v[2]}
           rs == {<<Returned(e[1]), Returned(e[2])>> : e \in v[2]}
<1>1. \A e \in v[2] : e[1] \in PartsOf(v) /\ e[2] \in PartsOf(v)
  BY PartsAre
<1>2. \A e \in v[2] : f[e[1]] = Served(e[1]) /\ f[e[2]] = Served(e[2])
  BY <1>1
<1> HIDE DEF f
<1>3. es = {<<Served(e[1]), Served(e[2])>> : e \in v[2]}
  BY <1>2
<1>4. Served(v) = <<"map", es>>
  BY <1>3, ServedIs
<1>5. {<<scval_from_json[e[1]], scval_from_json[e[2]]>> : e \in es}
        = {<<scval_from_json[f[d[1]]], scval_from_json[f[d[2]]]>> : d \in v[2]}
  <2> DEFINE D == v[2]
  <2> HIDE DEF D
  <2>1. {<<scval_from_json[e[1]], scval_from_json[e[2]]>> : e \in {<<f[d[1]], f[d[2]]>> : d \in D}}
          = {<<scval_from_json[f[d[1]]], scval_from_json[f[d[2]]]>> : d \in D}
    BY PairsOfPairs
  <2> QED
    BY <2>1 DEF D
<1>6. {<<scval_from_json[f[d[1]]], scval_from_json[f[d[2]]]>> : d \in v[2]} = rs
  BY <1>2 DEF Returned
<1> HIDE DEF es
<1>7. Served(v)[1] = "map" /\ Served(v)[2] = es
  BY <1>4
<1>8. Returned(v) = MapOf({<<scval_from_json[e[1]], scval_from_json[e[2]]>> : e \in es})
  BY <1>7, ReturnedIs DEF FromJson, Plain, Texts
<1>9. Returned(v) = MapOf(rs)
  BY <1>5, <1>6, <1>8
<1>10. \A e \in v[2] : e[1] \in Storable /\ RoundTrip(e[1]) /\ e[2] \in Storable /\ RoundTrip(e[2])
  BY <1>1
<1>11. v \in ScVals /\ v = <<"map", v[2]>> /\ v[2] \in SUBSET (ScVals \X ScVals)
  BY ScValAssumption DEF Storable, Fine
<1>12. NoForm[v] <=> \E e \in v[2] : NoForm[e[1]] \/ NoForm[e[2]]
  BY <1>11, NoFormIs, PartsAre
<1>13. CASE NoForm[v]
  <2>1. PICK e \in v[2] : NoForm[e[1]] \/ NoForm[e[2]]
    BY <1>12, <1>13
  <2>2. Raises(Returned(e[1])) \/ Raises(Returned(e[2]))
    BY <1>10, <2>1 DEF RoundTrip
  <2> DEFINE d == <<Returned(e[1]), Returned(e[2])>>
  <2>3. d \in rs /\ d[1] = Returned(e[1]) /\ d[2] = Returned(e[2])
    OBVIOUS
  <2> HIDE DEF d, rs
  <2>4. \E x \in rs : Raises(x[1]) \/ Raises(x[2])
    BY <2>2, <2>3
  <2> QED
    BY <1>9, <1>13, <2>4, MapOfIs DEF RoundTrip
<1>14. CASE ~NoForm[v]
  <2>1. \A e \in v[2] : Returned(e[1]) = e[1] /\ Returned(e[2]) = e[2]
    BY <1>10, <1>12, <1>14 DEF RoundTrip
  <2>2. \A e \in v[2] : e = <<e[1], e[2]>>
    BY <1>11
  <2>3. rs = v[2]
    BY <2>1, <2>2
  <2>4. \A e \in v[2] : ~Raises(e[1]) /\ ~Raises(e[2])
    BY <1>10, NotRaised
  <2> HIDE DEF rs
  <2>5. Returned(v) = <<"map", rs>>
    BY <1>9, <2>3, <2>4, MapOfIs
  <2> QED
    BY <1>11, <1>14, <2>3, <2>5 DEF RoundTrip
<1> QED
  BY <1>13, <1>14

LEMMA LeafComesBack ==
  ASSUME NEW v \in Storable, v[1] \notin {"vec", "map"}
  PROVE  RoundTrip(v)
<1> DEFINE j == Served(v)
<1>1. /\ v \in ScVals /\ v = <<v[1], v[2]>> /\ v[1] \in Types
      /\ Returned(v) = FromJson(j, scval_from_json)
  BY ScValAssumption, JsonOfStorable, ReturnedIs
<1>2. NoForm[v] <=> v[1] = "i256"
  BY <1>1, NoFormIs, PartsAre
<1>3. CASE v[1] \in Plain
  <2>1. j = v
    BY <1>3, ServedIs
  <2>2. Returned(v) = v
    BY <1>1, <1>3, <2>1 DEF FromJson, Plain, Texts
  <2> QED
    BY <1>2, <1>3, <2>2 DEF RoundTrip, Plain
<1>4. CASE v[1] \in {"i128", "u128"}
  <2>1. v[2] \in Int \X UnsignedWord
    BY <1>1, <1>4, ScValAssumption
  <2>2. Split2(Join2(v[2])) = v[2]
    <3>1. PICK top \in Int, a \in UnsignedWord : v[2] = <<top, a>>
      BY <2>1
    <3>2. 0 \in UnsignedWord
      BY WordBasePositive DEF UnsignedWord
    <3> QED
      BY <3>1, <3>2, SplitUndoesJoin
  <2>3. j = <<v[1], Join2(v[2])>>
    BY <1>4, ServedIs
  <2>4. j[1] = v[1] /\ j[2] = Join2(v[2])
    BY <2>3
  <2>5. Returned(v) = <<v[1], Split2(Join2(v[2]))>>
    BY <1>1, <1>4, <2>4 DEF FromJson, Plain, Texts
  <2> QED
    BY <1>1, <1>2, <1>4, <2>2, <2>5 DEF RoundTrip
<1>5. CASE v[1] = "u256"
  <2>1. v[2] \in Int \X UnsignedWord \X UnsignedWord \X UnsignedWord
    BY <1>1, <1>5, ScValAssumption
  <2>2. Split4(Join4(v[2])) = v[2]
    <3>1. PICK top \in Int, a \in UnsignedWord, b \in UnsignedWord, c \in UnsignedWord :
                 v[2] = <<top, a, b, c>>
      BY <2>1
    <3> DEFINE w == <<top, a, b, c>>
    <3>2. Split4(Join4(w)) = w
      BY SplitUndoesJoin
    <3> HIDE DEF w
    <3>3. v[2] = w
      BY <3>1 DEF w
    <3> QED
      BY <3>2, <3>3
  <2>3. j = <<v[1], Join4(v[2])>>
    BY <1>5, ServedIs
  <2>4. j[1] = v[1] /\ j[2] = Join4(v[2])
    BY <2>3
  <2>5. Returned(v) = <<v[1], Split4(Join4(v[2]))>>
    BY <1>1, <1>5, <2>4 DEF FromJson, Plain, Texts
  <2> QED
    BY <1>1, <1>2, <1>5, <2>2, <2>5 DEF RoundTrip
<1>6. CASE v[1] = "i256"
  <2>1. j = <<"unsupported">>
    BY <1>6, ServedIs DEF Unsupported
  <2>2. j[1] = "unsupported"
    BY <2>1
  <2>3. Returned(v) = Raise("NotImplementedError")
    BY <1>1, <2>2 DEF FromJson, Plain, Texts
  <2> QED
    BY <1>2, <1>6, <2>3 DEF RoundTrip, Raises, Raise
<1>7. CASE v[1] \in Texts
  <2>1. j = <<v[1], Decoded(v[2])>>
    BY <1>7, ServedIs
  <2>2. j[1] = v[1] /\ Encoded(j[2]) = v[2]
    BY <2>1 DEF Encoded, Decoded
  <2>3. Returned(v) = <<v[1], Encoded(j[2])>>
    BY <1>1, <1>7, <2>2 DEF FromJson, Plain, Texts
  <2> QED
    BY <1>1, <1>2, <1>7, <2>2, <2>3 DEF RoundTrip, Texts
<1>8. CASE v[1] = "bytes"
  <2>1. j = <<"bytes", Hex(v[2])>>
    BY <1>8, ServedIs
  <2>2. j[1] = "bytes" /\ FromHex(j[2]) = v[2]
    BY <2>1 DEF FromHex, Hex
  <2>3. Returned(v) = <<"bytes", FromHex(j[2])>>
    BY <1>1, <2>2 DEF FromJson, Plain, Texts
  <2> QED
    BY <1>1, <1>2, <1>8, <2>2, <2>3 DEF RoundTrip
<1>9. CASE v[1] = "address"
  <2>1. j = <<"address", <<v[2][1], Hex(v[2][2])>> >> /\ v[2] = <<v[2][1], v[2][2]>>
    BY <1>1, <1>9, ServedIs, ScValAssumption
  <2>2. j[1] = "address" /\ j[2][1] = v[2][1] /\ FromHex(j[2][2]) = v[2][2]
    BY <2>1 DEF FromHex, Hex
  <2>3. Returned(v) = <<"address", <<j[2][1], FromHex(j[2][2])>> >>
    BY <1>1, <2>2 DEF FromJson, Plain, Texts
  <2> QED
    BY <1>1, <1>2, <1>9, <2>1, <2>2, <2>3 DEF RoundTrip
<1> QED
  BY <1>1, <1>3, <1>4, <1>5, <1>6, <1>7, <1>8, <1>9 DEF Types

\* A value that scval_to_json converts, the node stores and shows, and
\* scval_from_json reads back is the value the client wrote, however deep it is;
\* if it is or contains an i256, the reading raises and never yields another value.
THEOREM ValuesComeBack ==
  \A v \in Storable : RoundTrip(v)
<1> DEFINE rank == [v \in Storable |-> ValDepth[v]]
           T == {v \in Storable : RoundTrip(v)}
<1>1. Tree(Storable, rank)
  BY StorableIsTree
<1>2. rank \in [Storable -> Nat]
  BY <1>1 DEF Tree
<1>3. ASSUME NEW v \in Storable, \A w \in Storable : rank[w] < rank[v] => w \in T
      PROVE  v \in T
  <2>1. \A p \in PartsOf(v) : p \in Storable /\ RoundTrip(p)
    BY <1>1, <1>3 DEF Tree
  <2> QED
    BY <2>1, VecComesBack, MapComesBack, LeafComesBack
<1> HIDE DEF rank
<1>4. Inductive(Storable, rank, T)
  BY <1>3 DEF Inductive
<1> HIDE DEF T
<1>5. Storable \subseteq T
  BY <1>2, <1>4, RankInduction
<1> QED
  BY <1>5 DEF T

-----------------------------------------------------------------------------
(* Keys do not collide.                                                     *)

\* No other value is stored as v is.
Distinct(v) == \A w \in Storable : Stored(w) = Stored(v) => w = v

LEMMA VecIsDistinct ==
  ASSUME NEW v \in Storable, v[1] = "vec", \A p \in PartsOf(v) : p \in Storable /\ Distinct(p),
         NEW w \in Storable, w[1] = "vec", Stored(w) = Stored(v)
  PROVE  w = v
<1> DEFINE s == [i \in DOMAIN v[2] |-> Stored(v[2][i])]
           t == [i \in DOMAIN w[2] |-> Stored(w[2][i])]
<1>1. Stored(v) = <<"vec", s>> /\ Stored(w) = <<"vec", t>>
  BY StoredIs
<1>2. s = t
  BY <1>1
<1>3. DOMAIN v[2] = DOMAIN w[2]
  BY <1>2
<1>4. \A i \in DOMAIN v[2] : Stored(w[2][i]) = Stored(v[2][i])
  BY <1>2
<1>5. \A i \in DOMAIN v[2] : Distinct(v[2][i]) /\ w[2][i] \in Storable
  <2>1. \A p \in PartsOf(w) : p \in Storable
    BY JsonOfStorable
  <2>2. /\ PartsOf(v) = {v[2][i] : i \in DOMAIN v[2]}
        /\ PartsOf(w) = {w[2][i] : i \in DOMAIN w[2]}
    BY PartsAre
  <2> QED
    BY <1>3, <2>1, <2>2
<1>6. \A i \in DOMAIN v[2] : w[2][i] = v[2][i]
  BY <1>4, <1>5 DEF Distinct
<1>7. /\ v = <<"vec", v[2]>> /\ v[2] \in Seq(ScVals)
      /\ w = <<"vec", w[2]>> /\ w[2] \in Seq(ScVals)
  BY ScValAssumption DEF Storable, Fine
<1>8. w[2] = v[2]
  BY <1>3, <1>6, <1>7
<1> QED
  BY <1>7, <1>8

LEMMA MapIsDistinct ==
  ASSUME NEW v \in Storable, v[1] = "map", \A p \in PartsOf(v) : p \in Storable /\ Distinct(p),
         NEW w \in Storable, w[1] = "map", Stored(w) = Stored(v)
  PROVE  w = v
<1> DEFINE es == {<<Stored(e[1]), Stored(e[2])>> : e \in v[2]}
           fs == {<<Stored(e[1]), Stored(e[2])>> : e \in w[2]}
<1>1. /\ v = <<"map", v[2]>> /\ \A e \in v[2] : e = <<e[1], e[2]>>
      /\ w = <<"map", w[2]>> /\ \A e \in w[2] : e = <<e[1], e[2]>>
  BY ScValAssumption DEF Storable, Fine
<1>2. /\ \A e \in v[2] : e[1] \in Storable /\ Distinct(e[1]) /\ e[2] \in Storable /\ Distinct(e[2])
      /\ \A e \in w[2] : e[1] \in Storable /\ e[2] \in Storable
  <2>1. \A p \in PartsOf(w) : p \in Storable
    BY JsonOfStorable
  <2>2. /\ PartsOf(v) = UNION {{e[1], e[2]} : e \in v[2]}
        /\ PartsOf(w) = UNION {{e[1], e[2]} : e \in w[2]}
    BY PartsAre
  <2> QED
    BY <2>1, <2>2
<1>3. es = fs
  <2>1. Stored(v) = <<"map", es>> /\ Stored(w) = <<"map", fs>>
    BY StoredIs
  <2> HIDE DEF es, fs
  <2> QED
    BY <2>1
<1>4. \A d \in v[2], e \in w[2] :
        <<Stored(d[1]), Stored(d[2])>> = <<Stored(e[1]), Stored(e[2])>> => d = e
  <2>1. ASSUME NEW d \in v[2], NEW e \in w[2], Stored(d[1]) = Stored(e[1]),
               Stored(d[2]) = Stored(e[2])
        PROVE  d = e
    <3>1. d[1] = e[1] /\ d[2] = e[2]
      BY <1>2, <2>1 DEF Distinct
    <3> QED
      BY <1>1, <3>1
  <2> QED
    BY <2>1
<1>5. ASSUME NEW d \in v[2] PROVE d \in w[2]
  <2>1. <<Stored(d[1]), Stored(d[2])>> \in fs
    BY <1>3
  <2>2. PICK e \in w[2] : <<Stored(d[1]), Stored(d[2])>> = <<Stored(e[1]), Stored(e[2])>>
    BY <2>1
  <2> QED
    BY <1>4, <2>2
<1>6. ASSUME NEW e \in w[2] PROVE e \in v[2]
  <2>1. <<Stored(e[1]), Stored(e[2])>> \in es
    BY <1>3
  <2>2. PICK d \in v[2] : <<Stored(e[1]), Stored(e[2])>> = <<Stored(d[1]), Stored(d[2])>>
    BY <2>1
  <2> QED
    BY <1>4, <2>2
<1>7. w[2] = v[2]
  BY <1>5, <1>6
<1> QED
  BY <1>1, <1>7

LEMMA LeafIsDistinct ==
  ASSUME NEW v \in Storable, v[1] \notin {"vec", "map"},
         NEW w \in Storable, w[1] = v[1], Stored(w) = Stored(v)
  PROVE  w = v
<1>1. /\ v = <<v[1], v[2]>> /\ v[1] \in Types
      /\ w = <<w[1], w[2]>>
  BY ScValAssumption, JsonOfStorable
<1>2. CASE v[1] \in Plain \cup {"bytes", "address"}
  BY <1>2, StoredIs
<1>3. CASE v[1] \in {"i128", "u128"}
  <2>1. ASSUME NEW x \in Storable, x[1] \in {"i128", "u128"}
        PROVE  x[2] = Split2(Stored(x)[2])
    <3>1. x[2] \in Int \X UnsignedWord
      BY <2>1, ScValAssumption DEF Storable, Fine
    <3>2. PICK top \in Int, a \in UnsignedWord : x[2] = <<top, a>>
      BY <3>1
    <3>3. 0 \in UnsignedWord
      BY WordBasePositive DEF UnsignedWord
    <3>4. Split2(Join2(x[2])) = x[2]
      BY <3>2, <3>3, SplitUndoesJoin
    <3>5. Stored(x) = <<x[1], Join2(x[2])>>
      BY <2>1, StoredIs
    <3> QED
      BY <3>4, <3>5
  <2>2. v[2] = w[2]
    BY <1>3, <2>1
  <2> QED
    BY <1>1, <2>2
<1>4. CASE v[1] \in {"i256", "u256"}
  <2>1. ASSUME NEW x \in Storable, x[1] \in {"i256", "u256"}
        PROVE  x[2] = Split4(Stored(x)[2])
    <3>1. x[2] \in Int \X UnsignedWord \X UnsignedWord \X UnsignedWord
      BY <2>1, ScValAssumption DEF Storable, Fine
    <3>2. PICK top \in Int, a \in UnsignedWord, b \in UnsignedWord, c \in UnsignedWord :
                 x[2] = <<top, a, b, c>>
      BY <3>1
    <3> DEFINE q == <<top, a, b, c>>
    <3>3. Split4(Join4(q)) = q
      BY SplitUndoesJoin
    <3> HIDE DEF q
    <3>4. x[2] = q
      BY <3>2 DEF q
    <3>5. Stored(x) = <<x[1], Join4(x[2])>>
      BY <2>1, StoredIs
    <3> QED
      BY <3>3, <3>4, <3>5
  <2>2. v[2] = w[2]
    BY <1>4, <2>1
  <2> QED
    BY <1>1, <2>2
<1>5. CASE v[1] \in Texts
  <2>1. Stored(v) = <<v[1], Decoded(v[2])>> /\ Stored(w) = <<w[1], Decoded(w[2])>>
    BY <1>5, StoredIs
  <2>2. Decoded(v[2]) = Decoded(w[2])
    BY <2>1
  <2>3. v[2] = w[2]
    BY <2>2 DEF Decoded
  <2> QED
    BY <1>1, <2>3
<1> QED
  BY <1>1, <1>2, <1>3, <1>4, <1>5 DEF Types

\* Two values a client writes are one key of a contract's data only if they are
\* one value: no write takes the place of another key's, even of keys that have
\* no JSON form to tell them apart by.
THEOREM KeysDoNotCollide ==
  \A v, w \in Storable : Stored(w) = Stored(v) => w = v
<1> DEFINE rank == [v \in Storable |-> ValDepth[v]]
           T == {v \in Storable : Distinct(v)}
<1>1. Tree(Storable, rank)
  BY StorableIsTree
<1>2. rank \in [Storable -> Nat]
  BY <1>1 DEF Tree
<1>3. ASSUME NEW v \in Storable, \A w \in Storable : rank[w] < rank[v] => w \in T
      PROVE  v \in T
  <2>1. \A p \in PartsOf(v) : p \in Storable /\ Distinct(p)
    BY <1>1, <1>3 DEF Tree
  <2>2. ASSUME NEW w \in Storable, Stored(w) = Stored(v) PROVE w = v
    <3>1. w[1] = v[1]
      BY <2>2, StoredKeepsType
    <3> QED
      BY <2>1, <2>2, <3>1, VecIsDistinct, MapIsDistinct, LeafIsDistinct
  <2> QED
    BY <2>2 DEF Distinct
<1> HIDE DEF rank
<1>4. Inductive(Storable, rank, T)
  BY <1>3 DEF Inductive
<1> HIDE DEF T
<1>5. Storable \subseteq T
  BY <1>2, <1>4, RankInduction
<1> QED
  BY <1>5 DEF T, Distinct
=============================================================================
