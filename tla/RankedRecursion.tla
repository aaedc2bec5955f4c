--------------------------- MODULE RankedRecursion ---------------------------
(***************************************************************************)
(* Recursive functions along a rank.  A recursive function of a             *)
(* specification is chosen among the solutions of its equation, so before   *)
(* anything can be said of it there has to be one.  To be instantiated with *)
(* the domain of the function, a rank of its arguments and the right-hand   *)
(* side of its equation.                                                    *)
(***************************************************************************)
EXTENDS DataLemmas

CONSTANTS
  X,           \* the domain of the function
  rank,        \* of its arguments
  Body(_, _)   \* the value at an argument, in terms of the function

Solves(f, D) == f = [x \in D |-> Body(x, f)]

\* The value at an argument comes from the values at arguments of lower rank.
Ranked ==
  /\ rank \in [X -> Nat]
  /\ \A x \in X : \A f, g :
       (\A y \in X : rank[y] < rank[x] => f[y] = g[y]) => Body(x, f) = Body(x, g)

Upto(n) == {x \in X : rank[x] < n}

LEMMA SolutionAt ==
  ASSUME NEW D, NEW f, Solves(f, D), NEW x \in D
  PROVE  f[x] = Body(x, f)
<1>1. f = [y \in D |-> Body(y, f)]
  BY DEF Solves
<1>2. [y \in D |-> Body(y, f)][x] = Body(x, f)
  OBVIOUS
<1> QED
  BY <1>1, <1>2

\* Two solutions agree where both are defined.
LEMMA SolutionsAgree ==
  ASSUME Ranked, NEW m \in Nat, NEW n \in Nat,
         NEW f, NEW g, Solves(f, Upto(m)), Solves(g, Upto(n)),
         NEW x \in X, rank[x] < m, rank[x] < n
  PROVE  f[x] = g[x]
<1> DEFINE T == {y \in X : rank[y] < m /\ rank[y] < n => f[y] = g[y]}
<1>1. ASSUME NEW y \in X, \A z \in X : rank[z] < rank[y] => z \in T
      PROVE  y \in T
  <2> SUFFICES ASSUME rank[y] < m, rank[y] < n
               PROVE  f[y] = g[y]
    OBVIOUS
  <2>1. \A z \in X : rank[z] < rank[y] => f[z] = g[z]
    <3> SUFFICES ASSUME NEW z \in X, rank[z] < rank[y]
                 PROVE  f[z] = g[z]
      OBVIOUS
    <3>1. rank[z] \in Nat /\ rank[y] \in Nat
      BY DEF Ranked
    <3>2. rank[z] < m /\ rank[z] < n
      BY <3>1
    <3> QED
      BY <1>1, <3>2
  <2>2. Body(y, f) = Body(y, g)
    BY <2>1 DEF Ranked
  <2>3. y \in Upto(m) /\ y \in Upto(n)
    BY DEF Upto
  <2> QED
    BY <2>2, <2>3, SolutionAt
<1>2. Inductive(X, rank, T)
  <2> HIDE DEF T
  <2> QED
    BY <1>1 DEF Inductive
<1>3. X \subseteq T
  <2> HIDE DEF T
  <2> QED
    BY <1>2, RankInduction DEF Ranked
<1> QED
  BY <1>3

LEMMA SolutionUpto ==
  ASSUME Ranked
  PROVE  \A n \in Nat : \E f : Solves(f, Upto(n))
<1> DEFINE Bad == {n \in Nat : ~\E f : Solves(f, Upto(n))}
<1> SUFFICES ASSUME Bad # {} PROVE FALSE
  OBVIOUS
<1>1. PICK n \in Bad : \A m \in Bad : n <= m
  <2>1. Bad \in SUBSET Nat
    OBVIOUS
  <2> HIDE DEF Bad
  <2> QED
    BY <2>1, LeastNatural
<1>2. CASE n = 0
  <2>1. Upto(0) = {}
    BY DEF Upto, Ranked
  <2>2. Solves([x \in {} |-> x], {})
    BY DEF Solves
  <2> QED
    BY <1>2, <2>1, <2>2
<1>3. CASE n # 0
  <2>1. n \in Nat /\ n - 1 \in Nat /\ ~(n <= n - 1)
    BY <1>3
  <2>2. PICK g : Solves(g, Upto(n - 1))
    BY <1>1, <2>1
  <2> DEFINE h == [x \in Upto(n) |-> Body(x, g)]
  <2>3. ASSUME NEW x \in Upto(n)
        PROVE  Body(x, h) = Body(x, g)
    <3>1. x \in X /\ rank[x] \in Nat /\ rank[x] < n
      BY DEF Upto, Ranked
    <3>2. ASSUME NEW y \in X, rank[y] < rank[x] PROVE h[y] = g[y]
      <4>1. rank[y] \in Nat
        BY DEF Ranked
      <4>2. rank[y] < n /\ rank[y] < n - 1
        BY <2>1, <3>1, <3>2, <4>1
      <4>3. y \in Upto(n) /\ y \in Upto(n - 1)
        BY <4>2 DEF Upto
      <4>4. g[y] = Body(y, g)
        BY <2>2, <4>3, SolutionAt
      <4> QED
        BY <4>3, <4>4
    <3> HIDE DEF h
    <3> QED
      BY <3>1, <3>2 DEF Ranked
  <2>4. h = [x \in Upto(n) |-> Body(x, h)]
    <3>1. [x \in Upto(n) |-> Body(x, h)] = [x \in Upto(n) |-> Body(x, g)]
      <4> HIDE DEF h
      <4> QED
        BY <2>3
    <3> QED
      BY <3>1
  <2> HIDE DEF h
  <2>5. Solves(h, Upto(n))
    BY <2>4 DEF Solves
  <2> QED
    BY <2>1, <2>5
<1> QED
  BY <1>2, <1>3

\* A ranked equation has a solution.
THEOREM SolutionExists ==
  ASSUME Ranked
  PROVE  \E f : Solves(f, X)
<1> DEFINE F(n) == CHOOSE g : Solves(g, Upto(n))
           f == [x \in X |-> F(rank[x] + 1)[x]]
<1>1. \A n \in Nat : Solves(F(n), Upto(n))
  BY SolutionUpto
<1>2. \A x \in X : rank[x] \in Nat /\ rank[x] + 1 \in Nat /\ rank[x] < rank[x] + 1
  BY DEF Ranked
<1>3. ASSUME NEW x \in X
      PROVE  f[x] = Body(x, f)
  <2> DEFINE n == rank[x] + 1
             g == F(n)
  <2>1. n \in Nat /\ Solves(g, Upto(n)) /\ rank[x] < n
    BY <1>1, <1>2
  <2>2. x \in Upto(n)
    BY <2>1 DEF Upto
  <2>3. f[x] = g[x]
    OBVIOUS
  <2>4. g[x] = Body(x, g)
    <3> HIDE DEF g, n
    <3> QED
      BY <2>1, <2>2, SolutionAt
  <2>5. ASSUME NEW y \in X, rank[y] < rank[x] PROVE f[y] = g[y]
    <3> DEFINE m == rank[y] + 1
               k == F(m)
    <3>1. m \in Nat /\ Solves(k, Upto(m)) /\ rank[y] < m /\ rank[y] < n
      BY <1>1, <1>2, <2>5
    <3>2. f[y] = k[y]
      OBVIOUS
    <3> HIDE DEF g, n, m, k, f
    <3>3. k[y] = g[y]
      BY <2>1, <3>1, SolutionsAgree
    <3> QED
      BY <3>2, <3>3
  <2> HIDE DEF f, g
  <2>6. Body(x, f) = Body(x, g)
    BY <2>5 DEF Ranked
  <2> QED
    BY <2>3, <2>4, <2>6
<1>4. f = [x \in X |-> Body(x, f)]
  <2> DEFINE h == [x \in X |-> Body(x, f)]
  <2>1. \A x \in X : f[x] = h[x]
    BY <1>3
  <2>2. DOMAIN f = X /\ DOMAIN h = X
    OBVIOUS
  <2>3. f = [x \in X |-> f[x]] /\ h = [x \in X |-> h[x]]
    OBVIOUS
  <2> HIDE DEF f, h
  <2>4. [x \in X |-> f[x]] = [x \in X |-> h[x]]
    BY <2>1
  <2>5. f = h
    BY <2>3, <2>4
  <2> QED
    BY <2>5 DEF h
<1> HIDE DEF f
<1> QED
  BY <1>4 DEF Solves
=============================================================================
