---------------------------- MODULE PagingProofs ----------------------------
(***************************************************************************)
(* The cursors of the paginated methods, for every ledger and every width   *)
(* of the TOID fields, and what they are for: a client that walks the       *)
(* history or the events by its cursors gets each record once, in order,    *)
(* while the node goes on closing ledgers.                                  *)
(***************************************************************************)
EXTENDS PagingClients, NodeProofs, FiniteSetTheorems

-----------------------------------------------------------------------------
(* Listing a finite set in order.  R is a strict total order on S.          *)

StrictOrder(S, R) ==
  /\ \A x \in S : <<x, x>> \notin R
  /\ \A x, y \in S : x = y \/ <<x, y>> \in R \/ <<y, x>> \in R
  /\ \A x, y, z \in S : <<x, y>> \in R /\ <<y, z>> \in R => <<x, z>> \in R

Before(S, R, x) == {y \in S : <<y, x>> \in R}
Rank(S, R, x)   == Cardinality(Before(S, R, x))

LEMMA RankInRange ==
  ASSUME NEW S, NEW R, IsFiniteSet(S), StrictOrder(S, R), NEW x \in S
  PROVE  Rank(S, R, x) \in 0 .. Cardinality(S) - 1
<1>1. Before(S, R, x) \in SUBSET S /\ Before(S, R, x) # S
  BY DEF Before, StrictOrder
<1>2. IsFiniteSet(Before(S, R, x))
  BY <1>1, FS_Subset
<1>3. Cardinality(Before(S, R, x)) <= Cardinality(S)
      /\ Cardinality(Before(S, R, x)) # Cardinality(S)
  BY <1>1, FS_Subset
<1>4. Cardinality(Before(S, R, x)) \in Nat /\ Cardinality(S) \in Nat
  BY <1>2, FS_CardinalityType
<1> QED
  BY <1>3, <1>4 DEF Rank

LEMMA RankGrows ==
  ASSUME NEW S, NEW R, IsFiniteSet(S), StrictOrder(S, R), NEW x \in S, NEW y \in S,
         <<x, y>> \in R
  PROVE  Rank(S, R, x) < Rank(S, R, y)
<1>1. Before(S, R, x) \in SUBSET Before(S, R, y)
  BY DEF Before, StrictOrder
<1>2. x \in Before(S, R, y) /\ x \notin Before(S, R, x)
  BY DEF Before, StrictOrder
<1>3. IsFiniteSet(Before(S, R, y))
  <2>1. Before(S, R, y) \in SUBSET S
    BY DEF Before
  <2> QED
    BY <2>1, FS_Subset
<1>4. Rank(S, R, x) <= Rank(S, R, y) /\ Rank(S, R, x) # Rank(S, R, y)
  BY <1>1, <1>2, <1>3, FS_Subset DEF Rank
<1>5. Rank(S, R, x) \in Int /\ Rank(S, R, y) \in Int
  BY RankInRange
<1> QED
  BY <1>4, <1>5

\* Ranks tell the elements apart, so there is one for each of them.
LEMMA RankTaken ==
  ASSUME NEW S, NEW R, IsFiniteSet(S), StrictOrder(S, R),
         NEW k \in 0 .. Cardinality(S) - 1
  PROVE  \E x \in S : Rank(S, R, x) = k
<1> DEFINE T == 0 .. Cardinality(S) - 1
<1> DEFINE rank == [x \in S |-> Rank(S, R, x)]
<1>1. Cardinality(S) \in Nat
  BY FS_CardinalityType
<1>2. IsFiniteSet(T) /\ Cardinality(T) = Cardinality(S)
  <2>1. \A b \in Int : /\ IsFiniteSet(0 .. b)
                       /\ Cardinality(0 .. b) = IF 0 > b THEN 0 ELSE b - 0 + 1
    BY FS_Interval
  <2>2. Cardinality(S) - 1 \in Int
    BY <1>1
  <2> QED
    BY <1>1, <2>1, <2>2
<1>3. rank \in [S -> T]
  BY RankInRange
<1>4. ASSUME NEW x \in S, NEW y \in S, rank[x] = rank[y] PROVE x = y
  <2>1. <<x, y>> \notin R /\ <<y, x>> \notin R
    BY <1>4, RankGrows, RankInRange
  <2> QED
    BY <2>1 DEF StrictOrder
<1>5. rank \in Injection(S, T)
  BY <1>3, <1>4 DEF Injection, IsInjective
<1>6. rank \in Surjection(S, T)
  <2> HIDE DEF rank, T
  <2> QED
    BY <1>2, <1>5, FS_Injection
<1>7. \E x \in S : rank[x] = k
  BY <1>6 DEF Surjection
<1> QED
  BY <1>7

\* s has every element of S once, in order.
Listed(S, R, s) ==
  /\ s \in Seq(S) /\ Len(s) = Cardinality(S)
  /\ \A x \in S : \E i \in 1 .. Len(s) : s[i] = x
  /\ \A i, j \in 1 .. Len(s) : i < j => <<s[i], s[j]>> \in R

LEMMA ListedByRank ==
  ASSUME NEW S, NEW R, IsFiniteSet(S), StrictOrder(S, R),
         NEW s \in [1 .. Cardinality(S) -> S],
         \A i \in 1 .. Cardinality(S) : Rank(S, R, s[i]) = i - 1
  PROVE  Listed(S, R, s)
<1>1. Cardinality(S) \in Nat
  BY FS_CardinalityType
<1>2. s \in Seq(S) /\ Len(s) = Cardinality(S)
  BY <1>1
<1>3. ASSUME NEW x \in S PROVE \E i \in 1 .. Len(s) : s[i] = x
  <2>1. Rank(S, R, x) \in 0 .. Cardinality(S) - 1
    BY RankInRange
  <2> DEFINE i == Rank(S, R, x) + 1
  <2>2. i \in 1 .. Cardinality(S) /\ Rank(S, R, s[i]) = Rank(S, R, x) /\ s[i] \in S
    BY <1>1, <2>1
  <2>3. <<x, s[i]>> \notin R /\ <<s[i], x>> \notin R
    <3> HIDE DEF i
    <3> QED
      BY <2>1, <2>2, RankGrows
  <2>4. s[i] = x
    BY <2>2, <2>3 DEF StrictOrder
  <2> QED
    BY <1>2, <2>2, <2>4
<1>4. ASSUME NEW i \in 1 .. Len(s), NEW j \in 1 .. Len(s), i < j
      PROVE  <<s[i], s[j]>> \in R
  <2>1. /\ s[i] \in S /\ s[j] \in S
        /\ Rank(S, R, s[i]) = i - 1 /\ Rank(S, R, s[j]) = j - 1
    BY <1>2
  <2>2. s[i] # s[j]
    BY <1>1, <1>2, <1>4, <2>1
  <2>3. <<s[j], s[i]>> \notin R
    <3>1. ~(Rank(S, R, s[j]) < Rank(S, R, s[i]))
      BY <1>1, <1>2, <1>4, <2>1
    <3> QED
      BY <2>1, <3>1, RankGrows
  <2> QED
    BY <2>1, <2>2, <2>3 DEF StrictOrder
<1> QED
  BY <1>2, <1>3, <1>4 DEF Listed

LEMMA GreatestExists ==
  ASSUME NEW S, NEW R, IsFiniteSet(S), S # {}, StrictOrder(S, R)
  PROVE  \E x \in S : \A y \in S : x = y \/ <<y, x>> \in R
<1>1. Cardinality(S) \in Nat /\ Cardinality(S) # 0
  BY FS_CardinalityType, FS_EmptySet
<1>2. PICK x \in S : Rank(S, R, x) = Cardinality(S) - 1
  BY <1>1, RankTaken
<1>3. ASSUME NEW y \in S PROVE <<x, y>> \notin R
  <2>1. Rank(S, R, y) \in 0 .. Cardinality(S) - 1
    BY RankInRange
  <2> QED
    BY <1>1, <1>2, <2>1, RankGrows
<1> QED
  BY <1>3 DEF StrictOrder

-----------------------------------------------------------------------------
(* The cursors.                                                             *)

\* Division undoes the scaling of a ledger into a TOID.
LEMMA ToidLedger ==
  ASSUME NEW n \in Nat, NEW r \in Nat, r < LedgerUnit
  PROVE  (n * LedgerUnit + r) \div LedgerUnit = n
<1>1. LedgerUnit \in Nat /\ LedgerUnit > 0
  BY ToidAssumption
<1> DEFINE q == (n * LedgerUnit + r) \div LedgerUnit
<1>2. q \in Int /\ n * LedgerUnit \in Nat
  BY <1>1
<1>3. q * LedgerUnit <= n * LedgerUnit + r /\ n * LedgerUnit + r < (q + 1) * LedgerUnit
  BY <1>1, <1>2
<1>4. ~(q < n)
  BY <1>1, <1>2, <1>3
<1>5. ~(q > n)
  BY <1>1, <1>2, <1>3
<1> QED
  BY <1>2, <1>4, <1>5

\* A page of getTransactions or getLedgers resumes at the ledger after the one
\* its cursor names.
THEOREM CursorResumes ==
  ASSUME NEW name \in {"getTransactions", "getLedgers"}, NEW n \in Nat
  PROVE  StartAfter(name, RecordCursor(name, n)) = n + 1
<1>1. Toid(n) \div LedgerUnit = n
  BY ToidLedger, ToidAssumption DEF Toid
<1> QED
  BY <1>1 DEF StartAfter, CursorPosition, RecordCursor

\* A page of getEvents resumes in the ledger of the event, or at the end of the
\* window, that its cursor names.
THEOREM EventCursorResumes ==
  ASSUME NEW n \in Nat, NEW event
  PROVE  /\ CursorLedger(EventId(n, event)) = n
         /\ CursorLedger(LedgerCursor(n)) = n
<1>1. Toid(n) \div LedgerUnit = n
  BY ToidLedger, ToidAssumption DEF Toid
<1>2. (n * LedgerUnit + 0) \div LedgerUnit = n
  BY ToidLedger, ToidAssumption
<1>3. (n * LedgerUnit) \div LedgerUnit = n
  BY <1>2, ToidAssumption
<1> QED
  BY <1>1, <1>3 DEF CursorLedger, EventId, LedgerCursor

\* The cursor past a window separates its events from all later ones: none of
\* the window comes again, and none that is emitted later is missed.
THEOREM WindowCursorSeparates ==
  ASSUME NEW n \in Nat, NEW end \in Nat, NEW event
  PROVE  IdAfter(EventId(n, event), LedgerCursor(end)) <=> n >= end
<1> USE ToidAssumption
<1>1. ASSUME n >= end PROVE Toid(n) > end * LedgerUnit
  <2>1. n * LedgerUnit >= end * LedgerUnit
    BY <1>1
  <2> QED
    BY <2>1 DEF Toid
<1>2. ASSUME n < end PROVE Toid(n) < end * LedgerUnit
  <2>1. (n + 1) * LedgerUnit <= end * LedgerUnit
    BY <1>2
  <2>2. (n + 1) * LedgerUnit = n * LedgerUnit + LedgerUnit
    OBVIOUS
  <2> QED
    BY <2>1, <2>2 DEF Toid
<1>3. Toid(n) \in Int /\ end * LedgerUnit \in Int
  BY DEF Toid
<1> QED
  BY <1>1, <1>2, <1>3 DEF IdAfter, EventId, LedgerCursor

-----------------------------------------------------------------------------
(* Pages.                                                                   *)

Less(S) == {p \in S \X S : p[1] < p[2]}

LEMMA LessIsStrict ==
  ASSUME NEW S \in SUBSET Int
  PROVE  /\ StrictOrder(S, Less(S))
         /\ \A n \in S : Before(S, Less(S), n) = {m \in S : m < n}
         /\ \A m, n \in S : <<m, n>> \in Less(S) <=> m < n
<1>1. \A m, n \in S : <<m, n>> \in Less(S) <=> m < n
  BY DEF Less
<1>2. \A x \in S : x \in Int
  OBVIOUS
<1> DEFINE R == Less(S)
<1>3. \A m, n \in S : <<m, n>> \in R <=> m < n
  BY <1>1
<1> HIDE DEF R
<1>4. StrictOrder(S, R)
  BY <1>2, <1>3 DEF StrictOrder
<1>5. \A n \in S : Before(S, R, n) = {m \in S : m < n}
  BY <1>3 DEF Before
<1> QED
  BY <1>1, <1>4, <1>5 DEF R

LEMMA LastOfPage ==
  ASSUME NEW S \in SUBSET Int, IsFiniteSet(S), S # {}
  PROVE  LastOf(S) \in S /\ \A n \in S : n <= LastOf(S)
<1>1. StrictOrder(S, Less(S))
  BY LessIsStrict
<1>2. PICK x \in S : \A y \in S : x = y \/ <<y, x>> \in Less(S)
  BY <1>1, GreatestExists
<1>3. ASSUME NEW y \in S PROVE y <= x
  <2>1. <<y, x>> \in Less(S) => y < x
    BY LessIsStrict
  <2> QED
    BY <1>2, <2>1
<1> QED
  BY <1>3 DEF LastOf

LEMMA LedgersListed ==
  ASSUME NEW S \in SUBSET Int, IsFiniteSet(S)
  PROVE  LET s == InLedgerOrder(S)
         IN  /\ s \in Seq(S)
             /\ \A n \in S : \E i \in 1 .. Len(s) : s[i] = n
             /\ \A i, j \in 1 .. Len(s) : i < j => s[i] < s[j]
<1> DEFINE s == InLedgerOrder(S)
<1>1. s = [i \in 1 .. Cardinality(S) |-> s[i]]
  BY SMTT(60) DEF InLedgerOrder
<1>2. ASSUME NEW i \in 1 .. Cardinality(S)
      PROVE  s[i] \in S /\ Rank(S, Less(S), s[i]) = i - 1
  <2>1. i - 1 \in 0 .. Cardinality(S) - 1
    BY FS_CardinalityType
  <2>2. \E n \in S : Rank(S, Less(S), n) = i - 1
    BY <2>1, LessIsStrict, RankTaken
  <2>3. \E n \in S : Cardinality({m \in S : m < n}) = i - 1
    BY <2>2, LessIsStrict DEF Rank
  <2>4. s[i] = CHOOSE n \in S : Cardinality({m \in S : m < n}) = i - 1
    BY DEF InLedgerOrder
  <2>5. s[i] \in S /\ Cardinality({m \in S : m < s[i]}) = i - 1
    <3> HIDE DEF s
    <3> QED
      BY <2>3, <2>4
  <2> QED
    BY <2>5, LessIsStrict DEF Rank
<1>3. Listed(S, Less(S), s)
  <2> DEFINE R == Less(S)
  <2>1. StrictOrder(S, R)
    BY LessIsStrict
  <2>2. \A i \in 1 .. Cardinality(S) : Rank(S, R, s[i]) = i - 1
    BY <1>2
  <2>3. s \in [1 .. Cardinality(S) -> S]
    <3> HIDE DEF s
    <3> QED
      BY <1>1, <1>2
  <2> HIDE DEF s, R
  <2>4. Listed(S, R, s)
    BY <2>1, <2>2, <2>3, ListedByRank
  <2> QED
    BY <2>4 DEF R
<1> HIDE DEF s
<1>4. s \in Seq(S) /\ \A i \in 1 .. Len(s) : s[i] \in S
  BY <1>3 DEF Listed
<1>5. \A i, j \in 1 .. Len(s) : i < j => s[i] < s[j]
  BY <1>3, <1>4, LessIsStrict DEF Listed
<1> QED
  BY <1>3, <1>4, <1>5 DEF Listed, s

\* A page of the history is an interval of the ledgers that have a record.
LEMMA PageIsInterval ==
  ASSUME NEW first \in Nat, NEW limit \in Nat, latest \in Int, DOMAIN ledgers \subseteq Nat,
         NEW P, P = HistoryPage(first, limit)
  PROVE  /\ P \in SUBSET Int /\ IsFiniteSet(P)
         /\ \A n \in P : n \in Nat /\ first <= n /\ n <= latest
         /\ \A n \in P : \A m \in DOMAIN ledgers : first <= m /\ m <= n => m \in P
<1> DEFINE indexed == {n \in first .. latest : n \in DOMAIN ledgers}
<1> DEFINE below(n) == {m \in indexed : m < n}
<1>1. P = {n \in indexed : Cardinality(below(n)) < limit}
  BY DEF HistoryPage
<1>2. indexed \in SUBSET Int /\ IsFiniteSet(indexed)
  <2>1. IsFiniteSet(first .. latest)
    BY FS_Interval
  <2>2. indexed \in SUBSET (first .. latest)
    OBVIOUS
  <2> QED
    BY <2>1, <2>2, FS_Subset
<1>3. P \in SUBSET indexed
  BY <1>1
<1>4. IsFiniteSet(P)
  BY <1>2, <1>3, FS_Subset
<1>5. ASSUME NEW n \in P, NEW m \in DOMAIN ledgers, first <= m, m <= n PROVE m \in P
  <2>1. n \in indexed /\ m \in indexed
    BY <1>3, <1>5
  <2>2. below(m) \in SUBSET below(n)
    BY <1>2, <1>5, <2>1
  <2>3. below(n) \in SUBSET indexed /\ below(m) \in SUBSET indexed
    OBVIOUS
  <2> HIDE DEF indexed
  <2>4. IsFiniteSet(below(n)) /\ IsFiniteSet(below(m))
    BY <1>2, <2>3, FS_Subset
  <2> HIDE DEF below
  <2>5. /\ Cardinality(below(m)) \in Nat /\ Cardinality(below(n)) \in Nat
        /\ Cardinality(below(m)) <= Cardinality(below(n))
    BY <2>2, <2>4, FS_CardinalityType, FS_Subset
  <2>6. Cardinality(below(n)) < limit
    BY <1>1
  <2> QED
    BY <1>1, <2>1, <2>5, <2>6
<1> QED
  BY <1>2, <1>3, <1>4, <1>5

-----------------------------------------------------------------------------
(* Ids.                                                                     *)

Ids == [toid : Int, index : Int]

Earlier(S) == {p \in S \X S : IdAfter(p[2], p[1])}

LEMMA IdOrder ==
  /\ \A x \in Ids : ~IdAfter(x, x)
  /\ \A x, y \in Ids : x = y \/ IdAfter(x, y) \/ IdAfter(y, x)
  /\ \A x, y \in Ids : ~(IdAfter(x, y) /\ IdAfter(y, x))
  /\ \A x, y, z \in Ids : IdAfter(x, y) /\ IdAfter(y, z) => IdAfter(x, z)
BY DEF Ids, IdAfter

\* Not after is a total order.
LEMMA IdOrderWeak ==
  ASSUME NEW x \in Ids, NEW y \in Ids, NEW z \in Ids, ~IdAfter(x, y), ~IdAfter(y, z)
  PROVE  ~IdAfter(x, z)
BY DEF Ids, IdAfter

LEMMA EarlierIsStrict ==
  ASSUME NEW S \in SUBSET Ids
  PROVE  /\ StrictOrder(S, Earlier(S))
         /\ \A x \in S : Before(S, Earlier(S), x) = {y \in S : IdAfter(x, y)}
         /\ \A x, y \in S : <<x, y>> \in Earlier(S) <=> IdAfter(y, x)
<1>1. \A x, y \in S : <<x, y>> \in Earlier(S) <=> IdAfter(y, x)
  BY DEF Earlier
<1>2. \A x \in S : x \in Ids
  OBVIOUS
<1> DEFINE R == Earlier(S)
<1>3. \A x, y \in S : <<x, y>> \in R <=> IdAfter(y, x)
  BY <1>1
<1> HIDE DEF R
<1>4. StrictOrder(S, R)
  BY <1>2, <1>3, IdOrder DEF StrictOrder
<1>5. \A x \in S : Before(S, R, x) = {y \in S : IdAfter(x, y)}
  BY <1>3 DEF Before
<1> QED
  BY <1>1, <1>4, <1>5 DEF R

LEMMA LastId ==
  ASSUME NEW S \in SUBSET Ids, IsFiniteSet(S), S # {}
  PROVE  /\ LastEventId(S) \in S
         /\ \A y \in S : LastEventId(S) = y \/ IdAfter(LastEventId(S), y)
<1>1. StrictOrder(S, Earlier(S))
  BY EarlierIsStrict
<1>2. PICK x \in S : \A y \in S : x = y \/ <<y, x>> \in Earlier(S)
  BY <1>1, GreatestExists
<1>3. \A y \in S : x = y \/ IdAfter(x, y)
  BY <1>2, EarlierIsStrict
<1> QED
  BY <1>3 DEF LastEventId

LEMMA IdsListed ==
  ASSUME NEW S \in SUBSET Ids, IsFiniteSet(S)
  PROVE  LET s == InIdOrder(S)
         IN  /\ s \in Seq(S)
             /\ \A x \in S : \E i \in 1 .. Len(s) : s[i] = x
             /\ \A i, j \in 1 .. Len(s) : i < j => IdAfter(s[j], s[i])
<1> DEFINE s == InIdOrder(S)
<1> DEFINE R == Earlier(S)
<1> DEFINE nth(i) == CHOOSE x \in S : Cardinality({y \in S : IdAfter(x, y)}) = i - 1
<1>1. s = [i \in 1 .. Cardinality(S) |-> nth(i)]
  BY DEF InIdOrder
<1>2. StrictOrder(S, R)
  BY EarlierIsStrict
<1>3. \A x \in S : Rank(S, R, x) = Cardinality({y \in S : IdAfter(x, y)})
  BY EarlierIsStrict DEF Rank
<1>4. ASSUME NEW i \in 1 .. Cardinality(S)
      PROVE  s[i] \in S /\ Rank(S, R, s[i]) = i - 1
  <2>1. i - 1 \in 0 .. Cardinality(S) - 1
    BY FS_CardinalityType
  <2>2. \E x \in S : Rank(S, R, x) = i - 1
    <3> HIDE DEF R
    <3> QED
      BY <1>2, <2>1, RankTaken
  <2>3. \E x \in S : Cardinality({y \in S : IdAfter(x, y)}) = i - 1
    BY <1>3, <2>2
  <2>4. nth(i) \in S /\ Cardinality({y \in S : IdAfter(nth(i), y)}) = i - 1
    BY <2>3
  <2>5. s[i] = nth(i)
    <3> HIDE DEF s, nth
    <3> QED
      BY <1>1
  <2> QED
    BY <1>3, <2>4, <2>5
<1> HIDE DEF s, R
<1>5. s \in [1 .. Cardinality(S) -> S]
  <2> HIDE DEF nth
  <2> QED
    BY <1>1, <1>4
<1>6. Listed(S, R, s)
  BY <1>2, <1>4, <1>5, ListedByRank
<1>7. s \in Seq(S) /\ \A i \in 1 .. Len(s) : s[i] \in S
  BY <1>6 DEF Listed
<1>8. \A x, y \in S : <<x, y>> \in R <=> IdAfter(y, x)
  BY EarlierIsStrict DEF R
<1>9. \A i, j \in 1 .. Len(s) : i < j => IdAfter(s[j], s[i])
  BY <1>6, <1>7, <1>8 DEF Listed
<1> QED
  BY <1>6, <1>7, <1>9 DEF Listed, s

\* The first events of a page are those up to one of them; all, if they fit.
LEMMA FirstAreBelow ==
  ASSUME NEW M \in SUBSET Ids, IsFiniteSet(M), NEW limit \in Nat \ {0},
         NEW F, F = FirstEvents(limit, M)
  PROVE  /\ F \in SUBSET M /\ IsFiniteSet(F)
         /\ \A x \in F : \A y \in M : ~IdAfter(y, x) => y \in F
         /\ Cardinality(M) <= limit => F = M
         /\ ~(Cardinality(M) <= limit) => F # {}
<1> DEFINE R == Earlier(M)
<1>1. F = {x \in M : Rank(M, R, x) < limit}
  BY EarlierIsStrict DEF FirstEvents, Rank
<1>2. StrictOrder(M, R)
  BY EarlierIsStrict
<1>3. \A x, y \in M : <<x, y>> \in R <=> IdAfter(y, x)
  BY EarlierIsStrict
<1> HIDE DEF R
<1>4. Cardinality(M) \in Nat
  BY FS_CardinalityType
<1>5. \A x \in M : Rank(M, R, x) \in 0 .. Cardinality(M) - 1
  BY <1>2, RankInRange
<1>6. F \in SUBSET M /\ IsFiniteSet(F)
  BY <1>1, FS_Subset
<1>7. ASSUME NEW x \in F, NEW y \in M, ~IdAfter(y, x) PROVE y \in F
  <2>1. x \in M /\ Rank(M, R, x) < limit
    BY <1>1
  <2>2. x = y \/ Rank(M, R, y) < Rank(M, R, x)
    BY <1>2, <1>3, <1>7, <2>1, RankGrows DEF StrictOrder
  <2> QED
    BY <1>1, <1>5, <2>1, <2>2
<1>8. Cardinality(M) <= limit => F = M
  BY <1>1, <1>4, <1>5
<1>9. ASSUME ~(Cardinality(M) <= limit) PROVE F # {}
  <2>1. 0 \in 0 .. Cardinality(M) - 1
    BY <1>4, <1>9
  <2>2. PICK x \in M : Rank(M, R, x) = 0
    BY <1>2, <2>1, RankTaken
  <2> QED
    BY <1>1, <2>2
<1> QED
  BY <1>6, <1>7, <1>8, <1>9

-----------------------------------------------------------------------------
(* What the node does between two pages.                                    *)

\* The counter names the ledger of the transaction in flight, whose result is
\* still to be attached; or whose events are still to be filed.
Recording == Counted \/ pc = "attach"
Filing    == Recording \/ (pc \in {"events", "file"} /\ ~cur.dup)

FilesFinite == \A n \in DOMAIN events : IsFiniteSet(events[n])

LEMMA CounterGrows ==
  ASSUME ChainInv, Next
  PROVE  /\ latest \in Int /\ latest' \in Int /\ latest <= latest'
         /\ Recording' => (Recording /\ latest' = latest) \/ latest' = latest + 1
         /\ Filing' => (Filing /\ latest' = latest) \/ latest' = latest + 1
<1> USE DEF Recording, Filing, Counted, Answering, Sending
<1>1. latest \in Nat \cup {-1}
  BY DEF ChainInv, StoreInv, NodeInv, TypeOK, StoreTypeOK, NoMetadata
<1>2. CASE SeedMetadata
  <2>1. pc = "seeded" => latest \in {-1, 0}
    <3>1. pc = "seeded" => World = << >> /\ ~Counted
      BY DEF ChainInv, StoreInv, NodeInv, BootInv
    <3> QED
      BY <3>1 DEF ChainInv, AgreementInv, NoMetadata
  <2> QED
    BY <1>1, <1>2, <2>1 DEF SeedMetadata, NoMetadata
<1>3. CASE SeedState \/ SeedWritten \/ ResumeState \/ Stop \/ Clients
  BY <1>1, <1>3 DEF SeedState, SeedWritten, ResumeState, Stop, Clients, SubmitTx, SubmitRead,
     Simulate, storeVars
<1>4. CASE Launch \/ ProgramRuns \/ OpenTrace \/ StepsRun
  BY <1>1, <1>4 DEF Launch, ProgramRuns, OpenTrace, StepsRun, storeVars
<1>5. CASE ProgramStuck \/ ReadStuck \/ StepsStuck
  BY <1>1, <1>5 DEF ProgramStuck, ReadStuck, StepsStuck, Stuck, storeVars, ChainInv, StoreInv,
     NodeInv, ResponseInv
<1>6. CASE DispatchDuplicate \/ DispatchRead
  BY <1>1, <1>6 DEF DispatchDuplicate, DispatchRead, IsFresh, ChainInv, StoreInv, NodeInv,
     FreshnessInv, Sending
<1>7. CASE WriteMetadata
  <2>1. latest \in Nat
    BY <1>7 DEF WriteMetadata, ChainInv, StoreInv, NodeInv, RequestInv, Booting
  <2> QED
    BY <1>7, <2>1 DEF WriteMetadata
<1>8. CASE WriteReceipt \/ RespondPending
  BY <1>1, <1>8 DEF WriteReceipt, RespondPending
<1>9. CASE DropStaged \/ RecordFailure \/ ReadFails \/ AttachFails \/ FileEvents
           \/ StoreWasm \/ CloseLedger
  BY <1>1, <1>9 DEF DropStaged, RecordFailure, ReadFails, AttachFails, FileEvents, AfterEvents,
     StoreWasm, CloseLedger, Reply, storeVars
<1>10. CASE TruncateState \/ PersistState
  BY <1>1, <1>10 DEF TruncateState, PersistState, AfterPersist, Reply
<1>11. CASE AttachResult
  BY <1>1, <1>11 DEF AttachResult
<1>12. CASE TakeStaged
  <2>1. cur'.dup = cur.dup /\ cur'.method = cur.method
    BY <1>12, LinesHeld DEF ChainInv, StoreInv
  <2> QED
    BY <1>1, <1>12, <2>1 DEF TakeStaged
<1> QED
  BY <1>2, <1>3, <1>4, <1>5, <1>6, <1>7, <1>8, <1>9, <1>10, <1>11, <1>12
     DEF Next, Boot, Serving, Semantics, PostProcess

\* A receipt is finished under the ledger the counter names.
LEMMA FinishedGrows ==
  ASSUME ChainInv, Next, NEW n \in FinishedLedgers'
  PROVE  n \in FinishedLedgers \/ (Recording /\ n = latest)
<1> PICK t \in Tx : /\ Succeeded(t)' /\ receipts'[t].result = "resultXdr"
                    /\ n = receipts'[t].ledger
  BY DEF FinishedLedgers
<1>1. CASE UNCHANGED receipts
  BY <1>1 DEF FinishedLedgers, Succeeded, HasReceipt
<1>2. CASE WriteReceipt
  <2>1. t # cur.tx
    BY <1>2 DEF WriteReceipt, WriteFile, TxReceipt
  <2> QED
    BY <1>2, <2>1 DEF WriteReceipt, WriteFile, FinishedLedgers, Succeeded, HasReceipt
<1>3. CASE RecordFailure
  <2>1. t # cur.tx
    BY <1>3 DEF RecordFailure, WriteFile, FailedReceipt, Succeeded, HasReceipt
  <2> QED
    BY <1>3, <2>1 DEF RecordFailure, WriteFile, FinishedLedgers, Succeeded, HasReceipt
<1>4. CASE AttachFails
  <2>1. t # cur.tx
    BY <1>4 DEF AttachFails, Succeeded, HasReceipt
  <2> QED
    BY <1>4, <2>1 DEF AttachFails, FinishedLedgers, Succeeded, HasReceipt
<1>5. CASE AttachResult
  <2>1. CASE t # cur.tx
    BY <1>5, <2>1 DEF AttachResult, FinishedLedgers, Succeeded, HasReceipt
  <2>2. CASE t = cur.tx
    <3>1. receipts'[t].ledger = receipts[t].ledger
      BY <1>5, <2>2 DEF AttachResult, Succeeded, HasReceipt, ChainInv, StoreInv, NodeInv,
         TypeOK, StoreTypeOK, Receipt
    <3>2. pc = "attach" /\ ~cur.dup
      BY <1>5 DEF AttachResult, ChainInv, StoreInv, NodeInv, ResponseInv
    <3> QED
      BY <2>2, <3>1, <3>2 DEF ChainInv, StoreInv, EventsInv, Recording
  <2> QED
    BY <2>1, <2>2
<1> QED
  BY <1>1, <1>2, <1>3, <1>4, <1>5
     DEF Next, Boot, SeedState, SeedWritten, ResumeState, SeedMetadata, Stop, Clients,
         SubmitTx, SubmitRead, Simulate, Serving, Launch, Semantics, ProgramRuns,
         ProgramStuck, DispatchDuplicate, DispatchRead, ReadStuck, OpenTrace, StepsRun,
         StepsStuck, WriteMetadata, RespondPending, PostProcess, ReadFails, TruncateState,
         PersistState, DropStaged, TakeStaged, FileEvents, StoreWasm, CloseLedger,
         storeVars, chainFiles

LEMMA FinishedEventsFinite ==
  ASSUME cur \in Request
  PROVE  IsFiniteSet(FinishedEvents)
<1> DEFINE lines == {j \in 1 .. Len(cur.lines) : cur.lines[j].data = "plain"}
<1> DEFINE event(i) == [index |-> i - 1, origin |-> cur.lines[i].tx, txHash |-> cur.tx]
<1> DEFINE f == [i \in lines |-> event(i)]
<1>1. IsFiniteSet(lines)
  <2>1. Len(cur.lines) \in Nat
    BY DEF Request
  <2>2. IsFiniteSet(1 .. Len(cur.lines))
    BY <2>1, FS_Interval
  <2>3. lines \in SUBSET (1 .. Len(cur.lines))
    OBVIOUS
  <2> QED
    BY <2>2, <2>3, FS_Subset
<1>2. FinishedEvents = {event(i) : i \in lines}
  BY DEF FinishedEvents
<1> HIDE DEF lines, event
<1>3. f \in Surjection(lines, FinishedEvents)
  BY <1>2 DEF Surjection
<1> QED
  BY <1>1, <1>3, FS_Surjection

\* Events are filed under the ledger the counter names, before any reader can
\* have passed it.
LEMMA FilesGrow ==
  ASSUME ChainInv, FilesFinite, Next, NEW n \in DOMAIN events'
  PROVE  /\ IsFiniteSet(events'[n])
         /\ \/ n \in DOMAIN events /\ events'[n] = events[n]
            \/ Filing /\ n = latest
<1>1. CASE UNCHANGED events
  BY <1>1 DEF FilesFinite
<1>2. CASE FileEvents
  <2>1. IsFiniteSet(FinishedEvents)
    BY FinishedEventsFinite DEF ChainInv, StoreInv, NodeInv, TypeOK
  <2>2. FinishedEvents # {} => ~cur.dup
    <3>1. cur.dup => cur.lines = << >>
      BY <1>2 DEF FileEvents, ChainInv, StoreInv, EventsInv
    <3> QED
      BY <3>1 DEF FinishedEvents
  <2> QED
    BY <1>2, <2>1, <2>2 DEF FileEvents, WriteFile, FilesFinite, Filing
<1> QED
  BY <1>1, <1>2
     DEF Next, Boot, SeedState, SeedWritten, ResumeState, SeedMetadata, Stop, Clients,
         SubmitTx, SubmitRead, Simulate, Serving, Launch, Semantics, ProgramRuns,
         ProgramStuck, DispatchDuplicate, DispatchRead, ReadStuck, OpenTrace, StepsRun,
         StepsStuck, WriteMetadata, WriteReceipt, RespondPending, PostProcess, DropStaged,
         RecordFailure, TakeStaged, ReadFails, TruncateState, PersistState, AttachResult, AttachFails, StoreWasm,
         CloseLedger, storeVars, chainFiles

-----------------------------------------------------------------------------
(* The walk.                                                                *)

MethodInv == method \in HistoryMethods \cup {"getEvents"}

\* The client is past nothing it did not get, and never past the ledger that
\* is still being recorded.
HistoryWalkInv ==
  method \in HistoryMethods =>
    /\ cursor \in Nat \cup {NoCursor} /\ start \in Nat /\ seen \in Seq(Nat)
    /\ HistoryPosition \in Nat /\ HistoryPosition <= latest + 1
    /\ Recording => HistoryPosition <= latest
    /\ \A i \in 1 .. Len(seen) : seen[i] < HistoryPosition
    /\ \A i, j \in 1 .. Len(seen) : i < j => seen[i] < seen[j]
    /\ \A n \in FinishedLedgers :
         n < HistoryPosition => \E i \in 1 .. Len(seen) : seen[i] = n

CursorIds == [toid : Nat, index : Nat]

Got(id) == \E i \in 1 .. Len(seen) : seen[i] = id

EventWalkInv ==
  method = "getEvents" =>
    /\ start \in Nat /\ seen \in Seq(Ids)
    /\ cursor = NoId \/ cursor \in CursorIds
    /\ ~IdAfter(cursor, LedgerCursor(latest + 1))
    /\ Filing => ~IdAfter(cursor, LedgerCursor(latest))
    /\ \A i \in 1 .. Len(seen) : ~IdAfter(seen[i], cursor)
    /\ \A i, j \in 1 .. Len(seen) : i < j => IdAfter(seen[j], seen[i])
    /\ \A n \in DOMAIN events : \A e \in events[n] :
         n >= start /\ e.origin \in Wanted /\ ~IdAfter(EventId(n, e), cursor) =>
           Got(EventId(n, e))

WalkInv == ChainInv /\ MethodInv /\ FilesFinite /\ HistoryWalkInv /\ EventWalkInv

-----------------------------------------------------------------------------
(* Ids and the cursors of ledgers.                                          *)

LEMMA CursorTypes ==
  ASSUME NEW n \in Nat
  PROVE  /\ RecordCursor("getTransactions", n) \in Nat /\ RecordCursor("getLedgers", n) \in Nat
         /\ LedgerCursor(n) \in CursorIds
         /\ \A e \in Event : EventId(n, e) \in CursorIds
<1>1. n * LedgerUnit \in Nat /\ Toid(n) \in Nat
  BY ToidAssumption DEF Toid
<1>2. \A e \in Event : e.index \in Nat
  BY DEF Event
<1> QED
  BY <1>1, <1>2 DEF RecordCursor, LedgerCursor, EventId, CursorIds

LEMMA LedgerCursorGrows ==
  ASSUME NEW m \in Nat, NEW n \in Nat, m <= n
  PROVE  ~IdAfter(LedgerCursor(m), LedgerCursor(n))
<1>1. m * LedgerUnit <= n * LedgerUnit
  BY ToidAssumption
<1>2. m * LedgerUnit \in Int /\ n * LedgerUnit \in Int
  BY ToidAssumption
<1> QED
  BY <1>1, <1>2 DEF IdAfter, LedgerCursor

\* What comes after a cursor is in its ledger or a later one.
LEMMA AfterCursor ==
  ASSUME NEW c \in CursorIds, NEW n \in Nat, NEW e, IdAfter(EventId(n, e), c)
  PROVE  n >= CursorLedger(c)
<1> DEFINE q == c.toid \div LedgerUnit
<1>1. LedgerUnit \in Nat /\ LedgerUnit > 0 /\ c.toid \in Nat
  BY ToidAssumption DEF CursorIds
<1>2. c.toid <= n * LedgerUnit + OrderUnit
  BY <1>1, ToidAssumption DEF IdAfter, EventId, Toid
<1>3. q \in Int /\ q * LedgerUnit <= c.toid
  BY <1>1
<1>4. q * LedgerUnit < (n + 1) * LedgerUnit
  <2>1. (n + 1) * LedgerUnit = n * LedgerUnit + LedgerUnit
    BY <1>1
  <2>2. n * LedgerUnit \in Nat /\ q * LedgerUnit \in Int
    BY <1>1, <1>3
  <2> QED
    BY <1>1, <1>2, <1>3, <2>1, <2>2, ToidAssumption
<1>5. q < n + 1
  BY <1>1, <1>3, <1>4
<1> QED
  BY <1>3, <1>5 DEF CursorLedger

LEMMA BoundGrows ==
  \A m, n \in Int : m <= n =>
    /\ m \in Nat \cup {-1} => m + 1 \in Nat /\ n + 1 \in Nat
    /\ \A p \in Nat : p <= m + 1 => p <= n + 1
OBVIOUS

LEMMA InitEstablishesWalk == PagingInit => WalkInv
<1> SUFFICES ASSUME PagingInit PROVE WalkInv
  OBVIOUS
<1>1. /\ latest = -1 /\ events = NoFiles /\ receipts = NoFiles /\ pc = "down"
      /\ seen = << >> /\ ~Filing /\ ~Recording
  BY DEF PagingInit, Init, StoreInit, NoMetadata, Filing, Recording, Counted, Answering
<1>2. ChainInv /\ MethodInv
  BY InitEstablishesChainInv DEF PagingInit, MethodInv
<1>3. FilesFinite /\ DOMAIN events = {}
  BY <1>1 DEF FilesFinite, NoFiles
<1>4. FinishedLedgers = {}
  BY <1>1 DEF FinishedLedgers, Succeeded, HasReceipt, NoFiles
<1>5. HistoryWalkInv
  BY <1>1, <1>4 DEF PagingInit, HistoryWalkInv, HistoryPosition, HistoryMethods, NoCursor
<1>6. EventWalkInv
  <2> SUFFICES ASSUME method = "getEvents" PROVE EventWalkInv
    BY DEF EventWalkInv
  <2>1. cursor = NoId /\ start \in Nat
    BY PagingAssumption DEF PagingInit, HistoryMethods
  <2>2. LedgerCursor(latest + 1) \in CursorIds
    BY <1>1, CursorTypes
  <2>3. ~IdAfter(cursor, LedgerCursor(latest + 1))
    BY <2>1, <2>2 DEF IdAfter, NoId, CursorIds
  <2> QED
    BY <1>1, <1>3, <2>1, <2>3 DEF EventWalkInv
<1> QED
  BY <1>2, <1>3, <1>5, <1>6 DEF WalkInv

\* Whatever the node does between two pages, the walk stands.
LEMMA NodeKeepsHistoryWalk ==
  ASSUME WalkInv, Next, UNCHANGED readerVars
  PROVE  HistoryWalkInv'
<1> SUFFICES ASSUME method \in HistoryMethods PROVE HistoryWalkInv'
  BY DEF HistoryWalkInv, readerVars
<1>1. HistoryPosition' = HistoryPosition
  BY DEF HistoryPosition, readerVars
<1>2. latest \in Int /\ latest' \in Int /\ latest <= latest'
  BY CounterGrows DEF WalkInv
<1>3. /\ HistoryPosition \in Nat /\ HistoryPosition <= latest + 1
      /\ Recording => HistoryPosition <= latest
  BY DEF WalkInv, HistoryWalkInv
<1>4. ASSUME NEW n \in FinishedLedgers', n < HistoryPosition
      PROVE  \E i \in 1 .. Len(seen) : seen[i] = n
  <2>1. n \in FinishedLedgers \/ (Recording /\ n = latest)
    BY FinishedGrows DEF WalkInv
  <2>2. n \in FinishedLedgers
    BY <1>2, <1>3, <1>4, <2>1
  <2> QED
    BY <1>4, <2>2 DEF WalkInv, HistoryWalkInv
<1>5. /\ HistoryPosition' <= latest' + 1
      /\ Recording' => HistoryPosition' <= latest'
  <2>1. HistoryPosition' <= latest' + 1
    BY <1>1, <1>2, <1>3, BoundGrows
  <2>2. ASSUME Recording' PROVE HistoryPosition' <= latest'
    <3>1. (Recording /\ latest' = latest) \/ latest' = latest + 1
      BY <2>2, CounterGrows DEF WalkInv
    <3> QED
      BY <1>1, <1>2, <1>3, <3>1
  <2> QED
    BY <2>1, <2>2
<1>6. /\ cursor \in Nat \cup {NoCursor} /\ start \in Nat /\ seen \in Seq(Nat)
      /\ \A i \in 1 .. Len(seen) : seen[i] < HistoryPosition
      /\ \A i, j \in 1 .. Len(seen) : i < j => seen[i] < seen[j]
  BY DEF WalkInv, HistoryWalkInv
<1>7. cursor' = cursor /\ start' = start /\ seen' = seen
  BY DEF readerVars
<1> QED
  BY <1>1, <1>3, <1>4, <1>5, <1>6, <1>7 DEF HistoryWalkInv

LEMMA NodeKeepsEventWalk ==
  ASSUME WalkInv, Next, UNCHANGED readerVars
  PROVE  EventWalkInv'
<1> SUFFICES ASSUME method = "getEvents" PROVE EventWalkInv'
  BY DEF EventWalkInv, readerVars
<1>1. latest \in Int /\ latest' \in Int /\ latest <= latest'
  BY CounterGrows DEF WalkInv
<1>2. latest \in Nat \cup {-1} /\ \A n \in DOMAIN events' : n \in Nat /\ events'[n] \subseteq Event
  <2>1. TypeOK /\ TypeOK'
    BY NextPreservesChainInv DEF WalkInv, ChainInv, StoreInv, NodeInv
  <2> QED
    BY <2>1 DEF TypeOK, StoreTypeOK, NoMetadata
<1>3. /\ cursor \in Ids
      /\ ~IdAfter(cursor, LedgerCursor(latest + 1))
      /\ Filing => ~IdAfter(cursor, LedgerCursor(latest))
  BY DEF WalkInv, EventWalkInv, CursorIds, Ids, NoId
<1>4. ~IdAfter(cursor, LedgerCursor(latest' + 1))
  <2>1. LedgerCursor(latest + 1) \in Ids /\ LedgerCursor(latest' + 1) \in Ids
    <3>1. latest + 1 \in Nat /\ latest' + 1 \in Nat
      BY <1>1, <1>2, BoundGrows
    <3>2. LedgerCursor(latest + 1) \in CursorIds /\ LedgerCursor(latest' + 1) \in CursorIds
      BY <3>1, CursorTypes
    <3> QED
      BY <3>2 DEF CursorIds, Ids
  <2>2. ~IdAfter(LedgerCursor(latest + 1), LedgerCursor(latest' + 1))
    BY <1>1, <1>2, LedgerCursorGrows
  <2> QED
    BY <1>3, <2>1, <2>2, IdOrderWeak
<1>5. ASSUME Filing' PROVE ~IdAfter(cursor, LedgerCursor(latest'))
  <2>1. (Filing /\ latest' = latest) \/ latest' = latest + 1
    BY <1>5, CounterGrows DEF WalkInv
  <2> QED
    BY <1>3, <2>1
<1>6. ASSUME NEW n \in DOMAIN events', NEW e \in events'[n],
             n >= start, e.origin \in Wanted, ~IdAfter(EventId(n, e), cursor)
      PROVE  Got(EventId(n, e))
  <2>1. CASE n \in DOMAIN events /\ events'[n] = events[n]
    BY <1>6, <2>1 DEF WalkInv, EventWalkInv
  <2>2. CASE Filing /\ n = latest
    <3>1. n \in Nat /\ e \in Event
      BY <1>2
    <3>2. EventId(n, e) \in Ids /\ LedgerCursor(n) \in Ids
      BY <3>1, CursorTypes DEF CursorIds, Ids
    <3>3. IdAfter(EventId(n, e), LedgerCursor(n))
      BY <3>1, WindowCursorSeparates
    <3>4. ~IdAfter(EventId(n, e), LedgerCursor(n))
      BY <1>3, <1>6, <2>2, <3>2, IdOrderWeak
    <3> QED
      BY <3>3, <3>4
  <2> QED
    BY <2>1, <2>2, FilesGrow DEF WalkInv
<1> QED
  BY <1>4, <1>5, <1>6 DEF WalkInv, EventWalkInv, Got, readerVars

\* Two lists in a row, each in order, all of the first before all of the second.
LEMMA JoinedLists ==
  ASSUME NEW S, NEW a \in Seq(S), NEW b \in Seq(S), NEW c, c = a \o b
  PROVE  /\ c \in Seq(S) /\ Len(c) = Len(a) + Len(b)
         /\ \A i \in 1 .. Len(a) : i \in 1 .. Len(c) /\ c[i] = a[i]
         /\ \A i \in 1 .. Len(b) : Len(a) + i \in 1 .. Len(c) /\ c[Len(a) + i] = b[i]
         /\ \A i \in 1 .. Len(c) :
              \/ i \in 1 .. Len(a) /\ c[i] = a[i]
              \/ i - Len(a) \in 1 .. Len(b) /\ c[i] = b[i - Len(a)]
OBVIOUS

\* A page of the history.
LEMMA PageKeepsHistoryWalk ==
  ASSUME WalkInv, NEW limit \in Limits, PageHistory(limit)
  PROVE  HistoryWalkInv'
<1> DEFINE pos  == HistoryPosition
<1> DEFINE page == HistoryPage(pos, limit)
<1> DEFINE next == IF page = {} THEN pos ELSE LastOf(page) + 1
<1> DEFINE list == InLedgerOrder(page)
<1>1. limit \in Nat /\ limit # 0
  BY PagingAssumption
<1>2. method \in HistoryMethods /\ method' = method /\ pc = "idle" /\ UNCHANGED vars
  BY DEF PageHistory, Serves
<1>3. /\ start \in Nat /\ seen \in Seq(Nat) /\ pos \in Nat /\ pos <= latest + 1
      /\ \A i \in 1 .. Len(seen) : seen[i] < pos
      /\ \A i, j \in 1 .. Len(seen) : i < j => seen[i] < seen[j]
      /\ \A n \in FinishedLedgers :
           n < pos => \E i \in 1 .. Len(seen) : seen[i] = n
  BY <1>2 DEF WalkInv, HistoryWalkInv
<1>4. latest \in Nat /\ DOMAIN ledgers \subseteq Nat
  BY <1>2 DEF WalkInv, ChainInv, StoreInv, NodeInv, RequestInv, TypeOK, StoreTypeOK, Booting
<1> HIDE DEF pos
<1>5. /\ page \in SUBSET Int /\ IsFiniteSet(page)
      /\ \A n \in page : n \in Nat /\ pos <= n /\ n <= latest
      /\ \A n \in page : \A m \in DOMAIN ledgers : pos <= m /\ m <= n => m \in page
  BY <1>1, <1>3, <1>4, PageIsInterval
<1>6. /\ cursor' = PageCursor(method, page, limit)
      /\ start' = next
      /\ seen' = seen \o list
  BY DEF PageHistory, pos
<1> HIDE DEF page
<1>7. page # {} => LastOf(page) \in page /\ \A n \in page : n <= LastOf(page)
  BY <1>5, LastOfPage
<1>8. /\ next \in Nat /\ pos <= next /\ next <= latest + 1
      /\ \A n \in page : n < next
  <2>1. CASE page = {}
    BY <1>3, <2>1
  <2>2. CASE page # {}
    <3>1. next = LastOf(page) + 1
      BY <2>2
    <3>2. /\ LastOf(page) \in Nat /\ pos <= LastOf(page) /\ LastOf(page) <= latest
          /\ \A n \in page : n \in Nat /\ n <= LastOf(page)
      BY <1>5, <1>7, <2>2
    <3> HIDE DEF next
    <3> QED
      BY <1>3, <1>4, <3>1, <3>2
  <2> QED
    BY <2>1, <2>2
<1>9. cursor' \in Nat \cup {NoCursor} /\ HistoryPosition' = next
  <2>1. CASE cursor' = NoCursor
    BY <1>6, <2>1 DEF HistoryPosition
  <2>2. CASE Cardinality(page) = limit
    <3>1. page # {}
      BY <1>1, <2>2, FS_EmptySet
    <3>2. cursor' = RecordCursor(method, LastOf(page)) /\ LastOf(page) \in Nat
      BY <1>5, <1>6, <1>7, <2>2, <3>1 DEF PageCursor
    <3>3. RecordCursor(method, LastOf(page)) \in Nat
      BY <1>2, <3>2, CursorTypes DEF HistoryMethods
    <3>4. StartAfter(method, RecordCursor(method, LastOf(page))) = LastOf(page) + 1
      BY <1>2, <3>2, CursorResumes DEF HistoryMethods
    <3>5. cursor' # NoCursor
      BY <3>2, <3>3 DEF NoCursor
    <3> QED
      BY <1>2, <3>1, <3>2, <3>3, <3>4, <3>5 DEF HistoryPosition
  <2> QED
    BY <1>6, <2>1, <2>2 DEF PageCursor
<1>10. /\ list \in Seq(page)
       /\ \A n \in page : \E i \in 1 .. Len(list) : list[i] = n
       /\ \A i, j \in 1 .. Len(list) : i < j => list[i] < list[j]
  BY <1>5, LedgersListed
<1> HIDE DEF list, next
<1>11. list \in Seq(Nat) /\ \A i \in 1 .. Len(list) : list[i] \in page
  <2>1. \A i \in 1 .. Len(list) : list[i] \in page
    BY <1>10
  <2>2. \A i \in 1 .. Len(list) : list[i] \in Nat
    BY <1>5, <2>1
  <2>3. Len(list) \in Nat /\ list = [i \in 1 .. Len(list) |-> list[i]]
    BY <1>10
  <2>4. list \in [1 .. Len(list) -> Nat]
    BY <2>2, <2>3
  <2> QED
    BY <2>1, <2>3, <2>4
<1>12. /\ seen' \in Seq(Nat) /\ Len(seen') = Len(seen) + Len(list)
       /\ \A i \in 1 .. Len(seen) : i \in 1 .. Len(seen') /\ seen'[i] = seen[i]
       /\ \A i \in 1 .. Len(list) :
            Len(seen) + i \in 1 .. Len(seen') /\ seen'[Len(seen) + i] = list[i]
       /\ \A i \in 1 .. Len(seen') :
            \/ i \in 1 .. Len(seen) /\ seen'[i] = seen[i]
            \/ i - Len(seen) \in 1 .. Len(list) /\ seen'[i] = list[i - Len(seen)]
  BY <1>3, <1>6, <1>11, JoinedLists
<1>13. \A i \in 1 .. Len(seen') : seen'[i] < next
  <2> TAKE i \in 1 .. Len(seen')
  <2>1. CASE i \in 1 .. Len(seen) /\ seen'[i] = seen[i]
    <3>1. seen[i] \in Nat /\ seen[i] < pos
      BY <1>3, <2>1
    <3> QED
      BY <1>3, <1>8, <2>1, <3>1
  <2>2. CASE i - Len(seen) \in 1 .. Len(list) /\ seen'[i] = list[i - Len(seen)]
    BY <1>8, <1>11, <2>2
  <2> QED
    BY <1>12, <2>1, <2>2
<1>14. ASSUME NEW i \in 1 .. Len(seen'), NEW j \in 1 .. Len(seen'), i < j
       PROVE  seen'[i] < seen'[j]
  <2>1. Len(seen) \in Nat /\ i \in Nat /\ j \in Nat
    BY <1>3
  <2>2. CASE j \in 1 .. Len(seen) /\ seen'[j] = seen[j]
    <3>1. i \in 1 .. Len(seen) /\ seen'[i] = seen[i]
      BY <1>12, <1>14, <2>1, <2>2
    <3> QED
      BY <1>3, <1>14, <2>2, <3>1
  <2>3. CASE j - Len(seen) \in 1 .. Len(list) /\ seen'[j] = list[j - Len(seen)]
    <3>1. CASE i \in 1 .. Len(seen) /\ seen'[i] = seen[i]
      <4>1. seen[i] \in Nat /\ seen[i] < pos
        BY <1>3, <3>1
      <4>2. list[j - Len(seen)] \in Nat /\ pos <= list[j - Len(seen)]
        BY <1>5, <1>11, <2>3
      <4> QED
        BY <1>3, <2>3, <3>1, <4>1, <4>2
    <3>2. CASE i - Len(seen) \in 1 .. Len(list) /\ seen'[i] = list[i - Len(seen)]
      <4>1. i - Len(seen) < j - Len(seen)
        BY <1>14, <2>1
      <4> QED
        BY <1>10, <2>3, <3>2, <4>1
    <3> QED
      BY <1>12, <3>1, <3>2
  <2> QED
    BY <1>12, <2>2, <2>3
<1>15. ASSUME NEW n \in FinishedLedgers, n < next
       PROVE  \E i \in 1 .. Len(seen') : seen'[i] = n
  <2>1. n \in Nat /\ n \in DOMAIN ledgers
    <3>1. PICK t \in Tx : Succeeded(t) /\ receipts[t].result = "resultXdr" /\ n = receipts[t].ledger
      BY DEF FinishedLedgers
    <3>2. n \in DOMAIN ledgers
      BY <1>2, <3>1 DEF WalkInv, ChainInv, ArtifactsInv
    <3> QED
      BY <1>4, <3>2
  <2>2. CASE n < pos
    <3>1. PICK i \in 1 .. Len(seen) : seen[i] = n
      BY <1>3, <2>2
    <3> QED
      BY <1>12, <3>1
  <2>3. CASE pos <= n
    <3>1. page # {} /\ n <= LastOf(page)
      <4>1. page # {} /\ next = LastOf(page) + 1
        BY <1>3, <1>15, <2>1, <2>3 DEF next
      <4>2. LastOf(page) \in Nat
        BY <1>5, <1>7, <4>1
      <4> QED
        BY <1>15, <2>1, <4>1, <4>2
    <3>2. n \in page
      BY <1>5, <1>7, <2>1, <2>3, <3>1
    <3>3. PICK i \in 1 .. Len(list) : list[i] = n
      BY <1>10, <3>2
    <3> QED
      BY <1>12, <3>3
  <2> QED
    BY <1>3, <2>1, <2>2, <2>3
<1>16. FinishedLedgers' = FinishedLedgers /\ latest' = latest /\ ~Recording'
  BY <1>2 DEF FinishedLedgers, Succeeded, HasReceipt, vars, storeVars, nodeVars, chainFiles,
     Recording, Counted, Answering
<1> QED
  BY <1>6, <1>8, <1>9, <1>12, <1>13, <1>14, <1>15, <1>16 DEF HistoryWalkInv

\* The events a window matches are finitely many, and have ids.
LEMMA MatchedAreIds ==
  ASSUME NEW first \in Nat, NEW end \in Nat, NEW after, FilesFinite, StoreTypeOK,
         NEW M, M = MatchingEvents(first, end, after, Wanted)
  PROVE  /\ M \in SUBSET CursorIds /\ IsFiniteSet(M)
         /\ \A id \in M : IdAfter(id, after) /\ ~IdAfter(id, LedgerCursor(end))
         /\ \A n \in DOMAIN events : \A e \in events[n] :
              first <= n /\ n < end /\ e.origin \in Wanted /\ IdAfter(EventId(n, e), after) =>
                EventId(n, e) \in M
<1> DEFINE window == (first .. end - 1) \cap DOMAIN events
<1> DEFINE chosen(n) == {x \in events[n] : x.origin \in Wanted}
<1> DEFINE passing(n) == {EventId(n, e) : e \in chosen(n)}
<1> DEFINE all == {passing(n) : n \in window}
<1>1. M = {id \in UNION all : IdAfter(id, after)}
  BY DEF MatchingEvents
<1>2. \A n \in window : n \in Nat /\ first <= n /\ n < end /\ events[n] \subseteq Event
  BY DEF StoreTypeOK
<1>3. IsFiniteSet(window)
  <2>1. IsFiniteSet(first .. end - 1)
    BY FS_Interval
  <2>2. window \in SUBSET (first .. end - 1)
    OBVIOUS
  <2> QED
    BY <2>1, <2>2, FS_Subset
<1>4. ASSUME NEW n \in window PROVE IsFiniteSet(passing(n))
  <2> DEFINE f == [e \in chosen(n) |-> EventId(n, e)]
  <2>1. IsFiniteSet(chosen(n))
    <3>1. IsFiniteSet(events[n]) /\ chosen(n) \in SUBSET events[n]
      BY DEF FilesFinite
    <3> QED
      BY <3>1, FS_Subset
  <2> HIDE DEF chosen
  <2>2. f \in Surjection(chosen(n), passing(n))
    BY DEF Surjection
  <2> HIDE DEF f, passing
  <2> QED
    BY <2>1, <2>2, FS_Surjection
<1>5. IsFiniteSet(all)
  <2> DEFINE g == [n \in window |-> passing(n)]
  <2>1. g \in Surjection(window, all)
    <3> HIDE DEF passing, window
    <3> QED
      BY DEF Surjection
  <2> HIDE DEF g, all, window
  <2> QED
    BY <1>3, <2>1, FS_Surjection
<1>6. IsFiniteSet(UNION all)
  <2>1. \A T \in all : IsFiniteSet(T)
    BY <1>4
  <2> HIDE DEF all
  <2> QED
    BY <1>5, <2>1, FS_UNION
<1>7. IsFiniteSet(M)
  <2>1. M \in SUBSET (UNION all)
    BY <1>1
  <2> HIDE DEF all
  <2> QED
    BY <1>6, <2>1, FS_Subset
<1>8. ASSUME NEW id \in M
      PROVE  id \in CursorIds /\ IdAfter(id, after) /\ ~IdAfter(id, LedgerCursor(end))
  <2>1. PICK n \in window : \E e \in events[n] : id = EventId(n, e)
    BY <1>1
  <2>2. PICK e \in events[n] : id = EventId(n, e)
    BY <2>1
  <2>3. n \in Nat /\ n < end /\ e \in Event
    BY <1>2, <2>1, <2>2
  <2> HIDE DEF window
  <2>4. id \in CursorIds
    BY <2>2, <2>3, CursorTypes
  <2>5. ~IdAfter(id, LedgerCursor(end))
    <3>1. ~(n >= end)
      BY <2>3
    <3> QED
      BY <2>2, <2>3, <3>1, WindowCursorSeparates
  <2> QED
    BY <1>1, <2>4, <2>5
<1>9. ASSUME NEW n \in DOMAIN events, NEW e \in events[n], first <= n, n < end,
             e.origin \in Wanted, IdAfter(EventId(n, e), after)
      PROVE  EventId(n, e) \in M
  <2>1. n \in Nat
    BY DEF StoreTypeOK
  <2>2. n \in window
    BY <1>9, <2>1
  <2>3. EventId(n, e) \in passing(n) /\ passing(n) \in all
    BY <1>9, <2>2
  <2> HIDE DEF all, passing
  <2> QED
    BY <1>1, <1>9, <2>3
<1> QED
  BY <1>7, <1>8, <1>9

\* A page of the events.
LEMMA PageKeepsEventWalk ==
  ASSUME WalkInv, NEW limit \in Limits, NEW endLedger \in EndLedgers,
         PageEvents(limit, endLedger)
  PROVE  EventWalkInv'
<1> DEFINE first == IF cursor = NoId THEN start ELSE CursorLedger(cursor)
<1> DEFINE end   == ScanEnd(endLedger)
<1> DEFINE M     == MatchingEvents(first, end, cursor, Wanted)
<1> DEFINE F     == FirstEvents(limit, M)
<1> DEFINE list  == InIdOrder(F)
<1>1. limit \in Nat \ {0}
  BY PagingAssumption
<1>2. method = "getEvents" /\ method' = method /\ start' = start /\ pc = "idle" /\ UNCHANGED vars
  BY DEF PageEvents, Serves
<1>3. /\ start \in Nat /\ seen \in Seq(Ids)
      /\ cursor = NoId \/ cursor \in CursorIds
      /\ ~IdAfter(cursor, LedgerCursor(latest + 1))
      /\ \A i \in 1 .. Len(seen) : ~IdAfter(seen[i], cursor)
      /\ \A i, j \in 1 .. Len(seen) : i < j => IdAfter(seen[j], seen[i])
      /\ \A n \in DOMAIN events : \A e \in events[n] :
           n >= start /\ e.origin \in Wanted /\ ~IdAfter(EventId(n, e), cursor) =>
             Got(EventId(n, e))
  BY <1>2 DEF WalkInv, EventWalkInv
<1>4. latest \in Nat /\ StoreTypeOK /\ FilesFinite
  BY <1>2 DEF WalkInv, ChainInv, StoreInv, NodeInv, RequestInv, TypeOK, Booting
<1>5. CursorIds \subseteq Ids /\ cursor \in Ids
  BY <1>3 DEF CursorIds, Ids, NoId
<1>6. end \in Nat /\ end <= latest + 1
  <2>1. endLedger \in Nat \cup {NoCursor}
    BY PagingAssumption
  <2> QED
    BY <1>4, <2>1 DEF ScanEnd, NoCursor
<1>7. first \in Nat
  <2>1. CASE cursor = NoId
    BY <1>3, <2>1
  <2>2. CASE cursor \in CursorIds /\ cursor # NoId
    <3>1. cursor.toid \in Nat /\ LedgerUnit \in Nat /\ LedgerUnit > 0
      BY <2>2, ToidAssumption DEF CursorIds
    <3>2. cursor.toid \div LedgerUnit \in Nat
      BY <3>1
    <3> QED
      BY <2>2, <3>2 DEF CursorLedger
  <2> QED
    BY <1>3, <2>1, <2>2
<1>8. cursor' = EventsPageCursor(M, limit, end) /\ seen' = seen \o list
  BY DEF PageEvents
<1>9. LedgerCursor(end) \in CursorIds /\ LedgerCursor(latest + 1) \in CursorIds
  BY <1>4, <1>6, CursorTypes
\* A later page has no end of its own.
<1>10. ~IdAfter(cursor, LedgerCursor(end))
  <2>1. CASE cursor = NoId
    BY <1>9, <2>1 DEF NoId, IdAfter, CursorIds
  <2>2. CASE cursor # NoId
    <3>1. endLedger = NoCursor
      BY <2>2 DEF PageEvents, WindowAllowed
    <3>2. end = latest + 1
      BY <3>1 DEF ScanEnd
    <3> QED
      BY <1>3, <3>2
  <2> QED
    BY <2>1, <2>2
<1>11. \A n \in DOMAIN events : \A e \in events[n] :
         /\ n \in Nat /\ EventId(n, e) \in CursorIds
         /\ n >= start /\ IdAfter(EventId(n, e), cursor) => first <= n
  <2> TAKE n \in DOMAIN events
  <2> TAKE e \in events[n]
  <2>1. n \in Nat /\ e \in Event
    BY <1>4 DEF StoreTypeOK
  <2>2. EventId(n, e) \in CursorIds
    BY <2>1, CursorTypes
  <2>3. ASSUME n >= start, IdAfter(EventId(n, e), cursor) PROVE first <= n
    <3>1. CASE cursor = NoId
      BY <1>3, <2>1, <2>3, <3>1
    <3>2. CASE cursor \in CursorIds /\ cursor # NoId
      <4>1. n >= CursorLedger(cursor)
        BY <2>1, <2>3, <3>2, AfterCursor
      <4>2. first = CursorLedger(cursor)
        BY <3>2
      <4> QED
        BY <1>7, <2>1, <4>1, <4>2
    <3> QED
      BY <1>3, <3>1, <3>2
  <2> QED
    BY <2>1, <2>2, <2>3
<1> HIDE DEF first, end
<1>12. /\ M \in SUBSET CursorIds /\ IsFiniteSet(M)
       /\ \A id \in M : IdAfter(id, cursor) /\ ~IdAfter(id, LedgerCursor(end))
       /\ \A n \in DOMAIN events : \A e \in events[n] :
            first <= n /\ n < end /\ e.origin \in Wanted /\ IdAfter(EventId(n, e), cursor) =>
              EventId(n, e) \in M
  BY <1>4, <1>6, <1>7, MatchedAreIds
<1> HIDE DEF M
<1>13. M \in SUBSET Ids
  BY <1>5, <1>12
<1>14. /\ F \in SUBSET M /\ IsFiniteSet(F)
       /\ \A x \in F : \A y \in M : ~IdAfter(y, x) => y \in F
       /\ Cardinality(M) <= limit => F = M
       /\ ~(Cardinality(M) <= limit) => F # {}
  BY <1>1, <1>12, <1>13, FirstAreBelow
<1> HIDE DEF F
<1>15. F \in SUBSET Ids
  BY <1>13, <1>14
\* Where the next page resumes: behind all of this page, before the end.
<1>16. /\ cursor' \in CursorIds
       /\ ~IdAfter(cursor, cursor') /\ ~IdAfter(cursor', LedgerCursor(end))
       /\ \A x \in F : ~IdAfter(x, cursor')
       /\ \A y \in M : ~IdAfter(y, cursor') => y \in F
  <2>1. CASE Cardinality(M) <= limit
    <3>1. cursor' = LedgerCursor(end) /\ F = M
      BY <1>8, <1>14, <2>1 DEF EventsPageCursor
    <3>2. ~IdAfter(cursor', LedgerCursor(end))
      BY <1>5, <1>9, <3>1, IdOrder
    <3> QED
      BY <1>9, <1>10, <1>12, <3>1, <3>2
  <2>2. CASE ~(Cardinality(M) <= limit)
    <3>1. cursor' = LastEventId(F) /\ F # {}
      BY <1>8, <1>14, <2>2 DEF EventsPageCursor, F
    <3>2. cursor' \in F /\ \A y \in F : cursor' = y \/ IdAfter(cursor', y)
      BY <1>14, <1>15, <3>1, LastId
    <3>3. cursor' \in M /\ cursor' \in Ids
      BY <1>14, <1>15, <3>2
    <3>4. \A x \in F : ~IdAfter(x, cursor')
      BY <1>15, <3>2, <3>3, IdOrder
    <3>5. ~IdAfter(cursor, cursor')
      BY <1>5, <1>12, <3>3, IdOrder
    <3> QED
      BY <1>12, <1>14, <3>2, <3>3, <3>4, <3>5
  <2> QED
    BY <2>1, <2>2
<1>17. /\ list \in Seq(F)
       /\ \A x \in F : \E i \in 1 .. Len(list) : list[i] = x
       /\ \A i, j \in 1 .. Len(list) : i < j => IdAfter(list[j], list[i])
  BY <1>14, <1>15, IdsListed
<1> HIDE DEF list
<1>18. list \in Seq(Ids) /\ \A i \in 1 .. Len(list) : list[i] \in F
  <2>1. \A i \in 1 .. Len(list) : list[i] \in F
    BY <1>17
  <2>2. \A i \in 1 .. Len(list) : list[i] \in Ids
    BY <1>15, <2>1
  <2>3. Len(list) \in Nat /\ list = [i \in 1 .. Len(list) |-> list[i]]
    BY <1>17
  <2>4. list \in [1 .. Len(list) -> Ids]
    BY <2>2, <2>3
  <2> QED
    BY <2>1, <2>3, <2>4
<1>19. /\ seen' \in Seq(Ids) /\ Len(seen') = Len(seen) + Len(list)
       /\ \A i \in 1 .. Len(seen) : i \in 1 .. Len(seen') /\ seen'[i] = seen[i]
       /\ \A i \in 1 .. Len(list) :
            Len(seen) + i \in 1 .. Len(seen') /\ seen'[Len(seen) + i] = list[i]
       /\ \A i \in 1 .. Len(seen') :
            \/ i \in 1 .. Len(seen) /\ seen'[i] = seen[i]
            \/ i - Len(seen) \in 1 .. Len(list) /\ seen'[i] = list[i - Len(seen)]
  BY <1>3, <1>8, <1>18, JoinedLists
<1>20. \A i \in 1 .. Len(seen) : seen[i] \in Ids /\ ~IdAfter(seen[i], cursor)
  BY <1>3
<1>21. \A i \in 1 .. Len(seen') : ~IdAfter(seen'[i], cursor')
  <2> TAKE i \in 1 .. Len(seen')
  <2>1. CASE i \in 1 .. Len(seen) /\ seen'[i] = seen[i]
    <3>1. cursor' \in Ids
      BY <1>5, <1>16
    <3> QED
      BY <1>5, <1>16, <1>20, <2>1, <3>1, IdOrderWeak
  <2>2. CASE i - Len(seen) \in 1 .. Len(list) /\ seen'[i] = list[i - Len(seen)]
    BY <1>16, <1>18, <2>2
  <2> QED
    BY <1>19, <2>1, <2>2
<1>22. ASSUME NEW i \in 1 .. Len(seen'), NEW j \in 1 .. Len(seen'), i < j
       PROVE  IdAfter(seen'[j], seen'[i])
  <2>1. Len(seen) \in Nat /\ i \in Nat /\ j \in Nat
    BY <1>3
  <2>2. CASE j \in 1 .. Len(seen) /\ seen'[j] = seen[j]
    <3>1. i \in 1 .. Len(seen) /\ seen'[i] = seen[i]
      BY <1>19, <1>22, <2>1, <2>2
    <3> QED
      BY <1>3, <1>22, <2>2, <3>1
  <2>3. CASE j - Len(seen) \in 1 .. Len(list) /\ seen'[j] = list[j - Len(seen)]
    <3>1. CASE i \in 1 .. Len(seen) /\ seen'[i] = seen[i]
      <4>1. list[j - Len(seen)] \in Ids /\ IdAfter(list[j - Len(seen)], cursor)
        BY <1>12, <1>14, <1>15, <1>18, <2>3
      <4>2. seen[i] \in Ids /\ ~IdAfter(seen[i], cursor)
        BY <1>20, <3>1
      <4>3. IdAfter(list[j - Len(seen)], seen[i])
        BY <1>5, <4>1, <4>2, IdOrder
      <4> QED
        BY <2>3, <3>1, <4>3
    <3>2. CASE i - Len(seen) \in 1 .. Len(list) /\ seen'[i] = list[i - Len(seen)]
      <4>1. i - Len(seen) < j - Len(seen)
        BY <1>22, <2>1
      <4> QED
        BY <1>17, <2>3, <3>2, <4>1
    <3> QED
      BY <1>19, <3>1, <3>2
  <2> QED
    BY <1>19, <2>2, <2>3
<1>23. ASSUME NEW n \in DOMAIN events, NEW e \in events[n],
              n >= start, e.origin \in Wanted, ~IdAfter(EventId(n, e), cursor')
       PROVE  \E i \in 1 .. Len(seen') : seen'[i] = EventId(n, e)
  <2>1. n \in Nat /\ EventId(n, e) \in Ids
    BY <1>5, <1>11
  <2>2. CASE ~IdAfter(EventId(n, e), cursor)
    <3>1. PICK i \in 1 .. Len(seen) : seen[i] = EventId(n, e)
      BY <1>3, <1>23, <2>2 DEF Got
    <3> QED
      BY <1>19, <3>1
  <2>3. CASE IdAfter(EventId(n, e), cursor)
    <3>1. first <= n
      BY <1>11, <1>23, <2>3
    <3>2. n < end
      <4>1. cursor' \in Ids /\ LedgerCursor(end) \in Ids
        BY <1>5, <1>9, <1>16
      <4>2. ~IdAfter(EventId(n, e), LedgerCursor(end))
        BY <1>16, <1>23, <2>1, <4>1, IdOrderWeak
      <4>3. ~(n >= end)
        BY <1>6, <2>1, <4>2, WindowCursorSeparates
      <4> QED
        BY <1>6, <2>1, <4>3
    <3>3. EventId(n, e) \in F
      BY <1>12, <1>16, <1>23, <2>3, <3>1, <3>2
    <3>4. PICK i \in 1 .. Len(list) : list[i] = EventId(n, e)
      BY <1>17, <3>3
    <3> QED
      BY <1>19, <3>4
  <2> QED
    BY <2>2, <2>3
<1>24. ~IdAfter(cursor', LedgerCursor(latest + 1))
  <2>1. ~IdAfter(LedgerCursor(end), LedgerCursor(latest + 1))
    BY <1>4, <1>6, LedgerCursorGrows
  <2>2. cursor' \in Ids /\ LedgerCursor(end) \in Ids /\ LedgerCursor(latest + 1) \in Ids
    BY <1>5, <1>9, <1>16
  <2> QED
    BY <1>16, <2>1, <2>2, IdOrderWeak
<1>25. latest' = latest /\ events' = events /\ ~Filing'
  BY <1>2 DEF vars, storeVars, nodeVars, chainFiles, Filing, Recording, Counted, Answering
<1> QED
  BY <1>2, <1>3, <1>16, <1>19, <1>21, <1>22, <1>23, <1>24, <1>25 DEF EventWalkInv, Got

-----------------------------------------------------------------------------
(* The theorems.                                                            *)

LEMMA NextPreservesWalk == WalkInv /\ [PagingNext]_pagingVars => WalkInv'
<1> SUFFICES ASSUME WalkInv, [PagingNext]_pagingVars PROVE WalkInv'
  OBVIOUS
<1>1. CASE Next /\ UNCHANGED readerVars
  <2>1. ChainInv' /\ MethodInv'
    BY <1>1, NextPreservesChainInv DEF WalkInv, MethodInv, readerVars
  <2>2. FilesFinite'
    BY <1>1, FilesGrow DEF WalkInv, FilesFinite
  <2> QED
    BY <1>1, <2>1, <2>2, NodeKeepsHistoryWalk, NodeKeepsEventWalk DEF WalkInv
<1>2. ASSUME UNCHANGED vars, method' = method
      PROVE  ChainInv' /\ MethodInv' /\ FilesFinite'
  <2>1. ChainInv' /\ MethodInv'
    BY <1>2, NextPreservesChainInv DEF WalkInv, MethodInv
  <2>2. events' = events
    BY <1>2 DEF vars, storeVars, chainFiles
  <2> QED
    BY <2>1, <2>2 DEF WalkInv, FilesFinite
<1>3. ASSUME NEW limit \in Limits, PageHistory(limit) PROVE WalkInv'
  <2>1. EventWalkInv'
    BY <1>3 DEF PageHistory, HistoryMethods, EventWalkInv
  <2> QED
    BY <1>2, <1>3, <2>1, PageKeepsHistoryWalk DEF PageHistory, WalkInv
<1>4. ASSUME NEW limit \in Limits, NEW endLedger \in EndLedgers, PageEvents(limit, endLedger)
      PROVE  WalkInv'
  <2>1. HistoryWalkInv'
    BY <1>4 DEF PageEvents, HistoryMethods, HistoryWalkInv
  <2> QED
    BY <1>2, <1>4, <2>1, PageKeepsEventWalk DEF PageEvents, WalkInv
<1>5. CASE UNCHANGED pagingVars
  <2>1. UNCHANGED vars /\ UNCHANGED readerVars
    BY <1>5 DEF pagingVars
  <2>2. ChainInv' /\ MethodInv' /\ FilesFinite'
    BY <1>2, <2>1 DEF readerVars
  <2>3. HistoryWalkInv' /\ EventWalkInv'
    BY <2>1 DEF WalkInv, HistoryWalkInv, EventWalkInv, readerVars, HistoryPosition, Recording,
       Filing, Counted, Answering, Sending, FinishedLedgers, Succeeded, HasReceipt, Got,
       vars, storeVars, nodeVars, chainFiles
  <2> QED
    BY <2>2, <2>3 DEF WalkInv
<1> QED
  BY <1>1, <1>3, <1>4, <1>5 DEF PagingNext

THEOREM WalkInvariance == PagingSpec => []WalkInv
BY InitEstablishesWalk, NextPreservesWalk, PTL DEF PagingSpec

\* A client that walks getTransactions or getLedgers by its cursors, whatever
\* commits between two pages, gets each ledger once and in order, and passes no
\* finished one without getting it.
THEOREM HistoryIsReadOnce == PagingSpec => []HistoryExactlyOnce
<1>1. WalkInv => HistoryExactlyOnce
  BY DEF WalkInv, HistoryWalkInv, HistoryExactlyOnce
<1> QED
  BY <1>1, WalkInvariance, PTL

\* A client that walks getEvents by its cursors gets each event its filters let
\* through once and in the order of the ids, and passes none without getting it.
THEOREM EventsAreReadOnce == PagingSpec => []EventsExactlyOnce
<1>1. WalkInv => EventsExactlyOnce
  BY DEF WalkInv, EventWalkInv, EventsExactlyOnce, Got
<1> QED
  BY <1>1, WalkInvariance, PTL

\* The types of the node and of the cursors its clients hold.
THEOREM PagingTypes == PagingSpec => []PagingTypeOK
<1>1. WalkInv => PagingTypeOK
  BY DEF WalkInv, ChainInv, StoreInv, NodeInv, MethodInv, HistoryWalkInv, EventWalkInv,
     CursorIds, PagingTypeOK
<1> QED
  BY <1>1, WalkInvariance, PTL
=============================================================================
