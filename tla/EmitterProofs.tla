--------------------------- MODULE EmitterProofs ---------------------------
(***************************************************************************)
(* What the emission loop of module KoreEmit writes is what pyk would, for  *)
(* every definition, every term however deep, and every content of the memo *)
(* tables that an earlier step may have left.  The cache of module          *)
(* StepsCache serves whole and current texts, however many processes share  *)
(* it and whenever they die, for every conversion and every cache key that  *)
(* determines the text; and the loop, as module StepsEmitter runs it, is    *)
(* such a conversion.                                                       *)
(***************************************************************************)
EXTENDS StepsEmitter, DataLemmas

-----------------------------------------------------------------------------
(* The emission loop.                                                       *)

TermRank == [t \in Terms |-> Depth[t]]

NodesBody(x, f) == {x} \cup UNION {f[a] : a \in ArgsOf(x)}

NodesRecursion == INSTANCE RankedRecursion WITH X <- Terms, rank <- TermRank, Body <- NodesBody

\* A term is a node of itself, and so are those of its arguments.
LEMMA NodesIs ==
  ASSUME NEW t \in Terms
  PROVE  Nodes[t] = {t} \cup UNION {Nodes[a] : a \in ArgsOf(t)}
<1> DEFINE Eqn(f) == f = [x \in Terms |-> {x} \cup UNION {f[a] : a \in ArgsOf(x)}]
<1>1. NodesRecursion!Ranked
  <2>1. ASSUME NEW x \in Terms, NEW f, NEW g,
               \A y \in Terms : TermRank[y] < TermRank[x] => f[y] = g[y]
        PROVE  NodesBody(x, f) = NodesBody(x, g)
    <3>1. \A a \in ArgsOf(x) : f[a] = g[a]
      BY <2>1, KoreEmitAssumption DEF TermRank
    <3> QED
      BY <3>1 DEF NodesBody
  <2>2. TermRank \in [Terms -> Nat]
    BY KoreEmitAssumption DEF TermRank
  <2> QED
    BY <2>1, <2>2 DEF NodesRecursion!Ranked
<1>2. \E f : Eqn(f)
  BY <1>1, NodesRecursion!SolutionExists DEF NodesRecursion!Solves, NodesBody
<1>3. Nodes = CHOOSE f : Eqn(f)
  BY DEF Nodes
<1>4. Eqn(Nodes)
  <2> HIDE DEF Eqn
  <2> QED
    BY <1>2, <1>3
<1> QED
  BY <1>4

\* Induction on terms: the set holds a term when it holds its arguments.
ClosedUnderTerms(T) == \A t \in Terms : ArgsOf(t) \subseteq T => t \in T

LEMMA TermInduction ==
  ASSUME NEW T, ClosedUnderTerms(T)
  PROVE  Terms \subseteq T
<1> DEFINE rank == [x \in Terms |-> Depth[x]]
<1>1. rank \in [Terms -> Nat]
  BY KoreEmitAssumption
<1>2. Inductive(Terms, rank, T)
  BY KoreEmitAssumption DEF Inductive, ClosedUnderTerms
<1> HIDE DEF rank
<1> QED
  BY <1>1, <1>2, RankInduction

LEMMA NodesAreTerms ==
  ASSUME NEW t \in Terms
  PROVE  Nodes[t] \subseteq Terms
<1> DEFINE T == {x \in Terms : Nodes[x] \subseteq Terms}
<1>1. ClosedUnderTerms(T)
  BY NodesIs DEF ClosedUnderTerms
<1>2. Terms \subseteq T
  <2> HIDE DEF T
  <2> QED
    BY <1>1, TermInduction
<1> QED
  BY <1>2

-----------------------------------------------------------------------------
(* The text of a plain term.                                                *)

\* The arguments of a plain term are plain, and are expected to have sorts.
LEMMA PlainArguments ==
  ASSUME NEW b \in DOMAIN Definitions, NEW t \in Terms,
         IsPlain(Definitions[b], t), t.node = "apply"
  PROVE  /\ t.args \in Seq(Terms) /\ ArgsOf(t) = Range(t.args)
         /\ ArgSorts(Definitions[b], t.label) \in [DOMAIN t.args -> Sorts]
         /\ \A a \in ArgsOf(t) : a \in Terms /\ IsPlain(Definitions[b], a)
<1>1. /\ t.args \in Seq(Terms)
      /\ ArgSorts(Definitions[b], t.label) \in [DOMAIN t.args -> Sorts]
  BY ArityAssumption
<1>2. ArgsOf(t) = Range(t.args)
  BY DEF ArgsOf, Range
<1>3. ASSUME NEW a \in ArgsOf(t) PROVE a \in Terms /\ IsPlain(Definitions[b], a)
  <2>1. a \in Terms /\ Nodes[a] \subseteq Nodes[t]
    BY NodesIs, KoreEmitAssumption
  <2> QED
    BY <2>1 DEF IsPlain, HasOnlyPlainNodes, SortParamsResolved
<1> QED
  BY <1>1, <1>2, <1>3

LEMMA PlainNode ==
  ASSUME NEW def, NEW t \in Terms, IsPlain(def, t)
  PROVE  t.node = "token" \/ (t.node = "apply" /\ t.node # "token")
<1>1. t \in Nodes[t]
  BY NodesIs
<1> QED
  BY <1>1 DEF IsPlain, HasOnlyPlainNodes

\* What is written around the texts of the arguments ...
Inside(t, inner) ==
  IF t.node = "token" THEN <<TokenText(t)>>
  ELSE <<Opener(t.label)>> \o Separated(inner) \o <<Close>>

Around(b, t, sort, inner) ==
  LET actual == ActualSort(Definitions[b], t)
  IN  IF ~IsPlain(Definitions[b], t) THEN << >>
      ELSE IF actual = sort THEN Inside(t, inner)
      ELSE <<Inj(actual, sort)>> \o Inside(t, inner) \o <<Close>>

\* ... and the texts a table of texts has for the arguments.
ArgumentTexts(f, b, t) ==
  [i \in DOMAIN t.args |-> f[<<b, t.args[i], ArgSorts(Definitions[b], t.label)[i]>>]]

Places == (DOMAIN Definitions) \X Terms \X Sorts

TextEquation(f) ==
  f = [at \in Places |-> Around(at[1], at[2], at[3], ArgumentTexts(f, at[1], at[2]))]

\* All there is to write.
Lexemes ==
  {Comma, Close}
  \cup {TokenText(t) : t \in Terms}
  \cup {Opener(t.label) : t \in Terms}
  \cup {Inj(ActualSort(Definitions[b], t), sort) :
          b \in DOMAIN Definitions, t \in Terms, sort \in Sorts}

LEMMA SeparatedType ==
  ASSUME NEW texts \in Seq(Seq(Lexemes))
  PROVE  Separated(texts) \in Seq(Lexemes)
<1> DEFINE S == Lexemes
           s == [i \in DOMAIN texts |-> IF i = 1 THEN texts[i] ELSE <<Comma>> \o texts[i]]
<1>1. Comma \in S
  BY DEF Lexemes
<1> HIDE DEF S
<1>2. s \in Seq(Seq(S))
  <2>1. DOMAIN texts = 1 .. Len(texts) /\ Len(texts) \in Nat
    OBVIOUS
  <2>2. \A i \in DOMAIN texts : texts[i] \in Seq(S)
    BY DEF S
  <2>3. \A i \in DOMAIN texts : s[i] \in Seq(S)
    BY <1>1, <2>2
  <2> DEFINE n == Len(texts)
             T == Seq(S)
  <2>4. s \in [1 .. n -> T] /\ n \in Nat
    BY <2>1, <2>3
  <2> HIDE DEF s, n, T
  <2>5. s \in Seq(T)
    BY <2>4, IsASeq
  <2> QED
    BY <2>5 DEF T
<1> HIDE DEF s
<1>3. FlattenSeq(s) \in Seq(S)
  BY <1>2, FlattenType
<1> QED
  BY <1>3 DEF Separated, s, S

LEMMA AroundType ==
  ASSUME NEW b \in DOMAIN Definitions, NEW t \in Terms, NEW sort \in Sorts,
         NEW inner, t.node = "token" \/ inner \in Seq(Seq(Lexemes))
  PROVE  Around(b, t, sort, inner) \in Seq(Lexemes)
<1> DEFINE S == Lexemes
           inject == Inj(ActualSort(Definitions[b], t), sort)
           inside == Inside(t, inner)
<1>1. /\ Close \in S /\ Comma \in S /\ TokenText(t) \in S /\ Opener(t.label) \in S
      /\ inject \in S
  BY DEF Lexemes
<1>2. inside \in Seq(S)
  <2>1. CASE t.node = "token"
    <3> HIDE DEF S
    <3> QED
      BY <1>1, <2>1 DEF Inside
  <2>2. CASE t.node # "token"
    <3>1. Separated(inner) \in Seq(S)
      BY <2>2, SeparatedType
    <3> DEFINE x == Separated(inner)
    <3> HIDE DEF S, x
    <3>2. <<Opener(t.label)>> \o x \o <<Close>> \in Seq(S)
      BY <1>1, <3>1 DEF x
    <3> QED
      BY <2>2, <3>2 DEF Inside, x
  <2> QED
    BY <2>1, <2>2
<1>3. << >> \in Seq(S)
  OBVIOUS
<1>4. <<inject>> \o inside \o <<Close>> \in Seq(S)
  <2> HIDE DEF S, inside, inject
  <2> QED
    BY <1>1, <1>2
<1> QED
  BY <1>2, <1>3, <1>4 DEF Around

\* The places of the arguments, whose texts the text at a place is made from.
PlacesBefore(b, t) ==
  IF IsPlain(Definitions[b], t) /\ t.node = "apply"
  THEN {<<b, t.args[i], ArgSorts(Definitions[b], t.label)[i]>> : i \in DOMAIN t.args}
  ELSE {}

LEMMA PlacesBeforeRank ==
  ASSUME NEW b \in DOMAIN Definitions, NEW t \in Terms, NEW at \in PlacesBefore(b, t)
  PROVE  at \in Places /\ Depth[at[2]] < Depth[t]
<1>1. IsPlain(Definitions[b], t) /\ t.node = "apply"
  BY DEF PlacesBefore
<1>2. PICK i \in DOMAIN t.args : at = <<b, t.args[i], ArgSorts(Definitions[b], t.label)[i]>>
  BY <1>1 DEF PlacesBefore
<1>3. t.args[i] \in ArgsOf(t)
  BY <1>1, <1>2 DEF ArgsOf
<1>4. t.args[i] \in Terms /\ Depth[t.args[i]] < Depth[t]
  BY <1>3, KoreEmitAssumption
<1>5. ArgSorts(Definitions[b], t.label)[i] \in Sorts
  BY <1>1, PlainArguments
<1> QED
  BY <1>2, <1>4, <1>5 DEF Places

\* The text at a place depends on nothing but the texts of the arguments.
LEMMA AroundAgrees ==
  ASSUME NEW b \in DOMAIN Definitions, NEW t \in Terms, NEW sort, NEW f, NEW g,
         \A at \in PlacesBefore(b, t) : f[at] = g[at]
  PROVE  Around(b, t, sort, ArgumentTexts(f, b, t)) = Around(b, t, sort, ArgumentTexts(g, b, t))
<1>1. CASE ~IsPlain(Definitions[b], t)
  BY <1>1 DEF Around
<1>2. CASE IsPlain(Definitions[b], t) /\ t.node = "token"
  <2>1. Inside(t, ArgumentTexts(f, b, t)) = Inside(t, ArgumentTexts(g, b, t))
    BY <1>2 DEF Inside
  <2> QED
    BY <2>1 DEF Around
<1>3. CASE IsPlain(Definitions[b], t) /\ t.node = "apply"
  <2>1. \A i \in DOMAIN t.args :
          <<b, t.args[i], ArgSorts(Definitions[b], t.label)[i]>> \in PlacesBefore(b, t)
    BY <1>3 DEF PlacesBefore
  <2>2. ArgumentTexts(f, b, t) = ArgumentTexts(g, b, t)
    BY <2>1 DEF ArgumentTexts
  <2> QED
    BY <2>2
<1> QED
  BY <1>1, <1>2, <1>3, PlainNode

LEMMA AroundTextType ==
  ASSUME NEW b \in DOMAIN Definitions, NEW t \in Terms, NEW sort \in Sorts, NEW f,
         \A at \in PlacesBefore(b, t) : f[at] \in Seq(Lexemes)
  PROVE  Around(b, t, sort, ArgumentTexts(f, b, t)) \in Seq(Lexemes)
<1>1. CASE ~IsPlain(Definitions[b], t)
  <2>1. << >> \in Seq(Lexemes)
    OBVIOUS
  <2> QED
    BY <1>1, <2>1 DEF Around
<1>2. CASE t.node = "token"
  BY <1>2, AroundType
<1>3. CASE IsPlain(Definitions[b], t) /\ t.node = "apply"
  <2> DEFINE V == Seq(Lexemes)
  <2>1. \A i \in DOMAIN t.args :
          <<b, t.args[i], ArgSorts(Definitions[b], t.label)[i]>> \in PlacesBefore(b, t)
    BY <1>3 DEF PlacesBefore
  <2>2. \A i \in DOMAIN t.args : ArgumentTexts(f, b, t)[i] \in V
    BY <2>1 DEF ArgumentTexts
  <2>3. t.args \in Seq(Terms)
    BY <1>3, PlainArguments
  <2>4. DOMAIN t.args = 1 .. Len(t.args) /\ Len(t.args) \in Nat
    BY <2>3
  <2>5. ArgumentTexts(f, b, t) \in [1 .. Len(t.args) -> V]
    BY <2>2, <2>4 DEF ArgumentTexts
  <2> HIDE DEF V
  <2>6. ArgumentTexts(f, b, t) \in Seq(V)
    BY <2>4, <2>5
  <2> QED
    BY <2>6, AroundType DEF V
<1> QED
  BY <1>1, <1>2, <1>3, PlainNode

PlaceRank == [at \in Places |-> Depth[at[2]]]

TextBody(at, f) == Around(at[1], at[2], at[3], ArgumentTexts(f, at[1], at[2]))

TextRecursion == INSTANCE RankedRecursion WITH X <- Places, rank <- PlaceRank, Body <- TextBody

LEMMA PlainTextEquation == TextEquation(PlainText)
<1>1. TextRecursion!Ranked
  <2>1. ASSUME NEW at \in Places
        PROVE  at[1] \in DOMAIN Definitions /\ at[2] \in Terms /\ at[3] \in Sorts
    BY DEF Places
  <2>2. PlaceRank \in [Places -> Nat]
    BY <2>1, KoreEmitAssumption DEF PlaceRank
  <2>3. ASSUME NEW at \in Places, NEW f, NEW g,
               \A y \in Places : PlaceRank[y] < PlaceRank[at] => f[y] = g[y]
        PROVE  TextBody(at, f) = TextBody(at, g)
    <3>1. \A y \in PlacesBefore(at[1], at[2]) : y \in Places /\ Depth[y[2]] < Depth[at[2]]
      BY <2>1, PlacesBeforeRank
    <3>2. \A y \in PlacesBefore(at[1], at[2]) : f[y] = g[y]
      BY <2>3, <3>1 DEF PlaceRank
    <3> QED
      BY <2>1, <3>2, AroundAgrees DEF TextBody
  <2> QED
    BY <2>2, <2>3 DEF TextRecursion!Ranked
<1>2. \E f : TextEquation(f)
  BY <1>1, TextRecursion!SolutionExists DEF TextRecursion!Solves, TextBody, TextEquation
<1>3. PlainText = CHOOSE f : TextEquation(f)
  BY DEF PlainText, TextEquation, Around, Inside, ArgumentTexts, Places
<1> QED
  BY <1>2, <1>3

LEMMA PlainTextIs ==
  ASSUME NEW b \in DOMAIN Definitions, NEW t \in Terms, NEW sort \in Sorts
  PROVE  PlainText[<<b, t, sort>>] = Around(b, t, sort, ArgumentTexts(PlainText, b, t))
<1> DEFINE at == <<b, t, sort>>
           f == [x \in Places |-> Around(x[1], x[2], x[3], ArgumentTexts(PlainText, x[1], x[2]))]
<1>1. at \in Places /\ at[1] = b /\ at[2] = t /\ at[3] = sort
  BY DEF Places
<1>2. PlainText = f
  BY PlainTextEquation DEF TextEquation
<1> HIDE DEF at
<1>3. f[at] = Around(at[1], at[2], at[3], ArgumentTexts(PlainText, at[1], at[2]))
  BY <1>1
<1> HIDE DEF f
<1>4. PlainText[at] = Around(b, t, sort, ArgumentTexts(PlainText, b, t))
  BY <1>1, <1>2, <1>3
<1> QED
  BY <1>4 DEF at

LEMMA PlainTextType ==
  ASSUME NEW b \in DOMAIN Definitions, NEW t \in Terms, NEW sort \in Sorts
  PROVE  PlainText[<<b, t, sort>>] \in Seq(Lexemes)
<1> DEFINE rank == [at \in Places |-> Depth[at[2]]]
           T == {at \in Places : PlainText[at] \in Seq(Lexemes)}
<1>1. rank \in [Places -> Nat]
  BY KoreEmitAssumption DEF Places
<1>2. Inductive(Places, rank, T)
  <2> SUFFICES ASSUME NEW at \in Places, \A y \in Places : rank[y] < rank[at] => y \in T
               PROVE  at \in T
    BY DEF Inductive
  <2>1. PICK c \in DOMAIN Definitions, u \in Terms, s \in Sorts : at = <<c, u, s>>
    BY DEF Places
  <2>2. \A y \in PlacesBefore(c, u) : y \in Places /\ rank[y] < rank[at]
    BY <2>1, PlacesBeforeRank
  <2>3. \A y \in PlacesBefore(c, u) : PlainText[y] \in Seq(Lexemes)
    BY <2>2
  <2>4. Around(c, u, s, ArgumentTexts(PlainText, c, u)) \in Seq(Lexemes)
    BY <2>3, AroundTextType
  <2> QED
    BY <2>1, <2>4, PlainTextIs
<1>3. Places \subseteq T
  <2> HIDE DEF rank, T
  <2> QED
    BY <1>1, <1>2, RankInduction
<1>4. <<b, t, sort>> \in Places
  BY DEF Places
<1> QED
  BY <1>3, <1>4

-----------------------------------------------------------------------------
(* Whether a term fits, from whether its arguments do.                      *)

Fits(b, t, sort) ==
  LET actual == ActualSort(Definitions[b], t)
  IN  actual = sort \/ actual \in Subsorts(Definitions[b], sort)

ArgumentsFit(b, n) ==
  n.node = "apply" =>
    \A i \in DOMAIN n.args : Fits(b, n.args[i], ArgSorts(Definitions[b], n.label)[i])

LEMMA WellSortedMeans ==
  ASSUME NEW b, NEW t, NEW sort
  PROVE  WellSorted(Definitions[b], t, sort)
           <=> Fits(b, t, sort) /\ \A n \in Nodes[t] : ArgumentsFit(b, n)
BY DEF WellSorted, Fits, ArgumentsFit

LEMMA WellSortedToken ==
  ASSUME NEW b, NEW t \in Terms, NEW sort, t.node = "token"
  PROVE  WellSorted(Definitions[b], t, sort) <=> Fits(b, t, sort)
<1>1. Nodes[t] = {t}
  BY NodesIs DEF ArgsOf
<1> QED
  BY <1>1, WellSortedMeans DEF ArgumentsFit

LEMMA WellSortedApply ==
  ASSUME NEW b, NEW t \in Terms, NEW sort, t.node = "apply"
  PROVE  WellSorted(Definitions[b], t, sort)
           <=> /\ Fits(b, t, sort)
               /\ \A i \in DOMAIN t.args :
                    WellSorted(Definitions[b], t.args[i], ArgSorts(Definitions[b], t.label)[i])
<1>1. Nodes[t] = {t} \cup UNION {Nodes[t.args[i]] : i \in DOMAIN t.args}
  BY NodesIs DEF ArgsOf
<1>2. (\A n \in Nodes[t] : ArgumentsFit(b, n))
        <=> /\ ArgumentsFit(b, t)
            /\ \A i \in DOMAIN t.args : \A n \in Nodes[t.args[i]] : ArgumentsFit(b, n)
  BY <1>1
<1>3. ArgumentsFit(b, t)
        <=> \A i \in DOMAIN t.args : Fits(b, t.args[i], ArgSorts(Definitions[b], t.label)[i])
  BY DEF ArgumentsFit
<1> QED
  BY <1>2, <1>3, WellSortedMeans

-----------------------------------------------------------------------------
(* The stack, and the text its items stand for.                             *)

PlainTerms(b) == {t \in Terms : IsPlain(Definitions[b], t)}

Items(b) ==
  {Lexeme(x) : x \in Lexemes} \cup {Pending(t, sort) : t \in PlainTerms(b), sort \in Sorts}

TextOf(b, item) ==
  IF "lexeme" \in DOMAIN item THEN <<item.lexeme>>
  ELSE PlainText[<<b, item.term, item.sort>>]

\* A node on the stack that fits; what is written in a stack always does.
ItemFits(b, item) ==
  "term" \in DOMAIN item => WellSorted(Definitions[b], item.term, item.sort)

Texts(b, items) == [i \in DOMAIN items |-> TextOf(b, items[i])]
TextOfItems(b, items) == FlattenSeq(Texts(b, items))
TextOfStack(b, stack) == FlattenSeq([i \in DOMAIN stack |-> TextOf(b, Reverse(stack)[i])])

LEMMA OfLexeme ==
  ASSUME NEW b, NEW x
  PROVE  /\ TextOf(b, Lexeme(x)) = <<x>> /\ ItemFits(b, Lexeme(x))
         /\ DOMAIN Lexeme(x) = {"lexeme"} /\ Lexeme(x).lexeme = x
BY DEF TextOf, ItemFits, Lexeme

LEMMA OfPending ==
  ASSUME NEW b, NEW t, NEW sort
  PROVE  /\ TextOf(b, Pending(t, sort)) = PlainText[<<b, t, sort>>]
         /\ ItemFits(b, Pending(t, sort)) <=> WellSorted(Definitions[b], t, sort)
         /\ DOMAIN Pending(t, sort) = {"term", "sort"}
         /\ Pending(t, sort).term = t /\ Pending(t, sort).sort = sort
BY DEF TextOf, ItemFits, Pending

LEMMA TextOfType ==
  ASSUME NEW b \in DOMAIN Definitions, NEW item \in Items(b)
  PROVE  TextOf(b, item) \in Seq(Lexemes)
<1>1. CASE \E x \in Lexemes : item = Lexeme(x)
  <2> PICK x \in Lexemes : item = Lexeme(x)
    BY <1>1
  <2>1. <<x>> \in Seq(Lexemes)
    OBVIOUS
  <2> QED
    BY <2>1, OfLexeme
<1>2. CASE \E t \in PlainTerms(b), sort \in Sorts : item = Pending(t, sort)
  <2> PICK t \in PlainTerms(b), sort \in Sorts : item = Pending(t, sort)
    BY <1>2
  <2>1. TextOf(b, item) = PlainText[<<b, t, sort>>]
    BY OfPending
  <2>2. PlainText[<<b, t, sort>>] \in Seq(Lexemes)
    BY PlainTextType DEF PlainTerms
  <2> QED
    BY <2>1, <2>2
<1> QED
  BY <1>1, <1>2 DEF Items

LEMMA TextsType ==
  ASSUME NEW b \in DOMAIN Definitions, NEW items \in Seq(Items(b))
  PROVE  /\ Texts(b, items) \in Seq(Seq(Lexemes)) /\ Len(Texts(b, items)) = Len(items)
         /\ \A i \in 1 .. Len(items) : Texts(b, items)[i] = TextOf(b, items[i])
         /\ TextOfItems(b, items) \in Seq(Lexemes)
<1> DEFINE V == Seq(Lexemes)
           n == Len(items)
           x == Texts(b, items)
<1>1. n \in Nat /\ DOMAIN items = 1 .. n
  OBVIOUS
<1>2. \A i \in 1 .. n : TextOf(b, items[i]) \in V
  <2>1. \A i \in 1 .. n : items[i] \in Items(b)
    OBVIOUS
  <2> QED
    BY <2>1, TextOfType
<1>3. x = [i \in 1 .. n |-> TextOf(b, items[i])]
  BY <1>1 DEF Texts
<1>4. x \in [1 .. n -> V]
  BY <1>2, <1>3
<1> HIDE DEF V, n, x
<1>5. x \in Seq(V) /\ Len(x) = n
  BY <1>1, <1>4
<1>6. FlattenSeq(x) \in Seq(Lexemes)
  BY <1>5, FlattenType DEF V
<1> QED
  BY <1>3, <1>5, <1>6 DEF x, V, n, TextOfItems

LEMMA TextOfConcat ==
  ASSUME NEW b \in DOMAIN Definitions, NEW s \in Seq(Items(b)), NEW t \in Seq(Items(b))
  PROVE  TextOfItems(b, s \o t) = TextOfItems(b, s) \o TextOfItems(b, t)
<1> DEFINE I == Items(b)
           V == Seq(Lexemes)
           r == s \o t
           x == Texts(b, s)
           y == Texts(b, t)
           z == Texts(b, r)
           m == Len(s)
           n == Len(t)
<1>1. /\ m \in Nat /\ n \in Nat /\ r \in Seq(I) /\ Len(r) = m + n
      /\ \A i \in 1 .. m + n : r[i] = IF i <= m THEN s[i] ELSE t[i - m]
  <2> HIDE DEF I
  <2> QED
    BY ConcatProperties DEF I
<1>2. /\ x \in Seq(V) /\ Len(x) = m /\ \A i \in 1 .. m : x[i] = TextOf(b, s[i])
      /\ y \in Seq(V) /\ Len(y) = n /\ \A i \in 1 .. n : y[i] = TextOf(b, t[i])
  BY TextsType
<1>3. z \in Seq(V) /\ Len(z) = Len(r) /\ \A i \in 1 .. Len(r) : z[i] = TextOf(b, r[i])
  <2> HIDE DEF r
  <2> QED
    BY <1>1, TextsType
<1>4. z = x \o y
  <2> HIDE DEF V, r, x, y, z, m, n
  <2>1. /\ x \o y \in Seq(V) /\ Len(x \o y) = m + n
        /\ \A i \in 1 .. m + n : (x \o y)[i] = IF i <= m THEN x[i] ELSE y[i - m]
    BY <1>2, ConcatProperties
  <2>2. ASSUME NEW i \in 1 .. m + n PROVE z[i] = (x \o y)[i]
    <3>1. z[i] = TextOf(b, r[i])
      BY <1>1, <1>3
    <3>2. CASE i <= m
      <4>1. i \in 1 .. m
        BY <1>1, <3>2
      <4> QED
        BY <1>1, <1>2, <2>1, <3>1, <3>2, <4>1
    <3>3. CASE ~(i <= m)
      <4>1. i - m \in 1 .. n
        BY <1>1, <3>3
      <4>2. (x \o y)[i] = y[i - m] /\ r[i] = t[i - m]
        BY <1>1, <2>1, <3>3
      <4> QED
        BY <1>2, <3>1, <4>1, <4>2
    <3> QED
      BY <3>2, <3>3
  <2> DEFINE w == x \o y
  <2>3. w \in Seq(V) /\ Len(z) = Len(w) /\ \A i \in 1 .. Len(z) : z[i] = w[i]
    BY <1>1, <1>3, <2>1, <2>2
  <2> HIDE DEF w
  <2>4. z = w
    BY <1>3, <2>3, SeqEqual
  <2> QED
    BY <2>4 DEF w
<1>5. FlattenSeq(x \o y) = FlattenSeq(x) \o FlattenSeq(y)
  <2> HIDE DEF x, y
  <2> QED
    BY <1>2, FlattenConcat DEF V
<1> QED
  BY <1>4, <1>5 DEF TextOfItems

LEMMA TextOfNone == \A b : TextOfItems(b, << >>) = << >>
<1> TAKE b
<1>1. Texts(b, << >>) = << >>
  BY DEF Texts
<1> QED
  BY <1>1, FlattenEmpty DEF TextOfItems

LEMMA TextOfOne ==
  ASSUME NEW b \in DOMAIN Definitions, NEW item \in Items(b)
  PROVE  TextOfItems(b, <<item>>) = TextOf(b, item)
<1> DEFINE V == Seq(Lexemes)
           x == TextOf(b, item)
<1>1. x \in V
  BY TextOfType
<1>2. Texts(b, <<item>>) = Append(<< >>, x)
  BY DEF Texts
<1>3. FlattenSeq(Append(<< >>, x)) = FlattenSeq(<< >>) \o x
  <2>1. << >> \in Seq(V)
    OBVIOUS
  <2> HIDE DEF x
  <2> QED
    BY <1>1, <2>1, FlattenAppend
<1>4. << >> \o x = x
  BY <1>1, ConcatEmptySeq
<1> QED
  BY <1>2, <1>3, <1>4, FlattenEmpty DEF TextOfItems

\* The text of a stack is that of its items in reverse.
LEMMA TextOfReverse ==
  ASSUME NEW b \in DOMAIN Definitions, NEW stack \in Seq(Items(b))
  PROVE  /\ TextOfStack(b, stack) = TextOfItems(b, Reverse(stack))
         /\ TextOfStack(b, stack) \in Seq(Lexemes)
<1> DEFINE I == Items(b)
<1>1. /\ Reverse(stack) \in Seq(I) /\ Len(Reverse(stack)) = Len(stack)
  <2> HIDE DEF I
  <2> QED
    BY ReverseProperties DEF I
<1>2. DOMAIN Reverse(stack) = DOMAIN stack
  BY <1>1
<1>3. TextOfStack(b, stack) = TextOfItems(b, Reverse(stack))
  BY <1>2 DEF TextOfStack, TextOfItems, Texts
<1> QED
  BY <1>1, <1>3, TextsType

LEMMA TextOfStackConcat ==
  ASSUME NEW b \in DOMAIN Definitions, NEW s \in Seq(Items(b)), NEW t \in Seq(Items(b))
  PROVE  TextOfStack(b, s \o t) = TextOfStack(b, t) \o TextOfStack(b, s)
<1> DEFINE I == Items(b)
           r == s \o t
           rs == Reverse(s)
           rt == Reverse(t)
<1>1. r \in Seq(I) /\ rs \in Seq(I) /\ rt \in Seq(I) /\ Reverse(r) = rt \o rs
  <2> HIDE DEF I
  <2> QED
    BY ConcatProperties, ReverseProperties, ReverseConcat DEF I
<1>2. TextOfStack(b, r) = TextOfItems(b, Reverse(r))
  <2> HIDE DEF r
  <2> QED
    BY <1>1, TextOfReverse
<1>3. TextOfItems(b, rt \o rs) = TextOfItems(b, rt) \o TextOfItems(b, rs)
  <2> HIDE DEF rs, rt
  <2> QED
    BY <1>1, TextOfConcat
<1> QED
  BY <1>1, <1>2, <1>3, TextOfReverse

LEMMA TextOfFlatten ==
  ASSUME NEW b \in DOMAIN Definitions, NEW groups \in Seq(Seq(Items(b)))
  PROVE  TextOfItems(b, FlattenSeq(groups))
           = FlattenSeq([i \in DOMAIN groups |-> TextOfItems(b, groups[i])])
<1> DEFINE I == Items(b)
           V == Seq(Lexemes)
           Each(g) == [i \in DOMAIN g |-> TextOfItems(b, g[i])]
           Fails(g) == TextOfItems(b, FlattenSeq(g)) # FlattenSeq(Each(g))
           Bad == {n \in Nat : \E g \in Seq(Seq(I)) : Len(g) = n /\ Fails(g)}
<1> SUFFICES ASSUME Bad # {} PROVE FALSE
  <2> HIDE DEF Fails, I
  <2>1. groups \in Seq(Seq(I)) /\ Len(groups) \in Nat
    BY DEF I
  <2>2. Fails(groups) => Len(groups) \in Bad
    BY <2>1
  <2> QED
    BY <2>2 DEF Fails
<1>1. PICK n \in Bad : \A m \in Bad : n <= m
  <2>1. Bad \in SUBSET Nat
    OBVIOUS
  <2> HIDE DEF Bad
  <2> QED
    BY <2>1, LeastNatural
<1>2. PICK r \in Seq(Seq(I)) : Len(r) = n /\ Fails(r)
  OBVIOUS
<1> HIDE DEF I
<1>3. r # << >>
  <2>1. Each(<< >>) = << >>
    OBVIOUS
  <2> QED
    BY <1>2, <2>1, FlattenEmpty, TextOfNone
<1> DEFINE f == Front(r)
           x == Last(r)
           k == n - 1
<1>4. /\ f \in Seq(Seq(I)) /\ x \in Seq(I)
      /\ r = Append(f, x) /\ Len(f) = k /\ k \in Nat /\ k + 1 = n /\ ~(n <= k)
  <2>1. /\ f \in Seq(Seq(I)) /\ x \in Seq(I) /\ r = Append(f, x)
        /\ Len(f) = n - 1 /\ n \in Nat \ {0}
    BY <1>2, <1>3, FrontAndLast
  <2>2. k \in Nat /\ k + 1 = n /\ ~(n <= k)
    BY <2>1
  <2> QED
    BY <2>1, <2>2
<1>5. ~Fails(f)
  <2> HIDE DEF Fails, k
  <2> QED
    BY <1>1, <1>4
<1> HIDE DEF f, x
<1>6. TextOfItems(b, FlattenSeq(r)) = TextOfItems(b, FlattenSeq(f)) \o TextOfItems(b, x)
  <2> DEFINE ff == FlattenSeq(f)
  <2>1. FlattenSeq(r) = ff \o x /\ ff \in Seq(I)
    BY <1>4, FlattenAppend, FlattenType
  <2> HIDE DEF ff
  <2>2. TextOfItems(b, ff \o x) = TextOfItems(b, ff) \o TextOfItems(b, x)
    BY <1>4, <2>1, TextOfConcat DEF I
  <2> QED
    BY <2>1, <2>2 DEF ff
<1>7. FlattenSeq(Each(r)) = FlattenSeq(Each(f)) \o TextOfItems(b, x)
  <2> DEFINE ef == Each(f)
             tx == TextOfItems(b, x)
  <2>1. /\ DOMAIN f = 1 .. k /\ DOMAIN r = 1 .. k + 1 /\ r[k + 1] = x
        /\ \A i \in 1 .. k : r[i] = f[i]
    BY <1>4
  <2>2. tx \in V /\ \A i \in 1 .. k : TextOfItems(b, f[i]) \in V
    <3>1. \A i \in 1 .. k : f[i] \in Seq(I)
      BY <1>4
    <3> QED
      BY <1>4, <3>1, TextsType DEF I
  <2>3. ef \in [1 .. k -> V]
    BY <2>1, <2>2
  <2> HIDE DEF k, V
  <2>4. ef \in Seq(V) /\ Len(ef) = k
    BY <1>4, <2>3
  <2>5. Each(r) = Append(ef, tx)
    <3> DEFINE er == Each(r)
               m == k + 1
    <3>1. m \in Nat /\ \A i \in 1 .. m : i = m \/ i \in 1 .. k
      BY <1>4
    <3>2. er \in [1 .. m -> V]
      BY <2>1, <2>2, <3>1
    <3>3. \A i \in 1 .. k : er[i] = ef[i]
      BY <1>4, <2>1
    <3>4. er[m] = tx
      BY <1>4, <2>1
    <3> HIDE DEF er, ef, tx, m
    <3>5. er \in Seq(V) /\ Len(er) = m
      BY <3>1, <3>2, FunctionIsSeq
    <3> DEFINE ap == Append(ef, tx)
    <3>6. ap \in Seq(V) /\ Len(ap) = m /\ ap[m] = tx /\ \A i \in 1 .. k : ap[i] = ef[i]
      BY <1>4, <2>2, <2>4, AppendProperties DEF m, tx
    <3> HIDE DEF ap
    <3>7. \A i \in 1 .. m : er[i] = ap[i]
      BY <3>1, <3>3, <3>4, <3>6
    <3>8. er = ap
      BY <3>5, <3>6, <3>7, SeqEqual
    <3> QED
      BY <3>8 DEF er, ap
  <2> HIDE DEF ef, tx
  <2>6. FlattenSeq(Append(ef, tx)) = FlattenSeq(ef) \o tx
    BY <2>2, <2>4, FlattenAppend DEF V, tx
  <2> QED
    BY <2>5, <2>6 DEF ef, tx
<1> QED
  BY <1>2, <1>5, <1>6, <1>7

\* What is pushed for the arguments of an application comes off the stack as
\* their texts, in order, with commas between them.
LEMMA PushedArguments ==
  ASSUME NEW b \in DOMAIN Definitions, NEW args \in Seq(PlainTerms(b)),
         NEW sorts \in [DOMAIN args -> Sorts]
  PROVE  /\ PushArguments(args, sorts) \in Seq(Items(b))
         /\ TextOfStack(b, PushArguments(args, sorts))
              = Separated([i \in DOMAIN args |-> PlainText[<<b, args[i], sorts[i]>>]])
         /\ (\A x \in Range(PushArguments(args, sorts)) : ItemFits(b, x))
              <=> \A i \in DOMAIN args : WellSorted(Definitions[b], args[i], sorts[i])
<1> DEFINE I == Items(b)
           n == Len(args)
           arg(i) == Pending(args[i], sorts[i])
           comma == Lexeme(Comma)
           whole(i) == PlainText[<<b, args[i], sorts[i]>>]
           group == [i \in DOMAIN args |->
                       IF i = 1 THEN <<Pending(args[1], sorts[1])>>
                       ELSE <<Lexeme(Comma), Pending(args[i], sorts[i])>>]
           items == FlattenSeq(group)
<1>1. n \in Nat /\ DOMAIN args = 1 .. n
  OBVIOUS
<1>2. ASSUME NEW i \in 1 .. n
      PROVE  /\ args[i] \in PlainTerms(b) /\ args[i] \in Terms /\ sorts[i] \in Sorts
             /\ arg(i) \in I /\ comma \in I
             /\ TextOfItems(b, <<arg(i)>>) = whole(i) /\ whole(i) \in Seq(Lexemes)
             /\ TextOfItems(b, <<comma, arg(i)>>) = <<Comma>> \o whole(i)
             /\ ItemFits(b, comma)
             /\ ItemFits(b, arg(i)) <=> WellSorted(Definitions[b], args[i], sorts[i])
  <2>1. args[i] \in PlainTerms(b) /\ args[i] \in Terms /\ sorts[i] \in Sorts
    <3>1. args[i] \in PlainTerms(b)
      BY <1>1
    <3> QED
      BY <1>1, <3>1 DEF PlainTerms
  <2>2. arg(i) \in I /\ comma \in I
    BY <2>1 DEF Items, Lexemes
  <2>3. whole(i) \in Seq(Lexemes)
    BY <2>1, PlainTextType
  <2>4. /\ TextOf(b, arg(i)) = whole(i) /\ TextOf(b, comma) = <<Comma>>
        /\ ItemFits(b, comma)
        /\ ItemFits(b, arg(i)) <=> WellSorted(Definitions[b], args[i], sorts[i])
    BY OfPending, OfLexeme
  <2> DEFINE x == arg(i)
  <2> HIDE DEF x, comma, I
  <2>5. TextOfItems(b, <<x>>) = TextOf(b, x) /\ TextOfItems(b, <<comma>>) = TextOf(b, comma)
    BY <2>2, TextOfOne DEF I, x
  <2>6. TextOfItems(b, <<comma>> \o <<x>>) = TextOfItems(b, <<comma>>) \o TextOfItems(b, <<x>>)
    <3>1. <<comma>> \in Seq(I) /\ <<x>> \in Seq(I)
      BY <2>2 DEF x
    <3> QED
      BY <3>1, TextOfConcat DEF I
  <2>7. <<comma>> \o <<x>> = <<comma, x>>
    BY <2>2, PairIsConcat DEF x
  <2> QED
    BY <2>1, <2>2, <2>3, <2>4, <2>5, <2>6, <2>7 DEF x
<1>3. group \in Seq(Seq(I)) /\ DOMAIN group = 1 .. n /\ Len(group) = n
  <2> DEFINE T == Seq(I)
  <2>1. \A i \in 1 .. n : arg(i) \in I /\ comma \in I
    BY <1>2
  <2> HIDE DEF I
  <2>2. \A i \in 1 .. n : <<arg(i)>> \in T /\ <<comma, arg(i)>> \in T
    BY <2>1
  <2> HIDE DEF T, n
  <2>3. group \in [1 .. n -> T]
    BY <1>1, <2>2
  <2> HIDE DEF group
  <2>4. group \in Seq(T) /\ Len(group) = n
    BY <1>1, <2>3
  <2> QED
    BY <2>3, <2>4 DEF T
<1>4. items \in Seq(I)
  <2> HIDE DEF I, group
  <2> QED
    BY <1>3, FlattenType
<1>5. PushArguments(args, sorts) = Reverse(items)
  BY DEF PushArguments
<1>6. Reverse(items) \in Seq(I) /\ Reverse(Reverse(items)) = items
      /\ Range(Reverse(items)) = Range(items)
  <2> HIDE DEF I, items
  <2> QED
    BY <1>4, ReverseProperties, ReverseReverse, RangeReverse
<1>7. TextOfStack(b, Reverse(items)) = TextOfItems(b, items)
  <2> DEFINE r == Reverse(items)
  <2> HIDE DEF r
  <2>1. TextOfStack(b, r) = TextOfItems(b, Reverse(r))
    BY <1>6, TextOfReverse DEF r
  <2> QED
    BY <1>6, <2>1 DEF r
<1>8. TextOfItems(b, items) = FlattenSeq([i \in DOMAIN group |-> TextOfItems(b, group[i])])
  <2> HIDE DEF group
  <2> QED
    BY <1>3, TextOfFlatten
<1>9. [i \in DOMAIN group |-> TextOfItems(b, group[i])]
        = [i \in 1 .. n |-> IF i = 1 THEN whole(i) ELSE <<Comma>> \o whole(i)]
  <2>1. \A i \in 1 .. n : TextOfItems(b, group[i]) = IF i = 1 THEN whole(i) ELSE <<Comma>> \o whole(i)
    BY <1>1, <1>2
  <2> HIDE DEF group
  <2> QED
    BY <1>3, <2>1
<1>10. Separated([i \in DOMAIN args |-> whole(i)])
         = FlattenSeq([i \in 1 .. n |-> IF i = 1 THEN whole(i) ELSE <<Comma>> \o whole(i)])
  BY <1>1 DEF Separated
<1>11. (\A x \in Range(items) : ItemFits(b, x))
         <=> \A i \in 1 .. n : WellSorted(Definitions[b], args[i], sorts[i])
  <2>1. Range(items) = UNION {Range(group[i]) : i \in DOMAIN group}
    <3> HIDE DEF group, I
    <3> QED
      BY <1>3, RangeFlatten
  <2>2. ASSUME NEW i \in 1 .. n
        PROVE  (\A x \in Range(group[i]) : ItemFits(b, x))
                 <=> WellSorted(Definitions[b], args[i], sorts[i])
    <3>1. group[i] = IF i = 1 THEN <<arg(i)>> ELSE <<comma, arg(i)>>
      BY <1>1
    <3> HIDE DEF arg, comma
    <3>2. Range(<<arg(i)>>) = {arg(i)} /\ Range(<<comma, arg(i)>>) = {comma, arg(i)}
      BY DEF Range
    <3> HIDE DEF group
    <3> QED
      BY <1>2, <3>1, <3>2
  <2> HIDE DEF group, items
  <2>3. (\A x \in Range(items) : ItemFits(b, x))
          <=> \A i \in 1 .. n : \A x \in Range(group[i]) : ItemFits(b, x)
    BY <1>3, <2>1
  <2> QED
    BY <2>2, <2>3
<1> QED
  BY <1>1, <1>5, <1>6, <1>7, <1>8, <1>9, <1>10, <1>11

LEMMA TextOfStackOne ==
  ASSUME NEW b \in DOMAIN Definitions, NEW item \in Items(b)
  PROVE  /\ TextOfStack(b, <<item>>) = TextOf(b, item)
         /\ TextOfStack(b, << >>) = << >>
         /\ Range(<<item>>) = {item}
<1>1. Reverse(<<item>>) = <<item>> /\ Reverse(<< >>) = << >> /\ Range(<<item>>) = {item}
  BY DEF Reverse, Range
<1>2. <<item>> \in Seq(Items(b)) /\ << >> \in Seq(Items(b))
  OBVIOUS
<1>3. /\ TextOfStack(b, <<item>>) = TextOfItems(b, Reverse(<<item>>))
      /\ TextOfStack(b, << >>) = TextOfItems(b, Reverse(<< >>))
  BY <1>2, TextOfReverse
<1> QED
  BY <1>1, <1>3, TextOfOne, TextOfNone

-----------------------------------------------------------------------------
(* The memo tables.                                                         *)

\* What each table has to answer under each key.
ResolvedAnswers(b) ==
  {<<t.label, <<SortOf(Definitions[b], t.label), ArgSorts(Definitions[b], t.label)>> >> :
     t \in Terms}
OpenerAnswers == {<<OpenerKey(t.label), Opener(t.label)>> : t \in Terms}
TokenAnswers == {<<TokenKey(t), TokenText(t)>> : t \in Terms}
InjectionAnswers(b) ==
  {<<InjKey(ActualSort(Definitions[b], t), sort), Inj(ActualSort(Definitions[b], t), sort)>> :
     t \in Terms, sort \in Sorts}
SubsortAnswers(b) == {<<sort, Subsorts(Definitions[b], sort)>> : sort \in Sorts}

TableTrue(table, answers) == \A x \in answers : x[1] \in DOMAIN table => table[x[1]] = x[2]

\* An injection is written, and kept, only where it is allowed.
InjectionsFit(b, table) ==
  \A t \in PlainTerms(b), sort \in Sorts :
    InjKey(ActualSort(Definitions[b], t), sort) \in DOMAIN table => Fits(b, t, sort)

MemoTrue(b, memo) ==
  /\ TableTrue(memo.resolved, ResolvedAnswers(b))
  /\ TableTrue(memo.openers, OpenerAnswers)
  /\ TableTrue(memo.tokens, TokenAnswers)
  /\ TableTrue(memo.injections, InjectionAnswers(b))
  /\ TableTrue(memo.subsorts, SubsortAnswers(b))
  /\ InjectionsFit(b, memo.injections)

\* No key has two answers.
Functional(answers) == \A x, y \in answers : x[1] = y[1] => x[2] = y[2]

LEMMA OneAnswer ==
  ASSUME NEW b
  PROVE  /\ Functional(ResolvedAnswers(b)) /\ Functional(OpenerAnswers)
         /\ Functional(TokenAnswers) /\ Functional(InjectionAnswers(b))
         /\ Functional(SubsortAnswers(b))
<1>1. Functional(ResolvedAnswers(b))
  BY DEF Functional, ResolvedAnswers
<1>2. Functional(OpenerAnswers)
  BY DEF Functional, OpenerAnswers, OpenerKey
<1>3. Functional(TokenAnswers)
  BY DEF Functional, TokenAnswers, TokenKey, TokenText
<1>4. Functional(InjectionAnswers(b))
  BY DEF Functional, InjectionAnswers, InjKey, Inj
<1>5. Functional(SubsortAnswers(b))
  BY DEF Functional, SubsortAnswers
<1> QED
  BY <1>1, <1>2, <1>3, <1>4, <1>5

LEMMA TableAnswers ==
  ASSUME NEW table, NEW answers, TableTrue(table, answers), NEW key, NEW value,
         <<key, value>> \in answers
  PROVE  Recall(table, key, value) = value
BY DEF TableTrue, Recall

LEMMA TableLearns ==
  ASSUME NEW answers, Functional(answers), NEW table, TableTrue(table, answers),
         NEW key, NEW value, <<key, value>> \in answers
  PROVE  /\ Recall(table, key, value) = value
         /\ TableTrue(Learn(table, key, value), answers)
         /\ DOMAIN Learn(table, key, value) = {key} \cup DOMAIN table
<1>1. Recall(table, key, value) = value
  BY TableAnswers
<1> DEFINE m == Learn(table, key, value)
<1>2. /\ DOMAIN m = {key} \cup DOMAIN table
      /\ m[key] = value
      /\ \A k \in DOMAIN table : k # key => m[k] = table[k]
  BY <1>1 DEF Learn, Recall
<1>3. \A x \in answers : x[1] = key => x[2] = value
  BY DEF Functional
<1> HIDE DEF m
<1>4. TableTrue(m, answers)
  BY <1>2, <1>3 DEF TableTrue
<1> QED
  BY <1>1, <1>2, <1>4 DEF m

\* However it is looked up, what is asked about a node is so.
LEMMA TablesAnswer ==
  ASSUME NEW b, NEW e, MemoTrue(b, e.memo), NEW t \in PlainTerms(b), NEW sort \in Sorts
  PROVE  /\ Resolved(Definitions[b], e, t.label)
              = <<SortOf(Definitions[b], t.label), ArgSorts(Definitions[b], t.label)>>
         /\ NodeSort(Definitions[b], e, t) = ActualSort(Definitions[b], t)
         /\ Recall(e.memo.openers, OpenerKey(t.label), Opener(t.label)) = Opener(t.label)
         /\ Recall(e.memo.tokens, TokenKey(t), TokenText(t)) = TokenText(t)
         /\ Recall(e.memo.injections, InjKey(ActualSort(Definitions[b], t), sort),
                   Inj(ActualSort(Definitions[b], t), sort))
              = Inj(ActualSort(Definitions[b], t), sort)
         /\ Allowed(Definitions[b], e, sort) = Subsorts(Definitions[b], sort)
<1> DEFINE def == Definitions[b]
           sorts == <<SortOf(def, t.label), ArgSorts(def, t.label)>>
           actual == ActualSort(def, t)
<1>1. t \in Terms
  BY DEF PlainTerms
<1>2. Resolved(def, e, t.label) = sorts
  <2>1. <<t.label, sorts>> \in ResolvedAnswers(b)
    BY <1>1 DEF ResolvedAnswers
  <2> HIDE DEF sorts
  <2>2. Recall(e.memo.resolved, t.label, sorts) = sorts
    BY <2>1, TableAnswers DEF MemoTrue
  <2> QED
    BY <2>2 DEF Resolved, sorts
<1>3. NodeSort(def, e, t) = actual
  BY <1>2 DEF NodeSort, ActualSort
<1>4. Recall(e.memo.openers, OpenerKey(t.label), Opener(t.label)) = Opener(t.label)
  <2>1. <<OpenerKey(t.label), Opener(t.label)>> \in OpenerAnswers
    BY <1>1 DEF OpenerAnswers
  <2> QED
    BY <2>1, TableAnswers DEF MemoTrue
<1>5. Recall(e.memo.tokens, TokenKey(t), TokenText(t)) = TokenText(t)
  <2>1. <<TokenKey(t), TokenText(t)>> \in TokenAnswers
    BY <1>1 DEF TokenAnswers
  <2> QED
    BY <2>1, TableAnswers DEF MemoTrue
<1>6. Recall(e.memo.injections, InjKey(actual, sort), Inj(actual, sort)) = Inj(actual, sort)
  <2>1. <<InjKey(actual, sort), Inj(actual, sort)>> \in InjectionAnswers(b)
    BY <1>1 DEF InjectionAnswers
  <2> QED
    BY <2>1, TableAnswers DEF MemoTrue
<1>7. Allowed(def, e, sort) = Subsorts(def, sort)
  <2>1. <<sort, Subsorts(def, sort)>> \in SubsortAnswers(b)
    BY DEF SubsortAnswers
  <2> QED
    BY <2>1, TableAnswers DEF MemoTrue, Allowed
<1> QED
  BY <1>2, <1>3, <1>4, <1>5, <1>6, <1>7

\* The tables stay right when a node that fits is written or opened.
LEMMA LearnsTheTruth ==
  ASSUME NEW b, NEW e, MemoTrue(b, e.memo), NEW t \in PlainTerms(b), NEW sort \in Sorts,
         Fits(b, t, sort)
  PROVE  MemoTrue(b, Learned(Definitions[b], e, t, sort))
<1> DEFINE def == Definitions[b]
           sorts == <<SortOf(def, t.label), ArgSorts(def, t.label)>>
           actual == ActualSort(def, t)
           memo == e.memo
           new == Learned(def, e, t, sort)
           resolved == Learn(memo.resolved, t.label, sorts)
           openers == Learn(memo.openers, OpenerKey(t.label), Opener(t.label))
           tokens == Learn(memo.tokens, TokenKey(t), TokenText(t))
           injections == Learn(memo.injections, InjKey(actual, sort), Inj(actual, sort))
           subsorts == Learn(memo.subsorts, sort, Subsorts(def, sort))
<1>1. t \in Terms
  BY DEF PlainTerms
<1>2. /\ new.resolved = IF t.node # "token" THEN resolved ELSE memo.resolved
      /\ new.openers = IF t.node # "token" THEN openers ELSE memo.openers
      /\ new.tokens = IF t.node = "token" THEN tokens ELSE memo.tokens
      /\ new.injections = IF actual # sort THEN injections ELSE memo.injections
      /\ new.subsorts = IF actual # sort THEN subsorts ELSE memo.subsorts
  <2>1. Resolved(def, e, t.label) = sorts /\ NodeSort(def, e, t) = actual
    BY TablesAnswer
  <2> HIDE DEF sorts, actual
  <2> QED
    BY <2>1 DEF Learned
<1>3. TableTrue(resolved, ResolvedAnswers(b))
  <2>1. <<t.label, sorts>> \in ResolvedAnswers(b)
    BY <1>1 DEF ResolvedAnswers
  <2> HIDE DEF sorts
  <2> QED
    BY <2>1, OneAnswer, TableLearns DEF MemoTrue
<1>4. TableTrue(openers, OpenerAnswers)
  <2>1. <<OpenerKey(t.label), Opener(t.label)>> \in OpenerAnswers
    BY <1>1 DEF OpenerAnswers
  <2> QED
    BY <2>1, OneAnswer, TableLearns DEF MemoTrue
<1>5. TableTrue(tokens, TokenAnswers)
  <2>1. <<TokenKey(t), TokenText(t)>> \in TokenAnswers
    BY <1>1 DEF TokenAnswers
  <2> QED
    BY <2>1, OneAnswer, TableLearns DEF MemoTrue
<1>6. TableTrue(subsorts, SubsortAnswers(b))
  <2>1. <<sort, Subsorts(def, sort)>> \in SubsortAnswers(b)
    BY DEF SubsortAnswers
  <2> QED
    BY <2>1, OneAnswer, TableLearns DEF MemoTrue
<1>7. /\ TableTrue(injections, InjectionAnswers(b))
      /\ DOMAIN injections = {InjKey(actual, sort)} \cup DOMAIN memo.injections
  <2>1. <<InjKey(actual, sort), Inj(actual, sort)>> \in InjectionAnswers(b)
    BY <1>1 DEF InjectionAnswers
  <2> QED
    BY <2>1, OneAnswer, TableLearns DEF MemoTrue
<1>8. InjectionsFit(b, injections)
  <2> SUFFICES ASSUME NEW u \in PlainTerms(b), NEW s \in Sorts,
                      InjKey(ActualSort(def, u), s) \in DOMAIN injections
               PROVE  Fits(b, u, s)
    BY DEF InjectionsFit
  <2>1. CASE InjKey(ActualSort(def, u), s) = InjKey(actual, sort)
    BY <2>1 DEF InjKey, Fits
  <2>2. CASE InjKey(ActualSort(def, u), s) \in DOMAIN memo.injections
    BY <2>2 DEF MemoTrue, InjectionsFit
  <2> HIDE DEF injections
  <2> QED
    BY <1>7, <2>1, <2>2
<1> HIDE DEF new, resolved, openers, tokens, injections, subsorts
<1> QED
  BY <1>2, <1>3, <1>4, <1>5, <1>6, <1>7, <1>8 DEF MemoTrue, new

-----------------------------------------------------------------------------
(* The course of an emission.                                               *)

\* What is written and what is on the stack make up the text; the term fits
\* just if what is still on the stack does; and the tables are right.
Course(b, t, sort, e) ==
  /\ e = [stack |-> e.stack, chunks |-> e.chunks, memo |-> e.memo]
  /\ e.stack \in Seq(Items(b)) /\ e.chunks \in Seq(Lexemes)
  /\ e.chunks \o TextOfStack(b, e.stack) = PlainText[<<b, t, sort>>]
  /\ WellSorted(Definitions[b], t, sort) <=> \A x \in Range(e.stack) : ItemFits(b, x)
  /\ MemoTrue(b, e.memo)

LEMMA CourseBegins ==
  ASSUME NEW b \in DOMAIN Definitions, NEW t \in PlainTerms(b), NEW sort \in Sorts
  PROVE  Course(b, t, sort, Begin(t, sort))
<1> DEFINE item == Pending(t, sort)
           whole == PlainText[<<b, t, sort>>]
           e == Begin(t, sort)
<1>1. item \in Items(b)
  BY DEF Items
<1>2. whole \in Seq(Lexemes)
  BY PlainTextType DEF PlainTerms
<1>3. TextOf(b, item) = whole /\ (ItemFits(b, item) <=> WellSorted(Definitions[b], t, sort))
  BY OfPending
<1>4. e.stack = <<item>> /\ e.chunks = << >> /\ MemoTrue(b, e.memo)
      /\ e = [stack |-> e.stack, chunks |-> e.chunks, memo |-> e.memo]
  BY DEF Begin, NoMemo, MemoTrue, TableTrue, InjectionsFit
<1> HIDE DEF item, whole, e
<1>5. e.stack \in Seq(Items(b)) /\ e.chunks \in Seq(Lexemes)
  BY <1>1, <1>4
<1>6. << >> \o whole = whole
  BY <1>2, ConcatEmptySeq
<1>7. e.chunks \o TextOfStack(b, e.stack) = whole
  BY <1>1, <1>3, <1>4, <1>6, TextOfStackOne
<1>8. WellSorted(Definitions[b], t, sort) <=> \A x \in Range(e.stack) : ItemFits(b, x)
  BY <1>1, <1>3, <1>4, TextOfStackOne
<1> QED
  BY <1>4, <1>5, <1>7, <1>8 DEF Course, whole, e

\* Writing and pushing what stands for the top keeps the course.
LEMMA CourseGoesOn ==
  ASSUME NEW b \in DOMAIN Definitions, NEW t, NEW sort, NEW e, Course(b, t, sort, e),
         e.stack # << >>, NEW written \in Seq(Lexemes), NEW pushed \in Seq(Items(b)), NEW memo,
         written \o TextOfStack(b, pushed) = TextOf(b, Last(e.stack)),
         ItemFits(b, Last(e.stack)) <=> \A x \in Range(pushed) : ItemFits(b, x),
         MemoTrue(b, memo)
  PROVE  Course(b, t, sort, [stack |-> Front(e.stack) \o pushed,
                             chunks |-> e.chunks \o written, memo |-> memo])
<1> DEFINE I == Items(b)
           rest == Front(e.stack)
           top == Last(e.stack)
           chunks == e.chunks
           stack == rest \o pushed
           out == chunks \o written
           n == [stack |-> stack, chunks |-> out, memo |-> memo]
<1>1. /\ rest \in Seq(I) /\ top \in I /\ e.stack = Append(rest, top) /\ chunks \in Seq(Lexemes)
      /\ e.stack \in Seq(I)
  <2>1. e.stack \in Seq(I) /\ chunks \in Seq(Lexemes)
    BY DEF Course
  <2> HIDE DEF I, chunks
  <2> QED
    BY <2>1, FrontAndLast
<1> HIDE DEF rest, top, chunks
<1>2. e.stack = rest \o <<top>> /\ <<top>> \in Seq(I)
  BY <1>1, AppendIsConcat
<1>3. stack \in Seq(I) /\ out \in Seq(Lexemes)
  <2> HIDE DEF I
  <2> QED
    BY <1>1 DEF I
<1>4. TextOfStack(b, e.stack) = TextOf(b, top) \o TextOfStack(b, rest)
  <2> DEFINE one == <<top>>
  <2> HIDE DEF one
  <2>1. TextOfStack(b, rest \o one) = TextOfStack(b, one) \o TextOfStack(b, rest)
    BY <1>1, <1>2, TextOfStackConcat DEF one
  <2> QED
    BY <1>1, <1>2, <2>1, TextOfStackOne DEF one
<1>5. TextOfStack(b, stack) = TextOfStack(b, pushed) \o TextOfStack(b, rest)
  BY <1>1, TextOfStackConcat
<1>6. out \o TextOfStack(b, stack) = chunks \o TextOfStack(b, e.stack)
  <2> DEFINE w == written
             p == TextOfStack(b, pushed)
             r == TextOfStack(b, rest)
             c == chunks
             S == Lexemes
  <2>1. w \in Seq(S) /\ p \in Seq(S) /\ r \in Seq(S) /\ c \in Seq(S)
    BY <1>1, TextOfReverse
  <2>2. w \o p = TextOf(b, top)
    BY DEF top
  <2> HIDE DEF w, p, r, c, S
  <2>3. (c \o w) \o (p \o r) = c \o ((w \o p) \o r)
    BY ONLY <2>1, SMTT(60)
  <2>4. TextOfStack(b, stack) = p \o r /\ TextOfStack(b, e.stack) = (w \o p) \o r
    BY <1>4, <1>5, <2>2 DEF p, r
  <2> HIDE DEF stack
  <2> QED
    BY <2>3, <2>4 DEF c, w
<1>7. Range(e.stack) = Range(rest) \cup {top} /\ Range(stack) = Range(rest) \cup Range(pushed)
  <2> DEFINE one == <<top>>
  <2>1. Range(one) = {top}
    BY <1>1, TextOfStackOne
  <2>4. one \in Seq(I)
    BY <1>2
  <2> HIDE DEF one, I
  <2>2. Range(rest \o one) = Range(rest) \cup Range(one)
    BY <1>1, <2>4, RangeConcatenation
  <2>3. Range(rest \o pushed) = Range(rest) \cup Range(pushed)
    BY <1>1, RangeConcatenation DEF I
  <2> QED
    BY <1>2, <2>1, <2>2, <2>3 DEF one
<1>8. (\A x \in Range(e.stack) : ItemFits(b, x)) <=> \A x \in Range(stack) : ItemFits(b, x)
  <2>1. ItemFits(b, top) <=> \A x \in Range(pushed) : ItemFits(b, x)
    BY DEF top
  <2> HIDE DEF stack
  <2> QED
    BY <1>7, <2>1
<1> HIDE DEF stack, out
<1>9. Course(b, t, sort, n)
  <2>1. n.stack = stack /\ n.chunks = out /\ n.memo = memo
        /\ n = [stack |-> n.stack, chunks |-> n.chunks, memo |-> n.memo]
    OBVIOUS
  <2> HIDE DEF n
  <2> QED
    BY <1>3, <1>6, <1>8, <2>1 DEF Course, chunks
<1> QED
  BY <1>9 DEF rest, stack, out, chunks

\* A node on top is written, or opened, as its text begins.
LEMMA CourseOfToken ==
  ASSUME NEW b \in DOMAIN Definitions, NEW t, NEW sort, NEW e, Course(b, t, sort, e),
         e.stack # << >>, NEW u \in PlainTerms(b), NEW target \in Sorts,
         Last(e.stack) = Pending(u, target), Fits(b, u, target), u.node = "token"
  PROVE  Course(b, t, sort, EmitTerm(Definitions[b], e, u, target))
<1> DEFINE S == Lexemes
           V == Items(b)
           inject == Inj(u.sort, target)
           wrap == IF u.sort # target THEN <<inject>> ELSE << >>
           tail == IF u.sort # target THEN <<Close>> ELSE << >>
           body == <<TokenText(u)>>
           written == wrap \o body \o tail
           memo == Learned(Definitions[b], e, u, target)
           next == EmitTerm(Definitions[b], e, u, target)
           c == e.chunks
           rest == Front(e.stack)
<1>1. u \in Terms /\ IsPlain(Definitions[b], u) /\ ActualSort(Definitions[b], u) = u.sort
  BY DEF PlainTerms, ActualSort
<1>2. inject \in S /\ Close \in S /\ TokenText(u) \in S
  BY <1>1 DEF Lexemes
<1>3. c \in Seq(S) /\ MemoTrue(b, e.memo) /\ e.stack \in Seq(V)
  BY DEF Course
<1>4. /\ NodeSort(Definitions[b], e, u) = u.sort
      /\ Recall(e.memo.tokens, TokenKey(u), TokenText(u)) = TokenText(u)
      /\ Recall(e.memo.injections, InjKey(u.sort, target), Inj(u.sort, target)) = inject
      /\ MemoTrue(b, memo)
  BY <1>1, <1>3, TablesAnswer, LearnsTheTruth
<1>5. wrap \in Seq(S) /\ body \in Seq(S) /\ tail \in Seq(S) /\ << >> \in Seq(V)
  <2> HIDE DEF S, inject
  <2> QED
    BY <1>2
<1>6. rest \in Seq(V)
  <2> HIDE DEF V
  <2> QED
    BY <1>3, FrontAndLast
<1>7. next = [stack |-> rest, chunks |-> c \o wrap \o body \o tail, memo |-> memo]
  <2> HIDE DEF memo
  <2> QED
    BY <1>4 DEF EmitTerm, memo
<1>8. written \in Seq(S) /\ c \o wrap \o body \o tail = c \o written /\ written \o << >> = written
  <2> HIDE DEF S, wrap, body, tail, c
  <2>1. c \in Seq(S) /\ wrap \in Seq(S) /\ body \in Seq(S) /\ tail \in Seq(S)
    BY <1>3, <1>5
  <2>2. written \in Seq(S)
    BY ONLY <2>1
  <2>3. c \o wrap \o body \o tail = c \o written
    BY ONLY <2>1, SMTT(60)
  <2>4. written \o << >> = written
    <3> HIDE DEF written
    <3> QED
      BY ONLY <2>2
  <2> QED
    BY <2>2, <2>3, <2>4
<1>9. rest \o << >> = rest
  <2> HIDE DEF V, rest
  <2> QED
    BY <1>6
<1>10. written = PlainText[<<b, u, target>>]
  <2>1. PlainText[<<b, u, target>>]
          = IF u.sort = target THEN body ELSE <<inject>> \o body \o <<Close>>
    BY <1>1, PlainTextIs DEF Around, Inside
  <2>2. << >> \o body \o << >> = body
    <3> HIDE DEF body, S
    <3> QED
      BY <1>5
  <2> HIDE DEF body, inject
  <2> QED
    BY <2>1, <2>2
<1>11. /\ written \o TextOfStack(b, << >>) = TextOf(b, Last(e.stack))
       /\ ItemFits(b, Last(e.stack)) /\ Range(<< >>) = {}
  <2>1. /\ TextOf(b, Last(e.stack)) = PlainText[<<b, u, target>>]
        /\ ItemFits(b, Last(e.stack)) <=> WellSorted(Definitions[b], u, target)
    BY OfPending
  <2>2. WellSorted(Definitions[b], u, target)
    BY <1>1, WellSortedToken
  <2>3. TextOfStack(b, << >>) = << >>
    <3>1. Pending(u, target) \in Items(b)
      BY DEF Items
    <3> QED
      BY <3>1, TextOfStackOne
  <2>4. Range(<< >>) = {}
    BY DEF Range
  <2> HIDE DEF written
  <2> QED
    BY <1>8, <1>10, <2>1, <2>2, <2>3, <2>4
<1>12. Course(b, t, sort, [stack |-> rest \o << >>, chunks |-> c \o written, memo |-> memo])
  <2>1. ItemFits(b, Last(e.stack)) <=> \A x \in Range(<< >>) : ItemFits(b, x)
    BY <1>11
  <2> HIDE DEF written, memo
  <2> QED
    BY <1>4, <1>5, <1>8, <1>11, <2>1, CourseGoesOn
<1> QED
  BY <1>7, <1>8, <1>9, <1>12

LEMMA CourseOfApplication ==
  ASSUME NEW b \in DOMAIN Definitions, NEW t, NEW sort, NEW e, Course(b, t, sort, e),
         e.stack # << >>, NEW u \in PlainTerms(b), NEW target \in Sorts,
         Last(e.stack) = Pending(u, target), Fits(b, u, target), u.node = "apply"
  PROVE  Course(b, t, sort, EmitTerm(Definitions[b], e, u, target))
<1> DEFINE S == Lexemes
           V == Items(b)
           def == Definitions[b]
           sorts == ArgSorts(def, u.label)
           actual == SortOf(def, u.label)
           inject == Inj(actual, target)
           wrap == IF actual # target THEN <<inject>> ELSE << >>
           tail == IF actual # target THEN <<Close>> ELSE << >>
           open == <<Opener(u.label)>>
           shut == <<Close>>
           texts == [i \in DOMAIN u.args |-> PlainText[<<b, u.args[i], sorts[i]>>]]
           args == Separated(texts)
           close == IF actual # target THEN <<Lexeme(Close)>> ELSE << >>
           end == <<Lexeme(Close)>>
           push == PushArguments(u.args, sorts)
           pushed == close \o end \o push
           written == wrap \o open
           memo == Learned(def, e, u, target)
           next == EmitTerm(def, e, u, target)
           c == e.chunks
           rest == Front(e.stack)
<1>1. u \in Terms /\ IsPlain(def, u) /\ u.node # "token" /\ ActualSort(def, u) = actual
  BY DEF PlainTerms, ActualSort
<1>2. inject \in S /\ Close \in S /\ Opener(u.label) \in S /\ Lexeme(Close) \in V
  <2>1. inject \in S
    <3>1. actual = ActualSort(Definitions[b], u)
      BY <1>1
    <3> HIDE DEF actual
    <3> QED
      BY <1>1, <3>1 DEF Lexemes
  <2>2. Close \in S /\ Opener(u.label) \in S
    BY <1>1 DEF Lexemes
  <2> QED
    BY <2>1, <2>2 DEF Items
<1>3. c \in Seq(S) /\ MemoTrue(b, e.memo) /\ e.stack \in Seq(V)
  BY DEF Course
<1>4. /\ Resolved(def, e, u.label) = <<actual, sorts>> /\ NodeSort(def, e, u) = actual
      /\ Recall(e.memo.openers, OpenerKey(u.label), Opener(u.label)) = Opener(u.label)
      /\ Recall(e.memo.injections, InjKey(actual, target), Inj(actual, target)) = inject
  BY <1>1, <1>3, TablesAnswer
<1>5. MemoTrue(b, memo)
  BY <1>3, LearnsTheTruth
<1>6. next = [stack |-> rest \o close \o end \o push, chunks |-> c \o wrap \o open, memo |-> memo]
  <2>1. Resolved(def, e, u.label)[2] = sorts
    BY <1>4
  <2> HIDE DEF actual, sorts, memo
  <2> QED
    BY <1>1, <1>4, <2>1 DEF EmitTerm, memo
<1>7. /\ u.args \in Seq(PlainTerms(b)) /\ sorts \in [DOMAIN u.args -> Sorts]
  <2>1. /\ u.args \in Seq(Terms) /\ ArgsOf(u) = Range(u.args)
        /\ sorts \in [DOMAIN u.args -> Sorts]
        /\ \A a \in ArgsOf(u) : a \in Terms /\ IsPlain(Definitions[b], a)
    BY <1>1, PlainArguments
  <2>2. \A i \in DOMAIN u.args : u.args[i] \in PlainTerms(b)
    BY <2>1 DEF Range, PlainTerms
  <2> HIDE DEF sorts
  <2> QED
    BY <2>1, <2>2
<1>8. /\ push \in Seq(V) /\ TextOfStack(b, push) = args
      /\ (\A x \in Range(push) : ItemFits(b, x))
           <=> \A i \in DOMAIN u.args : WellSorted(def, u.args[i], sorts[i])
  BY <1>7, PushedArguments
<1>9. /\ wrap \in Seq(S) /\ open \in Seq(S) /\ tail \in Seq(S) /\ shut \in Seq(S)
      /\ end \in Seq(V) /\ close \in Seq(V) /\ close \o end \in Seq(V)
  <2> HIDE DEF S, V, inject
  <2> QED
    BY <1>2
<1>10. args \in Seq(S)
  BY <1>8, TextOfReverse
<1>11. rest \in Seq(V)
  <2> HIDE DEF V
  <2> QED
    BY <1>3, FrontAndLast
<1>12. /\ TextOfStack(b, end) = shut /\ TextOfStack(b, close) = tail
       /\ \A x \in Range(end) \cup Range(close) : ItemFits(b, x)
  <2>1. TextOf(b, Lexeme(Close)) = <<Close>> /\ ItemFits(b, Lexeme(Close))
    BY OfLexeme
  <2>2. /\ TextOfStack(b, <<Lexeme(Close)>>) = <<Close>> /\ TextOfStack(b, << >>) = << >>
        /\ Range(<<Lexeme(Close)>>) = {Lexeme(Close)}
    BY <1>2, <2>1, TextOfStackOne
  <2>3. Range(<< >>) = {}
    BY DEF Range
  <2> QED
    BY <2>1, <2>2, <2>3
<1>13. pushed \in Seq(V) /\ Range(pushed) = Range(close) \cup Range(end) \cup Range(push)
  <2> DEFINE ce == close \o end
  <2>1. ce \in Seq(V) /\ Range(ce) = Range(close) \cup Range(end)
    <3> HIDE DEF V, close, end
    <3> QED
      BY <1>9, RangeConcatenation
  <2>2. pushed = ce \o push
    OBVIOUS
  <2> HIDE DEF V, ce, push, pushed
  <2>3. ce \o push \in Seq(V) /\ Range(ce \o push) = Range(ce) \cup Range(push)
    BY <1>8, <2>1, RangeConcatenation
  <2> QED
    BY <2>1, <2>2, <2>3
<1>14. TextOfStack(b, pushed) = args \o (shut \o tail)
  <2> DEFINE ce == close \o end
  <2>1. TextOfStack(b, ce) = shut \o tail
    <3> HIDE DEF close, end
    <3> QED
      BY <1>9, <1>12, TextOfStackConcat
  <2>2. pushed = ce \o push
    OBVIOUS
  <2>3. ce \in Seq(V)
    BY <1>9
  <2> HIDE DEF ce, push, pushed, shut, tail, args
  <2> QED
    BY <1>8, <2>1, <2>2, <2>3, TextOfStackConcat
<1>15. written \o (args \o (shut \o tail)) = PlainText[<<b, u, target>>]
  <2> DEFINE inside == open \o args \o shut
  <2>1. PlainText[<<b, u, target>>] = IF actual = target THEN inside ELSE <<inject>> \o inside \o <<Close>>
    <3>1. PlainText[<<b, u, target>>] = Around(b, u, target, ArgumentTexts(PlainText, b, u))
      BY <1>1, PlainTextIs
    <3>2. ArgumentTexts(PlainText, b, u) = texts
      BY DEF ArgumentTexts
    <3>3. Inside(u, texts) = inside
      BY <1>1 DEF Inside
    <3> HIDE DEF inside, texts, actual
    <3> QED
      BY <1>1, <3>1, <3>2, <3>3 DEF Around
  <2>2. inside \in Seq(S) /\ << >> \o inside \o << >> = inside
    <3> HIDE DEF open, args, shut, S
    <3> QED
      BY <1>9, <1>10
  <2>3. PlainText[<<b, u, target>>] = wrap \o inside \o tail
    <3> HIDE DEF inside, inject, actual
    <3> QED
      BY <2>1, <2>2
  <2>4. written \o (args \o (shut \o tail)) = wrap \o inside \o tail
    <3> HIDE DEF wrap, open, args, shut, tail, S
    <3> DEFINE x == args \o (shut \o tail)
    <3>5. x \in Seq(S)
      BY <1>9, <1>10
    <3> HIDE DEF x
    <3>1. (wrap \o open) \o x = wrap \o (open \o x)
      BY ONLY <1>9, <3>5, SMTT(60)
    <3>2. open \o (args \o (shut \o tail)) = (open \o args \o shut) \o tail
      BY ONLY <1>9, <1>10, SMTT(60)
    <3> DEFINE i == open \o args \o shut
    <3>3. i \in Seq(S)
      BY <1>9, <1>10
    <3> HIDE DEF i
    <3>4. wrap \o (i \o tail) = wrap \o i \o tail
      BY ONLY <1>9, <3>3, SMTT(60)
    <3> QED
      BY <3>1, <3>2, <3>4 DEF i, x
  <2> QED
    BY <2>3, <2>4
<1>16. /\ written \o TextOfStack(b, pushed) = TextOf(b, Last(e.stack))
       /\ ItemFits(b, Last(e.stack)) <=> \A x \in Range(pushed) : ItemFits(b, x)
  <2>1. /\ TextOf(b, Last(e.stack)) = PlainText[<<b, u, target>>]
        /\ ItemFits(b, Last(e.stack)) <=> WellSorted(def, u, target)
    BY OfPending
  <2>2. WellSorted(def, u, target)
          <=> \A i \in DOMAIN u.args : WellSorted(def, u.args[i], sorts[i])
    BY <1>1, WellSortedApply
  <2>3. (\A x \in Range(pushed) : ItemFits(b, x)) <=> \A x \in Range(push) : ItemFits(b, x)
    <3> HIDE DEF pushed, push, close, end
    <3> QED
      BY <1>12, <1>13
  <2> HIDE DEF written, pushed, push, sorts, args, shut, tail
  <2> QED
    BY <1>8, <1>14, <1>15, <2>1, <2>2, <2>3
<1>17. written \in Seq(S)
  <2> HIDE DEF S, wrap, open
  <2> QED
    BY <1>9
<1>18. Course(b, t, sort, [stack |-> rest \o pushed, chunks |-> c \o written, memo |-> memo])
  <2> HIDE DEF written, memo, pushed
  <2> QED
    BY <1>5, <1>13, <1>16, <1>17, CourseGoesOn
<1>19. rest \o close \o end \o push = rest \o pushed
  <2> HIDE DEF V, rest, close, end, push
  <2> QED
    BY ONLY <1>8, <1>9, <1>11, SMTT(60)
<1>20. c \o wrap \o open = c \o written
  <2> HIDE DEF S, c, wrap, open
  <2> QED
    BY ONLY <1>3, <1>9, SMTT(60)
<1> QED
  BY <1>6, <1>18, <1>19, <1>20

\* At every turn of the loop there is something the top of the stack is.
LEMMA TopIs ==
  ASSUME NEW b, NEW t, NEW sort, NEW e, Course(b, t, sort, e), e.stack # << >>
  PROVE  \/ \E x \in Lexemes : Last(e.stack) = Lexeme(x)
         \/ \E u \in PlainTerms(b), target \in Sorts : Last(e.stack) = Pending(u, target)
<1> DEFINE V == Items(b)
<1>1. e.stack \in Seq(V)
  BY DEF Course
<1>2. Last(e.stack) \in V
  <2> HIDE DEF V
  <2> QED
    BY <1>1, FrontAndLast
<1> QED
  BY <1>2 DEF Items

LEMMA PendingOnTop ==
  ASSUME NEW b, NEW top, NEW u, NEW target, top = Pending(u, target)
  PROVE  /\ "lexeme" \notin DOMAIN top /\ "term" \in DOMAIN top
         /\ top.term = u /\ top.sort = target
         /\ ItemFits(b, top) <=> WellSorted(Definitions[b], u, target)
BY DEF Pending, ItemFits

\* What does not fit is found out, also where an injection is not looked into
\* again.
LEMMA MisfitIs ==
  ASSUME NEW b, NEW t, NEW sort, NEW e, Course(b, t, sort, e),
         NEW u \in PlainTerms(b), NEW target \in Sorts, Last(e.stack) = Pending(u, target)
  PROVE  Misfit(Definitions[b], e) <=> ~Fits(b, u, target)
<1> DEFINE def == Definitions[b]
           actual == ActualSort(def, u)
<1>1. MemoTrue(b, e.memo)
  BY DEF Course
<1>2. NodeSort(def, e, u) = actual /\ Allowed(def, e, target) = Subsorts(def, target)
  BY <1>1, TablesAnswer
<1>3. InjKey(actual, target) \in DOMAIN e.memo.injections => Fits(b, u, target)
  BY <1>1 DEF MemoTrue, InjectionsFit
<1>4. "term" \in DOMAIN Last(e.stack) /\ Last(e.stack).term = u /\ Last(e.stack).sort = target
  BY PendingOnTop
<1>5. Misfit(def, e)
        <=> /\ actual # target /\ InjKey(actual, target) \notin DOMAIN e.memo.injections
            /\ actual \notin Subsorts(def, target)
  BY <1>2, <1>4 DEF Misfit
<1> QED
  BY <1>3, <1>5 DEF Fits

\* A turn of the loop keeps the course, whatever is on top and whatever the
\* tables hold.
THEOREM LoopStaysOnCourse ==
  ASSUME NEW b \in DOMAIN Definitions, NEW t, NEW sort, NEW e, Course(b, t, sort, e),
         e.stack # << >>, ~Misfit(Definitions[b], e)
  PROVE  Course(b, t, sort, EmitNext(Definitions[b], e))
<1>1. CASE \E x \in Lexemes : Last(e.stack) = Lexeme(x)
  <2> PICK x \in Lexemes : Last(e.stack) = Lexeme(x)
    BY <1>1
  <2> DEFINE V == Items(b)
             S == Lexemes
             one == <<x>>
             none == << >>
             rest == Front(e.stack)
             c == e.chunks
  <2>1. /\ e = [stack |-> e.stack, chunks |-> e.chunks, memo |-> e.memo]
        /\ e.stack \in Seq(V) /\ c \in Seq(S) /\ MemoTrue(b, e.memo)
    BY DEF Course
  <2>2. EmitNext(Definitions[b], e)
          = [e EXCEPT !.stack = Front(@), !.chunks = Append(@, x)]
    BY OfLexeme DEF EmitNext
  <2>3. EmitNext(Definitions[b], e) = [stack |-> rest, chunks |-> Append(c, x), memo |-> e.memo]
    BY <2>1, <2>2
  <2>4. rest \in Seq(V) /\ rest \o none = rest /\ none \in Seq(V)
    <3> HIDE DEF V
    <3> QED
      BY <2>1, FrontAndLast, ConcatEmptySeq
  <2>5. Append(c, x) = c \o one /\ one \in Seq(S) /\ one \o none = one
    <3> HIDE DEF S, c
    <3> QED
      BY <2>1, AppendIsConcat DEF S
  <2>6. /\ TextOf(b, Last(e.stack)) = one /\ ItemFits(b, Last(e.stack))
        /\ TextOfStack(b, none) = none /\ Range(none) = {}
    <3>1. Lexeme(x) \in Items(b)
      BY DEF Items
    <3>2. TextOfStack(b, none) = none
      BY <3>1, TextOfStackOne
    <3>3. Range(none) = {}
      BY DEF Range
    <3> QED
      BY <3>2, <3>3, OfLexeme
  <2>7. Course(b, t, sort, [stack |-> rest \o none, chunks |-> c \o one, memo |-> e.memo])
    <3>1. one \o TextOfStack(b, none) = TextOf(b, Last(e.stack))
      BY <2>5, <2>6
    <3>2. ItemFits(b, Last(e.stack)) <=> \A y \in Range(none) : ItemFits(b, y)
      BY <2>6
    <3> HIDE DEF one, none
    <3> QED
      BY <2>1, <2>4, <2>5, <3>1, <3>2, CourseGoesOn
  <2> QED
    BY <2>3, <2>4, <2>5, <2>7
<1>2. CASE \E u \in PlainTerms(b), target \in Sorts : Last(e.stack) = Pending(u, target)
  <2> PICK u \in PlainTerms(b), target \in Sorts : Last(e.stack) = Pending(u, target)
    BY <1>2
  <2>1. EmitNext(Definitions[b], e) = EmitTerm(Definitions[b], e, u, target)
    BY PendingOnTop DEF EmitNext
  <2>2. Fits(b, u, target)
    BY MisfitIs
  <2>3. u.node = "token" \/ u.node = "apply"
    BY PlainNode DEF PlainTerms
  <2> QED
    BY <2>1, <2>2, <2>3, CourseOfToken, CourseOfApplication
<1> QED
  BY <1>1, <1>2, TopIs

\* The loop raises only for a term that does not fit ...
THEOREM LoopRaisesRightly ==
  ASSUME NEW b \in DOMAIN Definitions, NEW t, NEW sort, NEW e, Course(b, t, sort, e),
         e.stack # << >>, Misfit(Definitions[b], e)
  PROVE  ~WellSorted(Definitions[b], t, sort)
<1>1. "term" \in DOMAIN Last(e.stack)
  BY DEF Misfit
<1>2. PICK u \in PlainTerms(b), target \in Sorts : Last(e.stack) = Pending(u, target)
  BY <1>1, TopIs, OfLexeme
<1>3. ~Fits(b, u, target)
  BY <1>2, MisfitIs
<1>4. ~ItemFits(b, Last(e.stack))
  BY <1>2, <1>3, PendingOnTop, WellSortedMeans
<1>5. Last(e.stack) \in Range(e.stack)
  <2> DEFINE V == Items(b)
  <2>1. e.stack \in Seq(V)
    BY DEF Course
  <2> HIDE DEF V
  <2>2. Len(e.stack) \in 1 .. Len(e.stack) /\ DOMAIN e.stack = 1 .. Len(e.stack)
    BY <2>1
  <2> QED
    BY <2>2 DEF Last, Range
<1> QED
  BY <1>4, <1>5 DEF Course

\* ... and when it ends it has written the text of one that does.
THEOREM LoopWritesTheText ==
  ASSUME NEW b \in DOMAIN Definitions, NEW t \in PlainTerms(b), NEW sort \in Sorts,
         NEW e, Course(b, t, sort, e), e.stack = << >>
  PROVE  e.chunks = KoreOf(b, t, sort)
<1>1. e.chunks \in Seq(Lexemes) /\ e.chunks \o TextOfStack(b, << >>) = PlainText[<<b, t, sort>>]
  BY DEF Course
<1>2. TextOfStack(b, << >>) = << >>
  <2>1. Pending(t, sort) \in Items(b)
    BY DEF Items
  <2> QED
    BY <2>1, TextOfStackOne
<1>3. e.chunks = PlainText[<<b, t, sort>>]
  BY <1>1, <1>2, ConcatEmptySeq
<1>4. WellSorted(Definitions[b], t, sort)
  BY DEF Course, Range
<1> QED
  BY <1>3, <1>4 DEF KoreOf, PlainTerms

-----------------------------------------------------------------------------
(* The cache of converted texts.                                            *)

\* A process that works on a request knows what it was asked for; one that is
\* down holds nothing that a new build could outdate.
AskedFor ==
  \A p \in Pids :
    /\ pc[p] \in {"lookup", "convert"} \cup Caching => steps[p] \in StepLists
    /\ text[p] # None => steps[p] \in StepLists
    /\ pc[p] = "down" => text[p] = None

\* What is being cached has a key, and the temporary file that is about to be
\* renamed holds its text.
CachesItsText ==
  \A p \in Pids :
    /\ pc[p] \in Caching => CacheKey(steps[p]) # None /\ text[p] = KoreText(build, steps[p])
    /\ pc[p] = "rename" /\ TmpName(p) \in DOMAIN tmps => tmps[TmpName(p)] = text[p]

CacheInv ==
  StepsTypeOK /\ EntriesWhole /\ ServedTextIsCurrent /\ AskedFor /\ CachesItsText

\* Two processes never share a temporary file.
LEMMA TmpNamesDiffer ==
  ASSUME NEW p \in Pids, NEW q \in Pids, p # q
  PROVE  TmpName(p) # TmpName(q)
BY DEF TmpName

LEMMA InitCacheInv == StepsInit => CacheInv
<1> SUFFICES ASSUME StepsInit PROVE CacheInv OBVIOUS
<1>1. StepsTypeOK
  BY StepsCacheAssumption DEF StepsInit, StepsTypeOK, Steps, Caching
<1>2. EntriesWhole /\ ServedTextIsCurrent /\ AskedFor /\ CachesItsText
  BY DEF StepsInit, EntriesWhole, ServedTextIsCurrent, AskedFor, CachesItsText, Caching
<1> QED BY <1>1, <1>2 DEF CacheInv

\* Every step keeps the invariant; the steps that write a file or a text are the
\* ones there is something to say about.
LEMMA CacheInvStep == CacheInv /\ [StepsNext]_cacheVars => CacheInv'
<1> SUFFICES ASSUME CacheInv, [StepsNext]_cacheVars PROVE CacheInv' OBVIOUS
<1> USE DEF CacheInv, StepsTypeOK, At, Goto
<1>1. CASE UNCHANGED cacheVars
  BY <1>1 DEF cacheVars, EntriesWhole, ServedTextIsCurrent, AskedFor, CachesItsText,
              TmpName, EntryName
<1>2. CASE Rebuild
  BY <1>2 DEF Rebuild, EntriesWhole, ServedTextIsCurrent, AskedFor, CachesItsText,
              TmpName, EntryName, Caching, Steps
<1>3. ASSUME NEW p \in Pids, Start(p) PROVE CacheInv'
  BY <1>3 DEF Start, EntriesWhole, ServedTextIsCurrent, AskedFor, CachesItsText,
              TmpName, EntryName, Caching, Steps
<1>4. ASSUME NEW p \in Pids, Die(p) PROVE CacheInv'
  BY <1>4 DEF Die, EntriesWhole, ServedTextIsCurrent, AskedFor, CachesItsText,
              TmpName, EntryName, Caching, Steps
<1>5. ASSUME NEW p \in Pids, NEW s \in StepLists, Ask(p, s) PROVE CacheInv'
  BY <1>5 DEF Ask, EntriesWhole, ServedTextIsCurrent, AskedFor, CachesItsText,
              TmpName, EntryName, Caching, Steps
<1>6. ASSUME NEW p \in Pids, Hit(p) PROVE CacheInv'
  BY <1>6 DEF Hit, EntriesWhole, ServedTextIsCurrent, AskedFor, CachesItsText,
              TmpName, EntryName, Caching, Steps
<1>7. ASSUME NEW p \in Pids, Miss(p) PROVE CacheInv'
  BY <1>7 DEF Miss, EntriesWhole, ServedTextIsCurrent, AskedFor, CachesItsText,
              TmpName, EntryName, Caching, Steps
<1>8. ASSUME NEW p \in Pids, Convert(p) PROVE CacheInv'
  BY <1>8 DEF Convert, Converted, EntriesWhole, ServedTextIsCurrent, AskedFor, CachesItsText,
              TmpName, EntryName, Caching, Steps
<1>9. ASSUME NEW p \in Pids, OpenTmp(p) \/ WriteTmp(p) PROVE CacheInv'
  <2>1. PICK content : tmps' = Write(tmps, TmpName(p), content)
                       /\ (WriteTmp(p) => content = text[p])
    BY <1>9 DEF OpenTmp, WriteTmp
  <2>2. /\ UNCHANGED <<build, entries, steps, text, asks>>
        /\ pc[p] \in {"open", "write"}
        /\ \E there \in {"write", "rename"} :
             pc' = [pc EXCEPT ![p] = there] /\ (there = "rename" => WriteTmp(p))
    BY <1>9 DEF OpenTmp, WriteTmp
  <2>3. \A q \in Pids : TmpName(q)' = TmpName(q)
    BY <2>2 DEF TmpName, EntryName
  <2>4. TmpName(p) \in (Builds \X Keys) \X Pids
    <3>1. steps[p] \in StepLists
      BY <2>2 DEF AskedFor, Caching
    <3> QED BY <3>1 DEF TmpName, EntryName, Keys
  <2>5. StepsTypeOK'
    BY <2>1, <2>2, <2>4 DEF Write, Steps, Caching
  <2>6. EntriesWhole' /\ ServedTextIsCurrent' /\ AskedFor'
    BY <2>2 DEF EntriesWhole, ServedTextIsCurrent, AskedFor, Steps, Caching
  <2>7. ASSUME NEW q \in Pids
        PROVE  /\ pc'[q] \in Caching =>
                    CacheKey(steps'[q]) # None /\ text'[q] = KoreText(build', steps'[q])
               /\ pc'[q] = "rename" /\ TmpName(q) \in DOMAIN tmps' => tmps'[TmpName(q)] = text'[q]
    <3>1. CASE q = p
      <4>1. pc'[p] = "rename" => tmps'[TmpName(p)] = text[p]
        BY <2>1, <2>2 DEF Write
      <4> QED BY <3>1, <4>1, <2>2 DEF CachesItsText, Caching
    <3>2. CASE q # p
      <4>1. TmpName(q) # TmpName(p)
        BY <3>2, TmpNamesDiffer
      <4>2. pc'[q] = pc[q]
        BY <3>2, <2>2
      <4>3. TmpName(q) \in DOMAIN tmps' =>
              TmpName(q) \in DOMAIN tmps /\ tmps'[TmpName(q)] = tmps[TmpName(q)]
        BY <4>1, <2>1 DEF Write
      <4> QED BY <4>2, <4>3, <2>2 DEF CachesItsText
    <3> QED BY <3>1, <3>2
  <2> QED BY <2>3, <2>5, <2>6, <2>7 DEF CachesItsText
<1>10. ASSUME NEW p \in Pids, Rename(p) PROVE CacheInv'
  <2> DEFINE s == steps[p]
             name == <<build, CacheKey(s)>>
  <2>1. /\ UNCHANGED <<build, steps, text, asks>>
        /\ pc[p] = "rename" /\ pc' = [pc EXCEPT ![p] = "idle"]
        /\ TmpName(p) \in DOMAIN tmps
        /\ entries' = Write(entries, name, tmps[TmpName(p)])
        /\ tmps' = [n \in DOMAIN tmps \ {TmpName(p)} |-> tmps[n]]
    BY <1>10 DEF Rename, EntryName
  <2>2. /\ s \in StepLists /\ CacheKey(s) # None
        /\ tmps[TmpName(p)] = KoreText(build, s)
    BY <2>1 DEF AskedFor, CachesItsText, Caching
  <2>3. StepsTypeOK'
    BY <2>1, <2>2 DEF Write, Steps, Caching, Keys
  <2>4. ASSUME NEW t \in StepLists, NEW b \in Builds,
               CacheKey(t) # None, <<b, CacheKey(t)>> \in DOMAIN entries'
        PROVE  entries'[<<b, CacheKey(t)>>] = KoreText(b, t)
    <3>1. CASE <<b, CacheKey(t)>> = name
      <4>1. b = build /\ CacheKey(t) = CacheKey(s)
        BY <3>1
      <4>2. KoreText(b, t) = KoreText(build, s)
        BY <4>1, <2>2, <2>4, KeyDeterminesText
      <4>3. entries'[name] = KoreText(build, s)
        BY <2>1, <2>2 DEF Write
      <4> QED BY <4>2, <4>3, <3>1
    <3>2. CASE <<b, CacheKey(t)>> # name
      <4>1. /\ <<b, CacheKey(t)>> \in DOMAIN entries
            /\ entries'[<<b, CacheKey(t)>>] = entries[<<b, CacheKey(t)>>]
        BY <3>2, <2>1, <2>4 DEF Write
      <4> QED BY <4>1, <2>4 DEF EntriesWhole
    <3> QED BY <3>1, <3>2
  <2>5. EntriesWhole'
    BY <2>4 DEF EntriesWhole
  <2>6. ServedTextIsCurrent' /\ AskedFor'
    BY <2>1 DEF ServedTextIsCurrent, AskedFor, Steps, Caching
  <2>7. CachesItsText'
    BY <2>1 DEF CachesItsText, TmpName, EntryName, Caching
  <2> QED BY <2>3, <2>5, <2>6, <2>7
<1>11. ASSUME NEW p \in Pids, CacheFails(p) PROVE CacheInv'
  BY <1>11 DEF CacheFails, EntriesWhole, ServedTextIsCurrent, AskedFor, CachesItsText,
              TmpName, EntryName, Caching, Steps
<1> QED
  BY <1>1, <1>2, <1>3, <1>4, <1>5, <1>6, <1>7, <1>8, <1>9, <1>10, <1>11
  DEF StepsNext, Others, Look, Cache

\* The invariant holds of every behaviour of the cache.
THEOREM CacheInvariance == StepsSpec => []CacheInv
<1>1. StepsInit => CacheInv
  BY InitCacheInv
<1>2. CacheInv /\ [StepsNext]_cacheVars => CacheInv'
  BY CacheInvStep
<1> QED BY <1>1, <1>2, PTL DEF StepsSpec

\* Whenever a process dies between the creation of a file and its renaming, and
\* however many write the same entry: no file under the name of an entry holds
\* anything but the whole text of the build and the modules in its name.
THEOREM EntriesAreWhole == StepsSpec => []EntriesWhole
<1>1. CacheInv => EntriesWhole
  BY DEF CacheInv
<1> QED BY <1>1, CacheInvariance, PTL

\* The text a run is given for its steps is the one the installed build makes of
\* them, cached or not.
THEOREM ServedTextsAreCurrent == StepsSpec => []ServedTextIsCurrent
<1>1. CacheInv => ServedTextIsCurrent
  BY DEF CacheInv
<1> QED BY <1>1, CacheInvariance, PTL

-----------------------------------------------------------------------------
(* The emission loop in the cache.                                          *)

\* A process that emits is converting its steps, which are plain, and is on the
\* course that LoopStaysOnCourse keeps.
EmissionOf(p) ==
  emission[p] # NoEmission =>
    /\ pc[p] = "convert"
    /\ Plain(p)
    /\ Course(build, TermOf(p), StepsSort, emission[p])

EmissionInv == DOMAIN emission = Pids /\ \A p \in Pids : EmissionOf(p)

EmitterInv == CacheInv /\ EmissionInv

\* What a process that converts is asked for.
LEMMA Converting ==
  ASSUME CacheInv, NEW p \in Pids, pc[p] = "convert"
  PROVE  /\ steps[p] \in StepLists /\ build \in Builds /\ build \in DOMAIN Definitions
         /\ TermOf(p) \in Terms /\ StepsSort \in Sorts
         /\ KoreText(build, steps[p]) = KoreOf(build, TermOf(p), StepsSort)
         /\ NoText = Raised
<1>1. steps[p] \in StepLists /\ build \in Builds
  BY DEF CacheInv, AskedFor, StepsTypeOK
<1> QED
  BY <1>1, StepsEmitterAssumption DEF TermOf

LEMMA StackTextIs == \A stack : StackText(stack) = TextOfStack(build, stack)
BY DEF StackText, ItemText, TextOfStack, TextOf

LEMMA InitEmitterInv == EmitterInit => StepsInit /\ EmitterInv
BY InitCacheInv DEF EmitterInit, EmitterInv, EmissionInv, EmissionOf

\* The whole of a conversion is the step of StepsCache that yields its result.
LEMMA EmissionEnds ==
  ASSUME EmitterInv, NEW p \in Pids, EmitEnd(p)
  PROVE  Convert(p)
<1>1. /\ pc[p] = "convert" /\ emission[p].stack = << >> /\ emission[p].chunks # << >>
      /\ Converted(p, emission[p].chunks)
  BY DEF EmitEnd, Converted, At
<1>2. emission[p] # NoEmission
  BY <1>1 DEF NoEmission
<1>3. Plain(p) /\ Course(build, TermOf(p), StepsSort, emission[p])
  BY <1>2 DEF EmitterInv, EmissionInv, EmissionOf
<1>4. TermOf(p) \in PlainTerms(build)
  BY <1>1, <1>3, Converting DEF EmitterInv, Plain, Definition, PlainTerms
<1>5. emission[p].chunks = KoreText(build, steps[p])
  BY <1>1, <1>3, <1>4, Converting, LoopWritesTheText DEF EmitterInv
<1> QED
  BY <1>1, <1>5 DEF Convert

LEMMA EmissionRaises ==
  ASSUME EmitterInv, NEW p \in Pids, EmitFails(p)
  PROVE  Convert(p)
<1>1. /\ pc[p] = "convert" /\ emission[p].stack # << >> /\ Misfit(Definition, emission[p])
      /\ Converted(p, NoText)
  BY DEF EmitFails, Converted, At
<1>2. emission[p] # NoEmission
  BY <1>1 DEF NoEmission
<1>3. Plain(p) /\ Course(build, TermOf(p), StepsSort, emission[p])
  BY <1>2 DEF EmitterInv, EmissionInv, EmissionOf
<1>4. ~WellSorted(Definitions[build], TermOf(p), StepsSort)
  BY <1>1, <1>3, Converting, LoopRaisesRightly DEF EmitterInv, Definition
<1>5. NoText = KoreText(build, steps[p])
  BY <1>1, <1>3, <1>4, Converting DEF EmitterInv, KoreOf, Plain, Definition
<1> QED
  BY <1>1, <1>5 DEF Convert

LEMMA GenericConversion ==
  ASSUME EmitterInv, NEW p \in Pids, ConvertGenerically(p)
  PROVE  Convert(p)
<1>1. /\ pc[p] = "convert" /\ ~Plain(p) /\ Converted(p, Generic(TermOf(p), StepsSort))
  BY DEF ConvertGenerically, Converted, At
<1>2. Generic(TermOf(p), StepsSort) = KoreText(build, steps[p])
  BY <1>1, Converting DEF EmitterInv, KoreOf, Plain, Definition
<1> QED
  BY <1>1, <1>2 DEF Convert

\* Every step of the emitter is a step of the cache, or none.
LEMMA EmitterImplementsCache ==
  ASSUME EmitterInv, [EmitterNext]_emitterVars
  PROVE  [StepsNext]_cacheVars
<1>1. CASE UNCHANGED emitterVars
  BY <1>1 DEF emitterVars
<1>2. CASE Rebuild \/ \E p \in Pids : Start(p) \/ \E s \in StepLists : Ask(p, s)
  BY <1>2 DEF StepsNext, Others
<1>3. ASSUME NEW p \in Pids, Die(p) \/ Look(p) \/ Cache(p) PROVE StepsNext
  BY <1>3 DEF StepsNext, Others
<1>4. ASSUME NEW p \in Pids, EmitBegin(p) \/ EmitStep(p) PROVE UNCHANGED cacheVars
  BY <1>4 DEF EmitBegin, EmitStep
<1>5. ASSUME NEW p \in Pids, EmitFails(p) \/ EmitEnd(p) \/ ConvertGenerically(p)
      PROVE  StepsNext
  BY <1>5, EmissionEnds, EmissionRaises, GenericConversion DEF StepsNext
<1> QED
  BY <1>1, <1>2, <1>3, <1>4, <1>5 DEF EmitterNext, Serve

\* A step of one process leaves the emissions of the others on their course.
LEMMA EmissionInvStep ==
  ASSUME EmitterInv, [EmitterNext]_emitterVars
  PROVE  EmissionInv'
<1> USE DEF At, Goto
<1>0. /\ DOMAIN emission = Pids /\ pc \in [Pids -> Steps] /\ steps \in [Pids -> StepLists \cup {None}]
      /\ \A p \in Pids : EmissionOf(p)
  BY DEF EmitterInv, CacheInv, StepsTypeOK, EmissionInv
<1>1. ASSUME NEW q \in Pids,
             build' = build, steps'[q] = steps[q], pc'[q] = pc[q], emission'[q] = emission[q]
      PROVE  EmissionOf(q)'
  BY <1>0, <1>1 DEF EmissionOf, Plain, TermOf, Definition
<1>2. ASSUME NEW q \in Pids, emission'[q] = NoEmission
      PROVE  EmissionOf(q)'
  BY <1>2 DEF EmissionOf
<1>3. ASSUME NEW q \in Pids, pc[q] # "convert" PROVE emission[q] = NoEmission
  BY <1>0, <1>3 DEF EmissionOf
<1>4. SUFFICES DOMAIN emission' = Pids /\ \A q \in Pids : EmissionOf(q)'
  BY DEF EmissionInv
<1>5. CASE UNCHANGED emitterVars
  BY <1>0, <1>1, <1>5 DEF emitterVars, cacheVars
<1>6. CASE Rebuild /\ UNCHANGED emission
  <2>1. \A q \in Pids : emission'[q] = NoEmission
    BY <1>3, <1>6 DEF Rebuild
  <2> QED
    BY <1>0, <1>2, <1>6, <2>1
<1>7. ASSUME NEW p \in Pids, UNCHANGED emission,
             Start(p) \/ (\E s \in StepLists : Ask(p, s)) \/ Look(p) \/ Cache(p)
      PROVE  DOMAIN emission' = Pids /\ \A q \in Pids : EmissionOf(q)'
  <2>1. /\ pc[p] # "convert" /\ build' = build
        /\ \A q \in Pids \ {p} : pc'[q] = pc[q] /\ steps'[q] = steps[q]
    BY <1>0, <1>7 DEF Start, Ask, Look, Hit, Miss, Cache, OpenTmp, WriteTmp, Rename, CacheFails, Caching
  <2>2. emission'[p] = NoEmission
    BY <1>3, <1>7, <2>1
  <2> QED
    BY <1>0, <1>1, <1>2, <1>7, <2>1, <2>2
<1>8. ASSUME NEW p \in Pids,
             emission' = [emission EXCEPT ![p] = NoEmission], Die(p) \/ EmitFails(p) \/ EmitEnd(p)
      PROVE  DOMAIN emission' = Pids /\ \A q \in Pids : EmissionOf(q)'
  <2>1. /\ build' = build /\ \A q \in Pids \ {p} : pc'[q] = pc[q] /\ steps'[q] = steps[q]
    BY <1>0, <1>8 DEF Die, EmitFails, EmitEnd, Converted
  <2>2. /\ DOMAIN emission' = Pids /\ emission'[p] = NoEmission
        /\ \A q \in Pids \ {p} : emission'[q] = emission[q]
    BY <1>0, <1>8
  <2> QED
    BY <1>1, <1>2, <2>1, <2>2
<1>9. ASSUME NEW p \in Pids, ConvertGenerically(p)
      PROVE  DOMAIN emission' = Pids /\ \A q \in Pids : EmissionOf(q)'
  <2>1. /\ build' = build /\ \A q \in Pids \ {p} : pc'[q] = pc[q] /\ steps'[q] = steps[q]
        /\ emission' = emission /\ emission[p] = NoEmission
    BY <1>0, <1>9 DEF ConvertGenerically, Converted
  <2> QED
    BY <1>0, <1>1, <1>2, <2>1
<1>10. ASSUME NEW p \in Pids, EmitBegin(p)
       PROVE  DOMAIN emission' = Pids /\ \A q \in Pids : EmissionOf(q)'
  <2>1. /\ UNCHANGED cacheVars /\ Plain(p) /\ pc[p] = "convert"
        /\ emission' = [emission EXCEPT ![p] = Begin(TermOf(p), StepsSort)]
    BY <1>10 DEF EmitBegin
  <2>2. TermOf(p) \in PlainTerms(build)
    BY <2>1, Converting DEF EmitterInv, Plain, Definition, PlainTerms
  <2>3. Course(build, TermOf(p), StepsSort, Begin(TermOf(p), StepsSort))
    BY <2>1, <2>2, Converting, CourseBegins DEF EmitterInv
  <2>4. EmissionOf(p)'
    BY <1>0, <2>1, <2>3 DEF EmissionOf, cacheVars, Plain, TermOf, Definition
  <2>5. \A q \in Pids \ {p} : emission'[q] = emission[q]
    BY <1>0, <2>1
  <2> QED
    BY <1>0, <1>1, <2>1, <2>4, <2>5 DEF cacheVars
<1>11. ASSUME NEW p \in Pids, EmitStep(p)
       PROVE  DOMAIN emission' = Pids /\ \A q \in Pids : EmissionOf(q)'
  <2>1. /\ UNCHANGED cacheVars /\ pc[p] = "convert"
        /\ emission[p].stack # << >> /\ ~Misfit(Definition, emission[p])
        /\ emission' = [emission EXCEPT ![p] = EmitNext(Definition, emission[p])]
    BY <1>0, <1>11 DEF EmitStep
  <2>2. emission[p] # NoEmission
    BY <2>1 DEF NoEmission
  <2>3. Plain(p) /\ Course(build, TermOf(p), StepsSort, emission[p])
    BY <1>0, <2>2 DEF EmissionOf
  <2>4. Course(build, TermOf(p), StepsSort, EmitNext(Definition, emission[p]))
    BY <2>1, <2>3, Converting, LoopStaysOnCourse DEF EmitterInv, Definition
  <2>5. EmissionOf(p)'
    BY <1>0, <2>1, <2>3, <2>4 DEF EmissionOf, cacheVars, Plain, TermOf, Definition
  <2>6. \A q \in Pids \ {p} : emission'[q] = emission[q]
    BY <1>0, <2>1
  <2> QED
    BY <1>0, <1>1, <2>1, <2>5, <2>6 DEF cacheVars
<1> QED
  <2>1. ASSUME NEW p \in Pids, EmitFails(p) \/ EmitEnd(p)
        PROVE  emission' = [emission EXCEPT ![p] = NoEmission]
    BY <2>1 DEF EmitFails, EmitEnd
  <2> QED
    BY <1>5, <1>6, <1>7, <1>8, <1>9, <1>10, <1>11, <2>1 DEF EmitterNext, Serve

\* The invariant of the cache, and of every emission in it.
THEOREM EmitterInvariance == EmitterSpec => []EmitterInv
<1>1. EmitterInit => EmitterInv
  BY InitEmitterInv
<1>2. EmitterInv /\ [EmitterNext]_emitterVars => EmitterInv'
  <2> SUFFICES ASSUME EmitterInv, [EmitterNext]_emitterVars PROVE EmitterInv'
    OBVIOUS
  <2>1. CacheInv'
    BY EmitterImplementsCache, CacheInvStep DEF EmitterInv
  <2> QED
    BY <2>1, EmissionInvStep DEF EmitterInv
<1> QED
  BY <1>1, <1>2, PTL DEF EmitterSpec

\* However deep the steps nest and whatever the tables recall: at every turn of
\* the loop, what is written and what is on the stack make up pyk's text.
THEOREM EmissionsAreOnCourse == EmitterSpec => []EmissionOnCourse
<1>1. EmitterInv => EmissionOnCourse
  <2> SUFFICES ASSUME EmitterInv, NEW p \in Pids, emission[p].stack # << >>
               PROVE  emission[p].chunks \o StackText(emission[p].stack)
                        = PlainText[<<build, TermOf(p), StepsSort>>]
    BY DEF EmissionOnCourse
  <2>1. emission[p] # NoEmission
    BY DEF NoEmission
  <2>2. Course(build, TermOf(p), StepsSort, emission[p])
    BY <2>1 DEF EmitterInv, EmissionInv, EmissionOf
  <2> QED
    BY <2>2, StackTextIs DEF Course
<1> QED
  BY <1>1, EmitterInvariance, PTL

\* The loop in the cache does what the cache with pyk's conversion does.
THEOREM EmitterImplementsStepsCache == EmitterSpec => ImplementsStepsCache
<1>1. EmitterInit => StepsInit
  BY InitEmitterInv
<1>2. EmitterInv /\ [EmitterNext]_emitterVars => [StepsNext]_cacheVars
  BY EmitterImplementsCache
<1> QED
  BY <1>1, <1>2, EmitterInvariance, PTL DEF EmitterSpec, ImplementsStepsCache, StepsSpec

\* So its entries are whole ...
THEOREM EmittedEntriesAreWhole == EmitterSpec => []EntriesWhole
BY EmitterImplementsStepsCache, EntriesAreWhole, PTL DEF ImplementsStepsCache

\* ... and what it serves is current.
THEOREM EmittedTextsAreCurrent == EmitterSpec => []ServedTextIsCurrent
BY EmitterImplementsStepsCache, ServedTextsAreCurrent, PTL DEF ImplementsStepsCache
=============================================================================
