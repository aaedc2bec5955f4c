------------------------------ MODULE KoreEmit ------------------------------
(***************************************************************************)
(* The conversion of a K term to KORE text in one pass (kore_emit.py).      *)
(*                                                                         *)
(* A term is a token, the application of a label, or another node.  A text  *)
(* is the sequence of its lexemes: an opening injection, an opening symbol, *)
(* a token, a comma or a closing parenthesis.                               *)
(***************************************************************************)
EXTENDS Integers, SequencesExt

CONSTANTS
  Definitions, \* the definition each build of the semantics compiles
  Terms,       \* the terms in play, closed under taking arguments
  Sorts,
  Reserved     \* the names of cells and of ML patterns

Raised == <<"raised">>

Token(sort, token) == [node |-> "token", sort |-> sort, token |-> token]
Label(name, params) == [name |-> name, params |-> params]
Apply(label, args) == [node |-> "apply", label |-> label, args |-> args]

ArgsOf(t) == IF t.node = "apply" THEN {t.args[i] : i \in DOMAIN t.args} ELSE {}

\* How deep a term nests.
Depth[t \in Terms] == 1 + Max({0} \cup {Depth[a] : a \in ArgsOf(t)})

\* Terms are trees, of any depth.
ASSUME KoreEmitAssumption ==
  \A t \in Terms :
    /\ Depth[t] \in Nat
    /\ \A a \in ArgsOf(t) : a \in Terms /\ Depth[a] < Depth[t]

Nodes[t \in Terms] == {t} \cup UNION {Nodes[a] : a \in ArgsOf(t)}

-----------------------------------------------------------------------------
(* A definition maps the name of a label to its production: its sort, the   *)
(* sorts of its arguments, and the names of its sort parameters, which may  *)
(* stand for any of these; `under` is the subsort relation.                 *)

Production(def, label) == def.productions[label.name]

\* The sort a production's sort stands for where it is applied.
SortAt(def, label, sort) ==
  LET params == Production(def, label).params
  IN  IF Contains(params, sort)
      THEN label.params[CHOOSE i \in DOMAIN params : params[i] = sort] ELSE sort

\* definition.resolve_sorts
SortOf(def, label) == SortAt(def, label, Production(def, label).sort)
ArgSorts(def, label) ==
  [i \in DOMAIN Production(def, label).args |->
     SortAt(def, label, Production(def, label).args[i])]

\* definition.subsorts
Subsorts(def, sort) == {pair[1] : pair \in {p \in def.under : p[2] = sort}}

\* The nodes the emitter can render ...
HasOnlyPlainNodes(t) ==
  \A n \in Nodes[t] :
    n.node = "token" \/ (n.node = "apply" /\ n.label.name \notin Reserved)

\* ... with labels that carry the sort parameters of their productions.
SortParamsResolved(def, t) ==
  \A n \in Nodes[t] :
    n.node = "apply" =>
      /\ n.label.name \in DOMAIN def.productions
      /\ Len(n.label.params) = Len(Production(def, n.label).params)

IsPlain(def, t) == HasOnlyPlainNodes(t) /\ SortParamsResolved(def, t)

\* A label is applied to as many arguments as its production has.
ASSUME ArityAssumption ==
  \A b \in DOMAIN Definitions, t \in Terms :
    IsPlain(Definitions[b], t) /\ t.node = "apply" =>
      /\ t.args \in Seq(Terms)
      /\ ArgSorts(Definitions[b], t.label) \in [DOMAIN t.args -> Sorts]

-----------------------------------------------------------------------------
(* What pyk makes of a term: the text emission has to agree with.           *)

Comma == <<",">>
Close == <<")">>
Opener(label)    == <<"(", label.name, label.params>>
Inj(from, to) == <<"inj", from, to>>
TokenText(t)     == <<"token", t.sort, t.token>>

ActualSort(def, t) == IF t.node = "token" THEN t.sort ELSE SortOf(def, t.label)

\* A term with a node that is not plain goes through passes not looked into.
Generic(t, sort) == << <<"generic", t, sort>> >>

\* The arguments of an application, with commas between them.
Separated(texts) ==
  FlattenSeq([i \in DOMAIN texts |-> IF i = 1 THEN texts[i] ELSE <<Comma>> \o texts[i]])

PlainText[at \in (DOMAIN Definitions) \X Terms \X Sorts] ==
  LET def    == Definitions[at[1]]
      t      == at[2]
      sort   == at[3]
      actual == ActualSort(def, t)
      body   == IF t.node = "token" THEN <<TokenText(t)>>
                ELSE <<Opener(t.label)>>
                     \o Separated([i \in DOMAIN t.args |->
                                     PlainText[<<at[1], t.args[i], ArgSorts(def, t.label)[i]>>]])
                     \o <<Close>>
  IN  IF ~IsPlain(def, t) THEN << >>
      ELSE IF actual = sort THEN body ELSE <<Inj(actual, sort)>> \o body \o <<Close>>

\* Every node is of a subsort of the sort it is expected to have.
WellSorted(def, t, sort) ==
  LET FitsIn(a, s) == ActualSort(def, a) = s \/ ActualSort(def, a) \in Subsorts(def, s)
  IN  /\ FitsIn(t, sort)
      /\ \A n \in Nodes[t] : n.node = "apply" =>
           \A i \in DOMAIN n.args : FitsIn(n.args[i], ArgSorts(def, n.label)[i])

KoreOf(b, t, sort) ==
  IF ~IsPlain(Definitions[b], t) THEN Generic(t, sort)
  ELSE IF WellSorted(Definitions[b], t, sort) THEN PlainText[<<b, t, sort>>] ELSE Raised

-----------------------------------------------------------------------------
(* emit_kore_text: a machine with a stack of what is still to be written,   *)
(* its top last, and memo tables.                                           *)

Lexeme(x)        == [lexeme |-> x]
Pending(t, sort) == [term |-> t, sort |-> sort]

NoMemo == [resolved |-> << >>, openers |-> << >>, tokens |-> << >>,
           injections |-> << >>, subsorts |-> << >>]

Begin(t, sort) == [stack |-> <<Pending(t, sort)>>, chunks |-> << >>, memo |-> NoMemo]

\* Each table is asked before the definition is, and keeps the answer.
Recall(table, key, value) == IF key \in DOMAIN table THEN table[key] ELSE value
Learn(table, key, value)  == [k \in DOMAIN table \cup {key} |-> Recall(table, k, value)]

\* A mutant: a key that does not tell apart what has different texts.
OpenerKeyOfName(label) == label.name
OpenerKey(label) == label
TokenKey(t)      == <<t.sort, t.token>>
InjKey(from, to) == <<from, to>>

\* A mutant: the arguments pushed first to last.
PushArgumentsForward(args, sorts) ==
  FlattenSeq([i \in DOMAIN args |->
    IF i = 1 THEN <<Pending(args[1], sorts[1])>>
    ELSE <<Lexeme(Comma), Pending(args[i], sorts[i])>>])

\* Pushed in reverse: the last argument lies deepest, a comma above it.
PushArguments(args, sorts) ==
  Reverse(FlattenSeq([i \in DOMAIN args |->
    IF i = 1 THEN <<Pending(args[1], sorts[1])>>
    ELSE <<Lexeme(Comma), Pending(args[i], sorts[i])>>]))

Resolved(def, e, label) ==
  Recall(e.memo.resolved, label, <<SortOf(def, label), ArgSorts(def, label)>>)

NodeSort(def, e, t) == IF t.node = "token" THEN t.sort ELSE Resolved(def, e, t.label)[1]

Allowed(def, e, target) == Recall(e.memo.subsorts, target, Subsorts(def, target))

\* The top does not fit where it is expected: a ValueError.  An injection that
\* was written before is not looked into again.
Misfit(def, e) ==
  LET top    == Last(e.stack)
      actual == NodeSort(def, e, top.term)
  IN  /\ "term" \in DOMAIN top
      /\ actual # top.sort
      /\ InjKey(actual, top.sort) \notin DOMAIN e.memo.injections
      /\ actual \notin Allowed(def, e, top.sort)

\* What the tables hold once a node is written or opened.
Learned(def, e, t, target) ==
  LET actual == NodeSort(def, e, t)
      memo   == e.memo
      LearnIf(asked, table, key, value) == IF asked THEN Learn(table, key, value) ELSE table
  IN  [resolved   |-> LearnIf(t.node # "token", memo.resolved, t.label,
                              Resolved(def, e, t.label)),
       openers    |-> LearnIf(t.node # "token", memo.openers, OpenerKey(t.label),
                              Opener(t.label)),
       tokens     |-> LearnIf(t.node = "token", memo.tokens, TokenKey(t), TokenText(t)),
       injections |-> LearnIf(actual # target, memo.injections, InjKey(actual, target),
                              Inj(actual, target)),
       subsorts   |-> LearnIf(actual # target, memo.subsorts, target,
                              Subsorts(def, target))]

\* What is pushed in the place of the node on top, and the lexemes written for
\* it at once.
EmitTerm(def, e, t, target) ==
  LET rest   == Front(e.stack)
      actual == NodeSort(def, e, t)
      inject == actual # target
      wrap   == IF inject THEN <<Recall(e.memo.injections, InjKey(actual, target),
                                        Inj(actual, target))>> ELSE << >>
      close  == IF inject THEN <<Lexeme(Close)>> ELSE << >>
      token  == Recall(e.memo.tokens, TokenKey(t), TokenText(t))
      opener == Recall(e.memo.openers, OpenerKey(t.label), Opener(t.label))
  IN  IF t.node = "token"
      THEN [stack  |-> rest,
            chunks |-> e.chunks \o wrap \o <<token>>
                       \o (IF inject THEN <<Close>> ELSE << >>),
            memo   |-> Learned(def, e, t, target)]
      ELSE [stack  |-> rest \o close \o <<Lexeme(Close)>>
                       \o PushArguments(t.args, Resolved(def, e, t.label)[2]),
            chunks |-> e.chunks \o wrap \o <<opener>>,
            memo   |-> Learned(def, e, t, target)]

EmitNext(def, e) ==
  LET top == Last(e.stack)
  IN  IF "lexeme" \in DOMAIN top
      THEN [e EXCEPT !.stack = Front(@), !.chunks = Append(@, top.lexeme)]
      ELSE EmitTerm(def, e, top.term, top.sort)
=============================================================================
