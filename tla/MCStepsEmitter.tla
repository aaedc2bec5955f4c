--------------------------- MODULE MCStepsEmitter ---------------------------
(***************************************************************************)
(* The upload of a module that applies a parametric label to two sorts, and *)
(* which the second build expects under another sort than the first; of one *)
(* that is ill-sorted; of two that are not plain, in either order; and a    *)
(* step that is no upload.                                                  *)
(***************************************************************************)
EXTENDS StepsEmitter

MCSorts    == {"Steps", "Step", "Bytes", "Int", "Val", "ModuleDecl", "Decl"}
MCReserved == {"<program>", "#And"}

P(sort, args, params) == [sort |-> sort, args |-> args, params |-> params]

MCDefinition(moduleSort) ==
  [productions |->
     ("kasmerSteps" :> P("Steps", <<"Step", "Steps">>, << >>)) @@
     ("dotSteps"    :> P("Steps", << >>, << >>)) @@
     ("uploadWasm"  :> P("Step", <<"Bytes", moduleSort>>, << >>)) @@
     ("setExitCode" :> P("Step", <<"Int">>, << >>)) @@
     ("module"      :> P("ModuleDecl", <<"Val", "Val">>, << >>)) @@
     ("wrap"        :> P("S", <<"S">>, <<"S">>)),
   under |-> {<<"Int", "Val">>, <<"Bytes", "Val">>, <<"ModuleDecl", "Decl">>}]

MCDefinitions == <<MCDefinition("ModuleDecl"), MCDefinition("Decl")>>

one == Token("Int", "1")
L(name) == Label(name, << >>)
Wrap(sort, t) == Apply(Label("wrap", <<sort>>), <<t>>)
Module(x, y)  == Apply(L("module"), <<x, y>>)
Upload(h, m)  == Apply(L("uploadWasm"), <<Token("Bytes", h), m>>)

mixed  == Upload("h1", Module(Wrap("Int", one), Wrap("Bytes", Token("Bytes", "b"))))
misfit == Upload("h2", one)
exit   == Apply(L("setExitCode"), <<one>>)
open1  == Upload("h3", [node |-> "variable"])
open2  == Upload("h4", [node |-> "variable"])

MCKasmerSteps ==
  [mixed |-> <<mixed>>, misfit |-> <<misfit>>, exit |-> <<exit>>,
   open12 |-> <<open1, open2>>, open21 |-> <<open2, open1>>]

MCStepLists == DOMAIN MCKasmerSteps

Closure[n \in Nat] ==
  IF n = 0 THEN {StepsTerm(s) : s \in MCStepLists}
  ELSE Closure[n - 1] \cup UNION {ArgsOf(t) : t \in Closure[n - 1]}

MCTerms == Closure[7]

MCKoreTexts == [b \in 1 .. 2 |-> [s \in MCStepLists |-> KoreOf(b, StepsTerm(s), "Steps")]]
MCKoreText(b, s) == MCKoreTexts[b][s]
=============================================================================
