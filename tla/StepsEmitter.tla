---------------------------- MODULE StepsEmitter ----------------------------
(***************************************************************************)
(* Module StepsCache with the conversion of module KoreEmit in it: a        *)
(* process that converts its steps runs the emission loop, while others     *)
(* look entries up, write them and die.  StepsCache, where a conversion is  *)
(* one step that yields what pyk would, is what this implements.            *)
(***************************************************************************)
EXTENDS StepsCache, KoreEmit

CONSTANTS
  KasmerSteps,     \* the steps of each list, as terms
  StepsSort        \* the sort of the term in the <program> cell

\* steps_of: a list of kasmer steps as one term.
StepsTerm(s) ==
  LET Prepend(step, rest) == Apply(Label("kasmerSteps", << >>), <<step, rest>>)
  IN  FoldRight(Prepend, KasmerSteps[s], Apply(Label("dotSteps", << >>), << >>))

\* upload_steps_cache_key: the declared hashes, in order, if all are uploads.
UploadStepsCacheKey(s) ==
  LET IsUpload(step) ==
        /\ step.node = "apply" /\ step.label.name = "uploadWasm"
        /\ Len(step.args) = 2 /\ step.args[1].node = "token"
      list == KasmerSteps[s]
  IN  IF list # << >> /\ \A i \in DOMAIN list : IsUpload(list[i])
      THEN [i \in DOMAIN list |-> list[i].args[1].token] ELSE None

ASSUME StepsEmitterAssumption ==
  \A b \in Builds, s \in StepLists :
    /\ b \in DOMAIN Definitions /\ StepsTerm(s) \in Terms /\ StepsSort \in Sorts
    /\ KoreText(b, s) = KoreOf(b, StepsTerm(s), StepsSort)
    /\ CacheKey(s) = UploadStepsCacheKey(s)
    /\ NoText = Raised

VARIABLE emission    \* the emission loop of each process, or NoEmission

emitterVars == <<cacheVars, emission>>

NoEmission == [stack |-> << >>, chunks |-> << >>, memo |-> NoMemo]

\* kdefinition: the definition of the build the process runs.
Definition == Definitions[build]

TermOf(p) == StepsTerm(steps[p])
Plain(p)  == IsPlain(Definition, TermOf(p))

EmitBegin(p) ==
  /\ At(p, "convert") /\ emission[p] = NoEmission
  /\ Plain(p)
  /\ emission' = [emission EXCEPT ![p] = Begin(TermOf(p), StepsSort)]
  /\ UNCHANGED cacheVars

EmitStep(p) ==
  /\ At(p, "convert") /\ emission[p].stack # << >>
  /\ ~Misfit(Definition, emission[p])
  /\ emission' = [emission EXCEPT ![p] = EmitNext(Definition, @)]
  /\ UNCHANGED cacheVars

EmitFails(p) ==
  /\ emission[p].stack # << >>
  /\ Misfit(Definition, emission[p])
  /\ Converted(p, NoText)
  /\ emission' = [emission EXCEPT ![p] = NoEmission]

EmitEnd(p) ==
  /\ emission[p].stack = << >> /\ emission[p].chunks # << >>
  /\ Converted(p, emission[p].chunks)
  /\ emission' = [emission EXCEPT ![p] = NoEmission]

\* kast_to_kore_text leaves a term that is not plain to pyk.
ConvertGenerically(p) ==
  /\ At(p, "convert") /\ emission[p] = NoEmission
  /\ ~Plain(p)
  /\ Converted(p, Generic(TermOf(p), StepsSort))
  /\ UNCHANGED emission

EmitterInit == StepsInit /\ emission = [p \in Pids |-> NoEmission]

Serve(p) ==
  \/ (Look(p) \/ Cache(p)) /\ UNCHANGED emission
  \/ EmitBegin(p) \/ EmitStep(p) \/ EmitFails(p) \/ EmitEnd(p)
  \/ ConvertGenerically(p)

EmitterNext ==
  \/ (Rebuild \/ \E p \in Pids : Start(p) \/ \E s \in StepLists : Ask(p, s))
       /\ UNCHANGED emission
  \/ \E p \in Pids :
       \/ Serve(p)
       \/ Die(p) /\ emission' = [emission EXCEPT ![p] = NoEmission]

\* A process that is not stopped runs on; nobody owes it another call.
EmitterSpec ==
  EmitterInit /\ [][EmitterNext]_emitterVars /\ \A p \in Pids : WF_emitterVars(Serve(p))

-----------------------------------------------------------------------------
(* Properties.                                                              *)

\* The text the items of a stack stand for, from the top of it down.
ItemText(item) ==
  IF "lexeme" \in DOMAIN item THEN <<item.lexeme>>
  ELSE PlainText[<<build, item.term, item.sort>>]

StackText(stack) == FlattenSeq([i \in DOMAIN stack |-> ItemText(Reverse(stack)[i])])

\* At every turn of the loop, what is written and what is on the stack make up
\* the text that pyk would write; no table ever answers for another node.
EmissionOnCourse ==
  \A p \in Pids :
    emission[p].stack # << >> =>
      emission[p].chunks \o StackText(emission[p].stack)
        = PlainText[<<build, TermOf(p), StepsSort>>]

\* The loop and the cache together are a cache of finished conversions.
ImplementsStepsCache == StepsSpec

\* A process that asks for a text gets one or the exception, or it dies:
\* nothing another process left in the directory holds it up.
AskedIsServed == \A p \in Pids : At(p, "lookup") ~> (At(p, "idle") \/ At(p, "down"))
=============================================================================
