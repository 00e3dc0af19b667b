------------------------------ MODULE Pipeline ------------------------------
(***************************************************************************)
(* A virtual tool from its configuration to its answer: the validator that *)
(* admits or rejects its pipeline (mcpvirtual/pipeline/validator.go), the  *)
(* executor that runs the steps in order (engine/executor.go), the         *)
(* resolution of $ references (engine/context.go) and what each kind of    *)
(* step does with them (node/*.go).                                        *)
(*                                                                         *)
(* A step is a record: its id, its kind, the roots of the $ references it  *)
(* holds, those of them written behind a blank (the executor trims them,   *)
(* the validator does not and misses them), whether its spec has the       *)
(* required fields, whether it has a `require`, whether it says            *)
(* `parse: json`, and for a foreach onMissing, the `as` name and the       *)
(* sub-pipeline.  A value is where it comes from, whether it satisfies a   *)
(* `require`, and whether it is text or data.  The elements of a foreach   *)
(* run side by side; how many at once, and how their results are gathered, *)
(* is module Foreach.                                                      *)
(***************************************************************************)
EXTENDS Integers, Sequences, FiniteSets

CONSTANTS
  Pipelines,  \* the pipelines a configuration may hold
  Fields,     \* names of arguments the caller may give
  Defaults,   \* those the input schema has a default for
  MaxItems    \* longest list a foreach iterates over

IsList(s) == s \in Seq({s[k] : k \in DOMAIN s})

ASSUME PipelineAssumption ==
  /\ Defaults \subseteq Fields
  /\ MaxItems \in Nat
  /\ \A p \in Pipelines : IsList(p) /\ \A k \in DOMAIN p : IsList(p[k].body)

Kinds == {"call", "http", "jq", "foreach", "return", "emit"}

Items == 1 .. MaxItems

VARIABLES
  pipe,     \* the configured pipeline
  phase,    \* what became of it, and of the current call
  args,     \* names of the arguments of the call, defaults included
  pc,       \* the step being executed
  outputs,  \* Context.Outputs of the call
  item,     \* the context and the progress of each foreach element
  why,      \* why the call failed
  answer    \* the value the call answered with

vars == <<pipe, phase, args, pc, outputs, item, why, answer>>

(***************************************************************************)
(* Validation.                                                             *)
(***************************************************************************)
Ids(steps) == {steps[k].id : k \in DOMAIN steps}

UniqueIds(steps) == Cardinality(Ids(steps)) = Len(steps) /\ "" \notin Ids(steps)

hasEmit(steps) == \E k \in DOMAIN steps : steps[k].kind = "emit"

\* Steps of a sub-pipeline: emit is not looked at, return and foreach are
\* refused, and some emit must be there, wherever it is.
validateForeachPipeline(steps) ==
  /\ UniqueIds(steps)
  /\ \A k \in DOMAIN steps :
       \/ steps[k].kind = "emit"
       \/ steps[k].kind \in Kinds \ {"return", "foreach"} /\ steps[k].complete
  /\ hasEmit(steps)

validateStep(s) ==
  /\ s.kind \in Kinds
  /\ s.complete
  /\ s.kind = "foreach" => s.body # <<>> /\ validateForeachPipeline(s.body)

Validate(steps) ==
  UniqueIds(steps) /\ \A k \in DOMAIN steps : validateStep(steps[k])

\* The references the validator sees.
extractRefs(s) == s.refs \ s.blank

\* The order of the steps plays no part in what a reference may name.
ValidateReferences(steps) ==
  LET known    == {"input"} \cup Ids(steps)
      within(s) == known \cup {s.as} \cup Ids(s.body)
  IN  \A k \in DOMAIN steps :
        /\ extractRefs(steps[k]) \subseteq known
        /\ steps[k].kind = "foreach" =>
             \A j \in DOMAIN steps[k].body :
               extractRefs(steps[k].body[j]) \subseteq within(steps[k])

Accepted(steps) == Validate(steps) /\ ValidateReferences(steps)

(***************************************************************************)
(* Values and references.  Element 0 is the top level.                     *)
(***************************************************************************)
Unresolved == <<"unresolved">>

resolveDollarPath(root, i, asName, outs) ==
  IF root = "input" THEN <<"args">>
  ELSE IF i # 0 /\ root = asName THEN <<"item", i>>
  ELSE IF root \in DOMAIN outs THEN outs[root].src
  ELSE IF i = 0 /\ root \in args THEN <<"field", root>>
  ELSE Unresolved

\* A value is nil, or there but empty or without the required field, or full.
\* With parse: json a response that is not JSON fails the step; without it a
\* response that happens to be JSON is parsed as well.
Forms(s) == IF s.kind = "call" /\ ~s.parse THEN {"text", "data"} ELSE {"data"}

Produces(s, source) ==
  [src : {source}, size : {"nil", "empty", "full"}, form : Forms(s)]

Bind(outs, id, v) == [r \in DOMAIN outs \cup {id} |-> IF r = id THEN v ELSE outs[r]]

\* Mutant: only steps with a value are checked.
RequireNonNil(s, v) == s.require => v.size # "nil"

checkRequire(s, v) == s.require => v.size = "full"

(***************************************************************************)
(* The configuration is loaded, and tools are called.                      *)
(***************************************************************************)
NoOutputs == [r \in {} |-> <<>>]

Idle == [st |-> "idle", pc |-> 1, out |-> NoOutputs, why |-> ""]

NoItems == [i \in Items |-> Idle]

Init ==
  /\ pipe \in Pipelines
  /\ phase = "config"
  /\ args = {}
  /\ pc = 1
  /\ outputs = NoOutputs
  /\ item = NoItems
  /\ why = ""
  /\ answer = Unresolved

Load ==
  /\ phase = "config"
  /\ phase' = IF Accepted(pipe) THEN "ready" ELSE "rejected"
  /\ UNCHANGED <<pipe, args, pc, outputs, item, why, answer>>

applyDefaults(given) == given \cup Defaults

\* Mutant: the context is kept with the handler.
SharedContext == outputs

\* Every call gets a context of its own.
NewContext == NoOutputs

Invoke ==
  /\ phase \in {"ready", "answered", "failed"}
  /\ phase' = "running"
  /\ \E given \in SUBSET Fields : args' = applyDefaults(given)
  /\ pc' = 1
  /\ outputs' = NewContext
  /\ item' = NoItems
  /\ why' = ""
  /\ answer' = Unresolved
  /\ UNCHANGED pipe

(***************************************************************************)
(* The steps of the pipeline.                                              *)
(***************************************************************************)
Current == pipe[pc]

AtStep(kinds) == phase = "running" /\ pc <= Len(pipe) /\ Current.kind \in kinds

\* Elements of the current foreach have been started.
InForeach == AtStep({"foreach"}) /\ \E i \in Items : item[i].st # "idle"

Resolvable == \A r \in Current.refs : resolveDollarPath(r, 0, "", outputs) # Unresolved

\* Mutant: the reason is not passed on.
FailSilently(reason) ==
  /\ phase' = "failed"
  /\ UNCHANGED <<pipe, args, pc, outputs, item, why, answer>>

Fail(reason) ==
  /\ phase' = "failed"
  /\ why' = reason
  /\ UNCHANGED <<pipe, args, pc, outputs, item, answer>>

\* With onMissing: skip a foreach takes what it cannot iterate for an empty list.
Skips == Current.kind = "foreach" /\ Current.skip

StepUnresolved ==
  /\ AtStep(Kinds) /\ ~InForeach
  /\ ~Resolvable /\ ~Skips
  /\ Fail("unresolved")

\* A tool call, a request, a jq program or the decoding of a response fails;
\* a foreach is given something that is not a list.
StepFails ==
  /\ AtStep(Kinds) /\ ~InForeach
  /\ Resolvable /\ ~Skips
  /\ Fail("step")

\* The result is checked, stored under the step's id, and a return ends the call.
Finish(v) ==
  IF checkRequire(Current, v)
    THEN /\ outputs' = Bind(outputs, Current.id, v)
         /\ IF Current.kind = "return"
              THEN phase' = "answered" /\ answer' = v.src /\ pc' = pc
              ELSE phase' = phase /\ answer' = answer /\ pc' = pc + 1
         /\ UNCHANGED <<pipe, args, why>>
    ELSE /\ phase' = "failed"
         /\ why' = "require"
         /\ UNCHANGED <<pipe, args, pc, outputs, answer>>

StepSucceeds ==
  /\ AtStep(Kinds \ {"foreach"})
  /\ Resolvable
  /\ \E v \in Produces(Current, <<"step", pc>>) : Finish(v)
  /\ UNCHANGED item

NoReturn == phase = "running" /\ pc > Len(pipe) /\ Fail("noReturn")

(***************************************************************************)
(* The elements of a foreach.                                              *)
(***************************************************************************)
\* Mutant: an element starts without the outputs so far.
EmptyItem(i) == [Idle EXCEPT !.st = "running"]

\* Outputs are copied, so that the elements do not see each other's.
WithItem(i) == [Idle EXCEPT !.st = "running", !.out = outputs]

EnterForeach ==
  /\ AtStep({"foreach"})
  /\ ~InForeach
  /\ Resolvable
  /\ \E n \in Items :
       item' = [i \in Items |-> IF i <= n THEN WithItem(i) ELSE Idle]
  /\ UNCHANGED <<pipe, phase, args, pc, outputs, why, answer>>

ListOf(size) == [src |-> <<"step", pc>>, size |-> size, form |-> "data"]

EmptyList ==
  /\ AtStep({"foreach"})
  /\ ~InForeach
  /\ Resolvable \/ Skips
  /\ Finish(ListOf("empty"))
  /\ UNCHANGED item

SubStep(i) == Current.body[item[i].pc]

SubResolvable(i) ==
  \A r \in SubStep(i).refs :
    resolveDollarPath(r, i, Current.as, item[i].out) # Unresolved

ItemRuns(i) == InForeach /\ item[i].st = "running"

\* Mutant: the elements share one map of outputs.
ItemShares(i, rec) ==
  /\ item' = [k \in Items |->
                IF k = i THEN rec
                ELSE IF item[k].st = "running" THEN [item[k] EXCEPT !.out = rec.out]
                ELSE item[k]]
  /\ UNCHANGED <<pipe, phase, args, pc, outputs, why, answer>>

ItemChange(i, rec) ==
  /\ item' = [item EXCEPT ![i] = rec]
  /\ UNCHANGED <<pipe, phase, args, pc, outputs, why, answer>>

\* The sub-step's references, or the sub-step itself, fail.
ItemFails(i) ==
  /\ ItemRuns(i)
  /\ \E reason \in IF SubResolvable(i) THEN {"step"} ELSE {"unresolved"} :
       ItemChange(i, [item[i] EXCEPT !.st = "failed", !.why = reason])

\* Its value is stored without a look at its require; the first emit ends the
\* element, running off the end of the sub-pipeline is an error.
ItemSucceeds(i) ==
  /\ ItemRuns(i)
  /\ SubResolvable(i)
  /\ \E v \in Produces(SubStep(i), <<"sub", i, item[i].pc>>) :
       LET stored == [item[i] EXCEPT !.out = Bind(item[i].out, SubStep(i).id, v)]
       IN  ItemChange(i,
             IF SubStep(i).kind = "emit"
               THEN [stored EXCEPT !.st = "emitted"]
             ELSE IF item[i].pc = Len(Current.body)
               THEN [stored EXCEPT !.st = "failed", !.why = "noEmit"]
             ELSE [stored EXCEPT !.pc = item[i].pc + 1])

\* Mutant: the caller counts values instead of goroutines.
AllEmitted == \A i \in Items : item[i].st \in {"idle", "emitted"}

Settled == \A i \in Items : item[i].st # "running"

ForeachFails ==
  /\ InForeach /\ Settled
  /\ \E i \in Items : item[i].st = "failed" /\ Fail(item[i].why)

\* Elements that emitted nil are left out of the list.
Emitted == {i \in Items : item[i].st = "emitted"
                          /\ item[i].out[SubStep(i).id].size # "nil"}

ForeachSucceeds ==
  /\ InForeach /\ Settled
  /\ \A i \in Items : item[i].st # "failed"
  /\ Finish(ListOf(IF Emitted = {} THEN "empty" ELSE "full"))
  /\ item' = NoItems

Next ==
  \/ Load \/ Invoke
  \/ StepUnresolved \/ StepFails \/ StepSucceeds \/ NoReturn
  \/ EnterForeach \/ EmptyList \/ ForeachFails \/ ForeachSucceeds
  \/ \E i \in Items : ItemFails(i) \/ ItemSucceeds(i)

\* Steps, goroutines and upstream calls come to an end; nobody has to call.
Fairness ==
  /\ WF_vars(StepUnresolved \/ StepFails \/ StepSucceeds \/ NoReturn)
  /\ WF_vars(EnterForeach \/ EmptyList \/ ForeachFails \/ ForeachSucceeds)
  /\ \A i \in Items : WF_vars(ItemFails(i) \/ ItemSucceeds(i))

Spec == Init /\ [][Next]_vars

FairSpec == Spec /\ Fairness

-----------------------------------------------------------------------------
Reasons == {"unresolved", "step", "require", "noReturn", "noEmit"}

\* Where the values of one execution come from.
Source == {<<"step", k>> : k \in 1 .. Len(pipe)}

TypeOK ==
  /\ pipe \in Pipelines
  /\ phase \in {"config", "rejected", "ready", "running", "answered", "failed"}
  /\ args \subseteq Fields
  /\ pc \in 1 .. Len(pipe) + 1
  /\ DOMAIN outputs \subseteq Ids(pipe)
  /\ \A r \in DOMAIN outputs : outputs[r].src \in Source
  /\ \A i \in Items : item[i].st \in {"idle", "running", "emitted", "failed"}
  /\ why \in Reasons \cup {""}
  /\ phase = "failed" <=> why # ""
  /\ answer \in Source \cup {Unresolved}

\* A step sees the results of the steps before it in this call, each under its
\* own id, and nothing of an earlier call or of a foreach's sub-steps.
OutputsAreEarlierSteps ==
  phase = "running" =>
    /\ DOMAIN outputs = {pipe[k].id : k \in 1 .. pc - 1}
    /\ \A k \in 1 .. pc - 1 : outputs[pipe[k].id].src = <<"step", k>>

\* Elements of a foreach run side by side and never see each other's values: a
\* name in an element's context is bound by that element's own sub-pipeline or
\* by a step before the foreach (context.go:32-33).
ItemsAreIsolated ==
  \A i \in Items : phase = "running" /\ item[i].st # "idle" =>
    \A r \in DOMAIN item[i].out :
      \/ \E j \in 1 .. item[i].pc :
           Current.body[j].id = r /\ item[i].out[r].src = <<"sub", i, j>>
      \/ r \in DOMAIN outputs /\ item[i].out[r].src = outputs[r].src

\* Whatever a step or an element finds under a name was stored for it: by this
\* call, and not by another element.
ContextsAreIsolated == OutputsAreEarlierSteps /\ ItemsAreIsolated

\* References to the input, to earlier steps and, inside a foreach, to its
\* element and to earlier sub-steps.
Before(steps, k) == {steps[j].id : j \in 1 .. k - 1}

Backward(steps) ==
  \A k \in DOMAIN steps :
    LET above == {"input"} \cup Before(steps, k)
        body  == steps[k].body
    IN  /\ steps[k].refs \subseteq above
        /\ \A j \in DOMAIN body :
             body[j].refs \subseteq above \cup {steps[k].as} \cup Before(body, j)

\* What the validator admits runs: a registered tool whose references all point
\* backwards never fails for want of a value, at the top level or inside a
\* foreach, and none runs off the end of a sub-pipeline without an emit
\* (validator.go:105, foreach.go:192).
AdmittedToolsRun ==
  /\ why = "unresolved" => ~Backward(pipe)
  /\ why # "noEmit"

\* The answer is the value of the first return, every step up to it ran, and
\* what they were required to give they gave.
AnswerIsEarned ==
  phase = "answered" =>
    /\ answer = <<"step", pc>>
    /\ \A k \in 1 .. pc : pipe[k].kind = "return" <=> k = pc
    /\ \A k \in 1 .. pc : pipe[k].require => outputs[pipe[k].id].size = "full"

\* Whatever fails, the caller gets an answer or an error.
CallsEnd == phase = "running" ~> phase \in {"answered", "failed"}

(***************************************************************************)
(* What the repository says of pipelines, and the code does not keep.      *)
(***************************************************************************)
\* types.go:45: require is "post-execution validation on a step's result".
RequireHoldsInside ==
  \A i \in Items : item[i].st = "emitted" =>
    \A j \in 1 .. item[i].pc :
      Current.body[j].require => item[i].out[Current.body[j].id].size = "full"
=============================================================================
