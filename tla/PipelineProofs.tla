--------------------------- MODULE PipelineProofs ---------------------------
(***************************************************************************)
(* Safety of virtual tools, for every set of pipelines, of any length, and *)
(* lists of any length.                                                    *)
(***************************************************************************)
EXTENDS Pipeline, FiniteSetTheorems, TLAPS

-----------------------------------------------------------------------------
(* The inductive invariant.                                                 *)

\* Only pipelines that were admitted are run.
Admitted == phase \notin {"config", "rejected"} => Accepted(pipe)

\* The record of an element.
Element(st, k, out, reason) == [st |-> st, pc |-> k, out |-> out, why |-> reason]

Elements ==
  /\ item = [i \in Items |-> item[i]]
  /\ \A i \in Items :
       item[i] = Element(item[i].st, item[i].pc, item[i].out, item[i].why)

\* No step so far was a return, and each gave what it was required to give.
StepsDone ==
  phase = "running" =>
    \A k \in 1 .. pc - 1 :
      /\ pipe[k].kind # "return"
      /\ pipe[k].require => outputs[pipe[k].id].size = "full"

\* Elements are those of the current step, a foreach.
ElementsAreCurrent ==
  \A i \in Items : phase = "running" /\ item[i].st # "idle" =>
    pc <= Len(pipe) /\ Current.kind = "foreach"

\* An element has met no emit yet, and while it runs its context has what the
\* call and its own sub-steps have given so far.
ElementProgress ==
  \A i \in Items : phase = "running" /\ item[i].st # "idle" =>
    /\ item[i].pc \in 1 .. Len(Current.body)
    /\ \A j \in 1 .. item[i].pc - 1 : Current.body[j].kind # "emit"
    /\ item[i].st = "running" =>
         DOMAIN outputs \cup Before(Current.body, item[i].pc) \subseteq DOMAIN item[i].out
    /\ item[i].st = "failed" =>
         /\ item[i].why \in {"step", "unresolved"}
         /\ item[i].why = "unresolved" => ~Backward(pipe)

IInv ==
  /\ TypeOK /\ Admitted /\ Elements /\ StepsDone
  /\ ElementsAreCurrent /\ ElementProgress
  /\ ContextsAreIsolated /\ AdmittedToolsRun /\ AnswerIsEarned

-----------------------------------------------------------------------------
(* Lists and names.                                                         *)

LEMMA ListFacts ==
  ASSUME NEW s, IsList(s)
  PROVE  Len(s) \in Nat /\ DOMAIN s = 1 .. Len(s)
BY DEF IsList

\* The pipeline and its sub-pipelines are lists.
LEMMA PipeFacts ==
  ASSUME TypeOK
  PROVE  /\ IsList(pipe) /\ Len(pipe) \in Nat /\ DOMAIN pipe = 1 .. Len(pipe)
         /\ \A k \in 1 .. Len(pipe) : IsList(pipe[k].body)
         /\ Items = 1 .. MaxItems /\ MaxItems \in Nat
         /\ pc \in Nat /\ pc \in 1 .. Len(pipe) + 1
<1>1. pipe \in Pipelines /\ pc \in 1 .. Len(pipe) + 1
  BY DEF TypeOK
<1>2. IsList(pipe) /\ \A k \in DOMAIN pipe : IsList(pipe[k].body)
  BY <1>1, PipelineAssumption
<1>3. Len(pipe) \in Nat /\ DOMAIN pipe = 1 .. Len(pipe)
  BY <1>2, ListFacts
<1>. QED
  BY <1>1, <1>2, <1>3, PipelineAssumption DEF Items

\* The positions of a list are as many as it is long.
LEMMA IntervalSize ==
  ASSUME NEW n \in Nat PROVE IsFiniteSet(1 .. n) /\ Cardinality(1 .. n) = n
<1>1. /\ IsFiniteSet(1 .. n)
      /\ Cardinality(1 .. n) = IF 1 > n THEN 0 ELSE n - 1 + 1
  BY FS_Interval
<1>. QED
  BY <1>1

\* Where there are as many ids as steps, no two steps have one.
LEMMA IdsDiffer ==
  ASSUME NEW steps, IsList(steps), UniqueIds(steps),
         NEW j \in DOMAIN steps, NEW k \in DOMAIN steps, steps[j].id = steps[k].id
  PROVE  j = k
<1>. DEFINE n == Len(steps)
            f == [m \in 1 .. n |-> steps[m].id]
<1>1. n \in Nat /\ DOMAIN steps = 1 .. n
  BY ListFacts
<1>2. IsFiniteSet(1 .. n) /\ Cardinality(1 .. n) = n
  BY <1>1, IntervalSize
<1>3. f \in Surjection(1 .. n, Ids(steps))
  BY <1>1 DEF Ids, Surjection
<1>4. f \in Injection(1 .. n, Ids(steps))
  BY <1>2, <1>3, FS_Surjection DEF UniqueIds
<1>5. \A l, m \in 1 .. n : f[l] = f[m] => l = m
  BY <1>4 DEF Injection, IsInjective
<1>. QED
  BY <1>1, <1>5

\* Where every reference points backwards, a top-level step finds what it names.
LEMMA BackwardResolves ==
  ASSUME IInv, phase = "running", pc <= Len(pipe), Backward(pipe) PROVE Resolvable
<1>. USE DEF IInv
<1>1. pc \in DOMAIN pipe /\ pc \in Nat
  BY PipeFacts
<1>2. Current.refs \subseteq {"input"} \cup Before(pipe, pc)
  BY <1>1 DEF Backward, Current
<1>3. DOMAIN outputs = Before(pipe, pc) /\ \A r \in DOMAIN outputs : outputs[r].src \in Source
  BY DEF ContextsAreIsolated, OutputsAreEarlierSteps, Before, TypeOK
<1>4. \A s \in Source \cup {<<"args">>} : s # Unresolved
  BY DEF Source, Unresolved
<1>. QED
  BY <1>2, <1>3, <1>4 DEF Resolvable, resolveDollarPath

\* So does a sub-step.
LEMMA BackwardSubResolves ==
  ASSUME IInv, NEW i \in Items, ItemRuns(i), Backward(pipe) PROVE SubResolvable(i)
<1>. USE DEF IInv
<1>. DEFINE body == Current.body
            out == item[i].out
<1>1. phase = "running" /\ pc <= Len(pipe) /\ item[i].st = "running"
  BY DEF ItemRuns, InForeach, AtStep
<1>2. pc \in DOMAIN pipe /\ pc \in Nat /\ IsList(body) /\ i # 0
  BY <1>1, PipeFacts DEF Current
<1>3. item[i].pc \in DOMAIN body
  BY <1>1, <1>2, ListFacts DEF ElementProgress
<1>4. SubStep(i).refs \subseteq {"input", Current.as} \cup Before(pipe, pc) \cup Before(body, item[i].pc)
  BY <1>2, <1>3 DEF Backward, Current, SubStep
<1>5. Before(pipe, pc) \cup Before(body, item[i].pc) \subseteq DOMAIN out
  BY <1>1 DEF ElementProgress, ContextsAreIsolated, OutputsAreEarlierSteps, Before
<1>6. \A r \in DOMAIN out : out[r].src # Unresolved
  <2>1. ASSUME NEW r \in DOMAIN out
        PROVE  \/ \E j : out[r].src = <<"sub", i, j>>
               \/ out[r].src \in Source
    BY <1>1 DEF ContextsAreIsolated, ItemsAreIsolated, TypeOK
  <2>. QED
    BY <2>1 DEF Source, Unresolved
<1>7. <<"args">> # Unresolved /\ <<"item", i>> # Unresolved
  BY DEF Unresolved
<1>. QED
  BY <1>2, <1>4, <1>5, <1>6, <1>7 DEF SubResolvable, resolveDollarPath

-----------------------------------------------------------------------------
(* The steps.                                                               *)

LEMMA IdleFacts ==
  /\ Idle.st = "idle" /\ Idle.pc = 1 /\ Idle.out = NoOutputs /\ Idle.why = ""
  /\ Idle = Element("idle", 1, NoOutputs, "")
BY DEF Idle, Element

LEMMA InitEstablishes == Init => IInv
<1> SUFFICES ASSUME Init PROVE IInv
  OBVIOUS
<1>1. \A i \in Items : item[i] = Idle
  BY DEF Init, NoItems
<1>2. pipe \in Pipelines /\ Len(pipe) \in Nat
  BY PipelineAssumption, ListFacts DEF Init
<1>3. TypeOK
  <2>1. DOMAIN outputs = {}
    BY DEF Init, NoOutputs
  <2>2. \A i \in Items : item[i].st = "idle"
    BY <1>1, IdleFacts
  <2>3. phase = "config" /\ why = "" /\ answer = Unresolved /\ pc = 1 /\ args = {}
    BY DEF Init
  <2>4. pc \in 1 .. Len(pipe) + 1
    <3>1. pc = 1
      BY <2>3
    <3>2. Len(pipe) \in Nat
      BY <1>2
    <3>. QED
      BY <3>1, <3>2
  <2>. QED
    BY <1>2, <2>1, <2>2, <2>3, <2>4 DEF TypeOK
<1>4. Elements
  BY <1>1, IdleFacts DEF Init, Elements, NoItems
<1>5. Admitted /\ StepsDone /\ ElementsAreCurrent /\ ElementProgress
  BY DEF Init, Admitted, StepsDone, ElementsAreCurrent, ElementProgress
<1>6. ContextsAreIsolated /\ AdmittedToolsRun /\ AnswerIsEarned
  BY DEF Init, ContextsAreIsolated, OutputsAreEarlierSteps, ItemsAreIsolated, AdmittedToolsRun,
     AnswerIsEarned
<1>. QED
  BY <1>3, <1>4, <1>5, <1>6 DEF IInv

\* Loading decides once and for all whether the pipeline is run.
LEMMA LoadKeeps == ASSUME IInv, Load PROVE IInv'
<1>. USE DEF IInv, Load
<1>1. TypeOK' /\ Elements' /\ Admitted'
  BY DEF TypeOK, Elements, Admitted, Source
<1>2. phase' # "running" /\ phase' # "answered"
  OBVIOUS
<1>3. StepsDone' /\ ElementsAreCurrent' /\ ElementProgress' /\ ContextsAreIsolated' /\ AnswerIsEarned'
  BY <1>2 DEF StepsDone, ElementsAreCurrent, ElementProgress, ContextsAreIsolated,
     OutputsAreEarlierSteps, ItemsAreIsolated, AnswerIsEarned
<1>4. AdmittedToolsRun'
  BY DEF AdmittedToolsRun, Backward, Before
<1>. QED
  BY <1>1, <1>3, <1>4

\* A call starts with nothing of the one before.
LEMMA InvokeKeeps == ASSUME IInv, Invoke PROVE IInv'
<1>1. /\ pc' = 1 /\ pipe' = pipe /\ why' = "" /\ phase' = "running" /\ answer' = Unresolved
      /\ outputs' = NoOutputs /\ item' = NoItems
  BY DEF Invoke, NewContext
<1>2. args' \subseteq Fields
  BY PipelineAssumption DEF Invoke, applyDefaults
<1>3. phase \notin {"config", "rejected"} /\ phase # "failed" => why = ""
  BY DEF Invoke, IInv, TypeOK
<1>4. DOMAIN outputs' = {}
  BY <1>1 DEF NoOutputs
<1>5. \A i \in Items : item'[i] = Idle
  BY <1>1 DEF NoItems
<1>6. \A i \in Items : item'[i].st = "idle"
  BY <1>5, IdleFacts
<1>7. TypeOK'
  <2>1. TypeOK /\ pipe \in Pipelines
    BY DEF IInv, TypeOK
  <2>3. 1 \in 1 .. Len(pipe) + 1
    BY <2>1, PipeFacts
  <2>. QED
    BY <1>1, <1>2, <1>4, <1>6, <2>1, <2>3 DEF TypeOK
<1>8. Elements'
  BY <1>1, <1>5, IdleFacts DEF Elements, NoItems
<1>9. Admitted'
  BY <1>1, <1>3 DEF IInv, Invoke, Admitted, Accepted, Validate, ValidateReferences
<1>10. StepsDone' /\ AdmittedToolsRun' /\ AnswerIsEarned' /\ OutputsAreEarlierSteps'
  <2>1. \A k : k \notin 1 .. pc' - 1
    <3>1. pc' = 1
      BY Zenon, <1>1
    <3>. QED
      BY <3>1
  <2>2. AdmittedToolsRun' /\ AnswerIsEarned'
    BY <1>1 DEF AdmittedToolsRun, AnswerIsEarned
  <2>3. StepsDone' /\ OutputsAreEarlierSteps'
    BY Zenon, <1>4, <2>1 DEF StepsDone, OutputsAreEarlierSteps
  <2>. QED
    BY <2>2, <2>3
<1>11. ElementsAreCurrent' /\ ElementProgress' /\ ItemsAreIsolated'
  BY <1>6 DEF ElementsAreCurrent, ElementProgress, ItemsAreIsolated
<1>. QED
  BY <1>7, <1>8, <1>9, <1>10, <1>11 DEF IInv, ContextsAreIsolated

\* A call that fails says why.
LEMMA FailKeeps ==
  ASSUME IInv, phase = "running", NEW reason \in Reasons \ {"noEmit"}, Fail(reason),
         reason = "unresolved" => ~Backward(pipe)
  PROVE  IInv'
<1>. USE DEF IInv, Fail
<1>1. reason # "" /\ why' = reason /\ phase' = "failed" /\ UNCHANGED <<pipe, args, pc, outputs, item, answer>>
  BY DEF Reasons
<1>2. TypeOK' /\ Elements' /\ Admitted'
  BY <1>1 DEF TypeOK, Elements, Admitted, Source
<1>3. StepsDone' /\ ElementsAreCurrent' /\ ElementProgress' /\ ContextsAreIsolated' /\ AnswerIsEarned'
  BY <1>1 DEF StepsDone, ElementsAreCurrent, ElementProgress, ContextsAreIsolated,
     OutputsAreEarlierSteps, ItemsAreIsolated, AnswerIsEarned
<1>4. AdmittedToolsRun'
  <2>1. Backward(pipe)' <=> Backward(pipe)
    BY <1>1
  <2>. QED
    BY <1>1, <2>1 DEF AdmittedToolsRun
<1>. QED
  BY <1>2, <1>3, <1>4

\* A step that has given its value is the last one done, under an id that no
\* step before it has.
LEMMA FinishKeeps ==
  ASSUME IInv, phase = "running", pc <= Len(pipe), NEW v, v.src = <<"step", pc>>, Finish(v),
         item' = NoItems \/ (item' = item /\ \A i \in Items : item[i].st = "idle")
  PROVE  IInv'
<1>. USE DEF IInv
<1>0. pc \in Nat /\ pc \in DOMAIN pipe /\ pc \in 1 .. Len(pipe) /\ Len(pipe) \in Nat /\ IsList(pipe)
      /\ DOMAIN pipe = 1 .. Len(pipe)
  BY PipeFacts
<1>1. \A i \in Items : item'[i].st = "idle"
  BY IdleFacts DEF NoItems
<1>5. Elements'
  <2>1. CASE item' = NoItems
    BY <2>1, IdleFacts DEF Elements, NoItems
  <2>2. CASE item' = item
    BY <2>2 DEF Elements
  <2>. QED
    BY <2>1, <2>2
<1>2. ElementsAreCurrent' /\ ElementProgress' /\ ItemsAreIsolated'
  BY <1>1 DEF ElementsAreCurrent, ElementProgress, ItemsAreIsolated
<1>3. CASE checkRequire(Current, v)
  <2>1. /\ outputs' = Bind(outputs, Current.id, v)
        /\ UNCHANGED <<pipe, args, why>>
        /\ \/ Current.kind = "return" /\ phase' = "answered" /\ answer' = v.src /\ pc' = pc
           \/ Current.kind # "return" /\ phase' = phase /\ answer' = answer /\ pc' = pc + 1
    BY <1>3 DEF Finish
  <2>2. \A k \in 1 .. pc - 1 : pipe[k].id # Current.id
    BY <1>0, IdsDiffer DEF Admitted, Accepted, Validate, Current
  <2>3. /\ DOMAIN outputs = {pipe[k].id : k \in 1 .. pc - 1}
        /\ \A k \in 1 .. pc - 1 : outputs[pipe[k].id].src = <<"step", k>>
    BY DEF ContextsAreIsolated, OutputsAreEarlierSteps
  <2>4. /\ DOMAIN outputs' = {pipe[k].id : k \in 1 .. pc}
        /\ outputs'[pipe[pc].id] = v
        /\ \A k \in 1 .. pc - 1 : outputs'[pipe[k].id] = outputs[pipe[k].id]
    <3>1. /\ DOMAIN outputs' = DOMAIN outputs \cup {pipe[pc].id}
          /\ outputs'[pipe[pc].id] = v
          /\ \A r \in DOMAIN outputs \ {pipe[pc].id} : outputs'[r] = outputs[r]
      <4>1. outputs' = Bind(outputs, pipe[pc].id, v)
        BY Zenon, <2>1 DEF Current
      <4>. QED
        BY <4>1 DEF Bind
    <3>2. 1 .. pc = (1 .. pc - 1) \cup {pc}
      BY <1>0
    <3>3. \A k \in 1 .. pc - 1 : pipe[k].id \in DOMAIN outputs \ {pipe[pc].id}
      BY <2>2, <2>3 DEF Current
    <3>4. DOMAIN outputs' = {pipe[k].id : k \in 1 .. pc}
      BY <2>3, <3>1, <3>2
    <3>. QED
      BY <3>1, <3>3, <3>4
  <2>5. /\ \A k \in 1 .. pc : outputs'[pipe[k].id].src = <<"step", k>>
        /\ \A k \in 1 .. pc : pipe[k].require => outputs'[pipe[k].id].size = "full"
    <3>1. \A k \in 1 .. pc : k = pc \/ k \in 1 .. pc - 1
      BY <1>0
    <3>2. pipe[pc].require => v.size = "full"
      BY <1>3 DEF checkRequire, Current
    <3>3. \A k \in 1 .. pc - 1 : pipe[k].require => outputs[pipe[k].id].size = "full"
      BY DEF StepsDone
    <3>. QED
      BY <2>3, <2>4, <3>1, <3>2, <3>3
  <2>6. TypeOK'
    <3>0. \A k \in 1 .. pc : k \in DOMAIN pipe /\ <<"step", k>> \in Source
      BY <1>0 DEF Source
    <3>1. \A r \in DOMAIN outputs' : r \in Ids(pipe) /\ outputs'[r].src \in Source
      BY <2>4, <2>5, <3>0 DEF Ids
    <3>2. answer' \in Source \cup {Unresolved}
      <4>1. <<"step", pc>> \in Source /\ answer \in Source \cup {Unresolved}
        <5>1. pc \in 1 .. pc
          BY <1>0
        <5>. QED
          BY Zenon, <3>0, <5>1 DEF TypeOK
      <4>. QED
        BY Zenon, <2>1, <4>1
    <3>4. pc' \in 1 .. Len(pipe) + 1
      BY <1>0, <2>1
    <3>3. why = "" /\ why' = "" /\ phase' \in {"running", "answered"}
      BY <2>1 DEF TypeOK
    <3>. QED
      BY <1>1, <2>1, <3>1, <3>2, <3>3, <3>4 DEF TypeOK, Source
  <2>7. OutputsAreEarlierSteps' /\ StepsDone'
    <3>1. CASE Current.kind = "return"
      BY <2>1, <3>1 DEF OutputsAreEarlierSteps, StepsDone
    <3>2. CASE Current.kind # "return"
      BY <1>0, <2>1, <2>4, <2>5, <3>2 DEF OutputsAreEarlierSteps, StepsDone, Current
    <3>. QED
      BY <3>1, <3>2
  <2>8. AnswerIsEarned'
    <3>1. CASE Current.kind # "return"
      BY <2>1, <3>1 DEF AnswerIsEarned
    <3>2. CASE Current.kind = "return"
      <4>1. \A k \in 1 .. pc : pipe[k].kind = "return" <=> k = pc
        BY <1>0, <3>2 DEF StepsDone, Current
      <4>. QED
        BY <2>1, <2>5, <3>2, <4>1 DEF AnswerIsEarned
    <3>. QED
      BY <3>1, <3>2
  <2>9. Admitted' /\ AdmittedToolsRun'
    BY <2>1 DEF Admitted, AdmittedToolsRun, Backward, Before
  <2>. QED
    BY <1>2, <1>5, <2>6, <2>7, <2>8, <2>9 DEF ContextsAreIsolated
<1>4. CASE ~checkRequire(Current, v)
  <2>1. phase' = "failed" /\ why' = "require" /\ UNCHANGED <<pipe, args, pc, outputs, answer>>
    BY <1>4 DEF Finish
  <2>2. TypeOK' /\ Admitted'
    BY <1>1, <2>1 DEF TypeOK, Admitted, Source, Reasons
  <2>3. OutputsAreEarlierSteps' /\ StepsDone' /\ AnswerIsEarned' /\ AdmittedToolsRun'
    BY <2>1 DEF OutputsAreEarlierSteps, StepsDone, AnswerIsEarned, AdmittedToolsRun
  <2>. QED
    BY <1>2, <1>5, <2>2, <2>3 DEF ContextsAreIsolated
<1>. QED
  BY <1>3, <1>4

\* Sub-pipelines that were admitted are not empty and have an emit.
LEMMA BodyFacts ==
  ASSUME IInv, phase = "running", pc <= Len(pipe), Current.kind = "foreach"
  PROVE  /\ Len(Current.body) \in Nat \ {0} /\ DOMAIN Current.body = 1 .. Len(Current.body)
         /\ hasEmit(Current.body)
<1>1. TypeOK /\ Admitted
  BY DEF IInv
<1>2. pc \in DOMAIN pipe /\ IsList(Current.body)
  BY <1>1, PipeFacts DEF Current
<1>3. validateStep(Current)
  BY <1>1, <1>2 DEF Admitted, Accepted, Validate, Current
<1>4. hasEmit(Current.body)
  BY <1>3 DEF validateStep, validateForeachPipeline
<1>5. Len(Current.body) \in Nat /\ DOMAIN Current.body = 1 .. Len(Current.body)
  BY <1>2, ListFacts
<1>6. DOMAIN Current.body # {}
  BY <1>4 DEF hasEmit
<1>. QED
  BY <1>4, <1>5, <1>6

\* Elements start from the outputs of the steps before the foreach.
LEMMA EnterKeeps == ASSUME IInv, EnterForeach PROVE IInv'
<1>1. /\ phase = "running" /\ pc <= Len(pipe) /\ Current.kind = "foreach"
      /\ UNCHANGED <<pipe, phase, args, pc, outputs, why, answer>>
  BY DEF EnterForeach, AtStep
<1>2. PICK n \in Items : item' = [i \in Items |-> IF i <= n THEN WithItem(i) ELSE Idle]
  BY DEF EnterForeach
<1>3. ASSUME NEW i \in Items
      PROVE  /\ WithItem(i).st = "running" /\ WithItem(i).pc = 1
             /\ WithItem(i).out = outputs /\ WithItem(i).why = ""
             /\ WithItem(i) = Element("running", 1, outputs, "")
  <2>. DEFINE r == Idle
  <2>1. r \in [st : {"idle"}, pc : {1}, out : {NoOutputs}, why : {""}]
    BY DEF Idle
  <2>. HIDE DEF r
  <2>2. /\ WithItem(i).st = "running" /\ WithItem(i).pc = 1
        /\ WithItem(i).out = outputs /\ WithItem(i).why = ""
        /\ WithItem(i) \in [st : {"running"}, pc : {1}, out : {outputs}, why : {""}]
    BY <2>1 DEF WithItem, r
  <2>. QED
    BY <2>2 DEF Element
<1>4. \A i \in Items : item'[i] = WithItem(i) \/ item'[i] = Idle
  BY <1>2
<1>5. \A i \in Items :
        \/ item'[i].st = "idle"
        \/ item'[i].st = "running" /\ item'[i].pc = 1 /\ item'[i].out = outputs
  BY <1>3, <1>4, IdleFacts
<1>6. Elements'
  <2>1. \A i \in Items :
          item'[i] = Element(item'[i].st, item'[i].pc, item'[i].out, item'[i].why)
    BY Zenon, <1>3, <1>4, IdleFacts
  <2>2. item' = [i \in Items |-> item'[i]]
    BY <1>2
  <2>. QED
    BY <2>1, <2>2 DEF Elements
<1>7. TypeOK'
  BY <1>1, <1>5 DEF IInv, TypeOK, Source
<1>8. Admitted' /\ StepsDone' /\ AdmittedToolsRun' /\ AnswerIsEarned' /\ OutputsAreEarlierSteps'
  <2>1. (Accepted(pipe)' <=> Accepted(pipe)) /\ (Backward(pipe)' <=> Backward(pipe))
    BY <1>1
  <2>. QED
    BY <1>1, <2>1 DEF IInv, Admitted, StepsDone, AdmittedToolsRun, AnswerIsEarned,
       ContextsAreIsolated, OutputsAreEarlierSteps
<1>9. ElementsAreCurrent'
  BY <1>1 DEF ElementsAreCurrent, Current
<1>10. ElementProgress'
  <2>1. 1 \in 1 .. Len(Current.body) /\ \A j : j \notin 1 .. 1 - 1
    BY <1>1, BodyFacts
  <2>2. Before(Current.body, 1) = {}
    BY <2>1 DEF Before
  <2>3. Current' = Current
    BY <1>1 DEF Current
  <2>. QED
    BY <1>1, <1>5, <2>1, <2>2, <2>3 DEF ElementProgress, Before
<1>11. ItemsAreIsolated'
  BY <1>1, <1>5 DEF ItemsAreIsolated
<1>. QED
  BY <1>6, <1>7, <1>8, <1>9, <1>10, <1>11 DEF IInv, ContextsAreIsolated

\* An element's step touches its own record only.
LEMMA ElementFrame ==
  ASSUME IInv, NEW i \in Items, ItemRuns(i), NEW rec, ItemChange(i, rec),
         rec = Element(rec.st, rec.pc, rec.out, rec.why),
         rec.st \in {"running", "emitted", "failed"},
         rec.pc \in 1 .. Len(Current.body),
         \A j \in 1 .. rec.pc - 1 : Current.body[j].kind # "emit",
         rec.st = "running" =>
           DOMAIN outputs \cup Before(Current.body, rec.pc) \subseteq DOMAIN rec.out,
         rec.st = "failed" =>
           /\ rec.why \in {"step", "unresolved"}
           /\ rec.why = "unresolved" => ~Backward(pipe),
         \A r \in DOMAIN rec.out :
           \/ \E j \in 1 .. rec.pc :
                Current.body[j].id = r /\ rec.out[r].src = <<"sub", i, j>>
           \/ r \in DOMAIN outputs /\ rec.out[r].src = outputs[r].src
  PROVE  IInv'
<1>1. /\ phase = "running" /\ pc <= Len(pipe) /\ Current.kind = "foreach"
      /\ UNCHANGED <<pipe, phase, args, pc, outputs, why, answer>>
      /\ item' = [item EXCEPT ![i] = rec]
  BY DEF ItemRuns, InForeach, AtStep, ItemChange
<1>2. /\ item' = [k \in Items |-> item'[k]] /\ item'[i] = rec
      /\ \A k \in Items \ {i} : item'[k] = item[k]
  BY <1>1 DEF IInv, Elements
<1>3. Current' = Current /\ (Accepted(pipe)' <=> Accepted(pipe)) /\ (Backward(pipe)' <=> Backward(pipe))
  BY <1>1 DEF Current
<1>4. Elements'
  BY <1>2 DEF IInv, Elements
<1>5. TypeOK'
  BY <1>1, <1>2 DEF IInv, TypeOK, Source
<1>6. Admitted' /\ StepsDone' /\ AdmittedToolsRun' /\ AnswerIsEarned' /\ OutputsAreEarlierSteps'
  BY <1>1, <1>3 DEF IInv, Admitted, StepsDone, AdmittedToolsRun, AnswerIsEarned,
     ContextsAreIsolated, OutputsAreEarlierSteps
<1>7. ElementsAreCurrent'
  BY <1>1, <1>3 DEF ElementsAreCurrent
<1>8. ElementProgress'
  <2>1. \A k : Before(Current.body, k)' = Before(Current.body, k)
    BY <1>3 DEF Before
  <2>. QED
    BY <1>1, <1>2, <1>3, <2>1 DEF IInv, ElementProgress, Before
<1>9. ItemsAreIsolated'
  BY <1>1, <1>2, <1>3 DEF IInv, ContextsAreIsolated, ItemsAreIsolated
<1>. QED
  BY <1>4, <1>5, <1>6, <1>7, <1>8, <1>9 DEF IInv, ContextsAreIsolated

\* An element whose sub-step fails: only references that do not point backwards
\* are not found.
LEMMA ElementFails == ASSUME IInv, NEW i \in Items, ItemFails(i) PROVE IInv'
<1>1. PICK reason \in IF SubResolvable(i) THEN {"step"} ELSE {"unresolved"} :
        ItemChange(i, [item[i] EXCEPT !.st = "failed", !.why = reason])
  BY DEF ItemFails
<1>2. ItemRuns(i) /\ phase = "running" /\ item[i].st = "running"
  BY DEF ItemFails, ItemRuns, InForeach, AtStep
<1>3. PICK r : r = item[i]
  OBVIOUS
<1>4. r \in [st : {"running"}, pc : {r.pc}, out : {r.out}, why : {r.why}]
  BY <1>2, <1>3 DEF IInv, Elements, Element
<1>. DEFINE rec == [r EXCEPT !.st = "failed", !.why = reason]
<1>5. /\ rec.st = "failed" /\ rec.pc = r.pc /\ rec.out = r.out /\ rec.why = reason
      /\ rec \in [st : {"failed"}, pc : {r.pc}, out : {r.out}, why : {reason}]
  BY <1>4
<1>6. ItemChange(i, rec)
  BY <1>1, <1>3
<1>. HIDE DEF rec
<1>7. rec = Element(rec.st, rec.pc, rec.out, rec.why)
  BY <1>5 DEF Element
<1>8. reason \in {"step", "unresolved"} /\ (reason = "unresolved" => ~Backward(pipe))
  BY <1>1, <1>2, BackwardSubResolves
<1>9. /\ r.pc \in 1 .. Len(Current.body)
      /\ \A j \in 1 .. r.pc - 1 : Current.body[j].kind # "emit"
      /\ \A q \in DOMAIN r.out :
           \/ \E j \in 1 .. r.pc :
                Current.body[j].id = q /\ r.out[q].src = <<"sub", i, j>>
           \/ q \in DOMAIN outputs /\ r.out[q].src = outputs[q].src
  BY <1>2, <1>3 DEF IInv, ElementProgress, ContextsAreIsolated, ItemsAreIsolated
<1>. QED
  BY <1>2, <1>5, <1>6, <1>7, <1>8, <1>9, ElementFrame

\* An element that goes on: it ends with the first emit, and there is one.
LEMMA ElementSucceeds == ASSUME IInv, NEW i \in Items, ItemSucceeds(i) PROVE IInv'
<1>1. PICK r : r = item[i]
  OBVIOUS
<1>2. ItemRuns(i) /\ phase = "running" /\ pc <= Len(pipe) /\ Current.kind = "foreach"
      /\ r.st = "running"
  BY <1>1 DEF ItemSucceeds, ItemRuns, InForeach, AtStep
<1>. DEFINE body == Current.body
            B(v) == Bind(r.out, body[r.pc].id, v)
            stored(v) == [r EXCEPT !.out = B(v)]
<1>3. PICK v \in Produces(SubStep(i), <<"sub", i, r.pc>>) :
        ItemChange(i,
          IF body[r.pc].kind = "emit"
            THEN [stored(v) EXCEPT !.st = "emitted"]
          ELSE IF r.pc = Len(body)
            THEN [stored(v) EXCEPT !.st = "failed", !.why = "noEmit"]
          ELSE [stored(v) EXCEPT !.pc = r.pc + 1])
  BY <1>1 DEF ItemSucceeds, SubStep
<1>4. v.src = <<"sub", i, r.pc>>
  BY DEF Produces
<1>5. r \in [st : {"running"}, pc : {r.pc}, out : {r.out}, why : {r.why}]
  BY <1>1, <1>2 DEF IInv, Elements, Element
<1>6. PICK out : out = B(v)
  OBVIOUS
<1>7. PICK s : s = stored(v)
  OBVIOUS
<1>8. s \in [st : {"running"}, pc : {r.pc}, out : {out}, why : {r.why}] /\ s.pc = r.pc
  BY <1>5, <1>6, <1>7
<1>9. /\ r.pc \in 1 .. Len(body) /\ Len(body) \in Nat
      /\ \A j \in 1 .. r.pc - 1 : body[j].kind # "emit"
      /\ \A q \in DOMAIN r.out :
           \/ \E j \in 1 .. r.pc : body[j].id = q /\ r.out[q].src = <<"sub", i, j>>
           \/ q \in DOMAIN outputs /\ r.out[q].src = outputs[q].src
      /\ DOMAIN outputs \cup Before(body, r.pc) \subseteq DOMAIN r.out
  BY <1>1, <1>2, BodyFacts DEF IInv, ElementProgress, ContextsAreIsolated, ItemsAreIsolated
<1>10. /\ DOMAIN out = DOMAIN r.out \cup {body[r.pc].id}
       /\ out[body[r.pc].id] = v
       /\ \A q \in DOMAIN r.out \ {body[r.pc].id} : out[q] = r.out[q]
  BY <1>6 DEF Bind
<1>11. \A q \in DOMAIN out :
         \/ \E j \in 1 .. r.pc : body[j].id = q /\ out[q].src = <<"sub", i, j>>
         \/ q \in DOMAIN outputs /\ out[q].src = outputs[q].src
  <2>1. r.pc \in 1 .. r.pc
    BY <1>9
  <2>. QED
    BY Zenon, <1>4, <1>9, <1>10, <2>1
<1>12. r.pc = Len(body) => body[r.pc].kind = "emit"
  <2>1. \E j \in 1 .. Len(body) : body[j].kind = "emit"
    BY <1>2, BodyFacts DEF hasEmit
  <2>. QED
    BY <1>9, <2>1
<1>13. CASE body[r.pc].kind = "emit"
  <2>1. PICK rec : rec = [s EXCEPT !.st = "emitted"]
    OBVIOUS
  <2>2. /\ rec.st = "emitted" /\ rec.pc = r.pc /\ rec.out = out
        /\ rec \in [st : {"emitted"}, pc : {r.pc}, out : {out}, why : {r.why}]
    BY <1>8, <2>1
  <2>3. rec = Element(rec.st, rec.pc, rec.out, rec.why)
    BY <2>2 DEF Element
  <2>4. ItemChange(i, rec)
    BY <1>3, <1>7, <1>13, <2>1
  <2>. QED
    BY <1>2, <1>9, <1>11, <2>2, <2>3, <2>4, ElementFrame
<1>14. CASE body[r.pc].kind # "emit"
  <2>1. PICK rec : rec = [s EXCEPT !.pc = r.pc + 1]
    OBVIOUS
  <2>2. /\ rec.st = "running" /\ rec.pc = r.pc + 1 /\ rec.out = out
        /\ rec \in [st : {"running"}, pc : {r.pc + 1}, out : {out}, why : {r.why}]
    BY <1>8, <2>1
  <2>3. rec = Element(rec.st, rec.pc, rec.out, rec.why)
    BY <2>2 DEF Element
  <2>4. ItemChange(i, rec)
    BY <1>3, <1>7, <1>12, <1>14, <2>1
  <2>5. /\ r.pc + 1 \in 1 .. Len(body)
        /\ \A j \in 1 .. (r.pc + 1) - 1 : j = r.pc \/ j \in 1 .. r.pc - 1
        /\ 1 .. r.pc \subseteq 1 .. r.pc + 1
    BY <1>9, <1>12, <1>14
  <2>6. \A j \in 1 .. rec.pc - 1 : body[j].kind # "emit"
    BY <1>9, <1>14, <2>2, <2>5
  <2>7. DOMAIN outputs \cup Before(body, rec.pc) \subseteq DOMAIN rec.out
    <3>1. Before(body, rec.pc) \subseteq Before(body, r.pc) \cup {body[r.pc].id}
      BY Zenon, <2>2, <2>5 DEF Before
    <3>2. rec.out = out
      BY <2>2
    <3>. QED
      BY Zenon, <1>9, <1>10, <3>1, <3>2
  <2>8. \A q \in DOMAIN rec.out :
          \/ \E j \in 1 .. rec.pc : body[j].id = q /\ rec.out[q].src = <<"sub", i, j>>
          \/ q \in DOMAIN outputs /\ rec.out[q].src = outputs[q].src
    BY <1>11, <2>2, <2>5
  <2>. QED
    BY <1>2, <2>2, <2>3, <2>4, <2>5, <2>6, <2>7, <2>8, ElementFrame
<1>. QED
  BY <1>13, <1>14

\* Every step keeps the invariant.
LEMMA Inductive == ASSUME IInv, [Next]_vars PROVE IInv'
<1>1. CASE UNCHANGED vars
  <2>1. /\ UNCHANGED <<pipe, phase, args, pc, outputs, item, why, answer>>
        /\ Current' = Current /\ Accepted(pipe)' = Accepted(pipe) /\ Backward(pipe)' = Backward(pipe)
    BY <1>1 DEF vars, Current
  <2>2. TypeOK' /\ Admitted' /\ Elements'
    BY <2>1 DEF IInv, TypeOK, Admitted, Elements, Source
  <2>3. StepsDone' /\ AnswerIsEarned' /\ AdmittedToolsRun'
    BY <2>1 DEF IInv, StepsDone, AnswerIsEarned, AdmittedToolsRun
  <2>4. ElementsAreCurrent' /\ ElementProgress'
    BY <2>1 DEF IInv, ElementsAreCurrent, ElementProgress, Before
  <2>5. ContextsAreIsolated'
    BY <2>1 DEF IInv, ContextsAreIsolated, OutputsAreEarlierSteps, ItemsAreIsolated
  <2>. QED
    BY <2>2, <2>3, <2>4, <2>5 DEF IInv
<1>2. CASE StepUnresolved \/ StepFails \/ NoReturn \/ ForeachFails
  <2>1. phase = "running"
    BY <1>2 DEF StepUnresolved, StepFails, NoReturn, ForeachFails, InForeach, AtStep
  <2>2. PICK reason \in Reasons \ {"noEmit"} :
          Fail(reason) /\ (reason = "unresolved" => ~Backward(pipe))
    <3>1. CASE StepUnresolved
      BY <3>1, BackwardResolves DEF StepUnresolved, AtStep, Reasons
    <3>2. CASE StepFails \/ NoReturn
      BY <3>2 DEF StepFails, NoReturn, Reasons
    <3>3. CASE ForeachFails
      <4>1. PICK i \in Items : item[i].st = "failed" /\ Fail(item[i].why)
        BY <3>3 DEF ForeachFails
      <4>2. /\ item[i].why \in {"step", "unresolved"}
            /\ item[i].why = "unresolved" => ~Backward(pipe)
        BY <2>1, <4>1 DEF IInv, ElementProgress
      <4>. QED
        BY <4>1, <4>2 DEF Reasons
    <3>. QED
      BY <1>2, <3>1, <3>2, <3>3
  <2>. QED
    BY <2>1, <2>2, FailKeeps
<1>3. CASE StepSucceeds
  <2>1. phase = "running" /\ pc <= Len(pipe) /\ Current.kind # "foreach" /\ item' = item
    BY <1>3 DEF StepSucceeds, AtStep
  <2>2. \A i \in Items : item[i].st = "idle"
    BY <2>1 DEF IInv, ElementsAreCurrent
  <2>3. PICK v \in Produces(Current, <<"step", pc>>) : Finish(v)
    BY <1>3 DEF StepSucceeds
  <2>4. v.src = <<"step", pc>>
    BY DEF Produces
  <2>. QED
    BY <2>1, <2>2, <2>3, <2>4, FinishKeeps
<1>4. CASE EmptyList
  <2>1. phase = "running" /\ pc <= Len(pipe) /\ item' = item /\ Finish(ListOf("empty"))
        /\ \A i \in Items : item[i].st = "idle"
    BY <1>4 DEF EmptyList, AtStep, InForeach
  <2>2. ListOf("empty").src = <<"step", pc>>
    BY DEF ListOf
  <2>. QED
    BY <2>1, <2>2, FinishKeeps
<1>5. CASE ForeachSucceeds
  <2>1. /\ phase = "running" /\ pc <= Len(pipe) /\ item' = NoItems
        /\ \E size : Finish(ListOf(size))
    BY <1>5 DEF ForeachSucceeds, AtStep, InForeach
  <2>2. \A size : ListOf(size).src = <<"step", pc>>
    BY DEF ListOf
  <2>. QED
    BY <2>1, <2>2, FinishKeeps
<1>. QED
  BY <1>1, <1>2, <1>3, <1>4, <1>5, LoadKeeps, InvokeKeeps, EnterKeeps, ElementFails, ElementSucceeds
  DEF Next

-----------------------------------------------------------------------------
(* The theorems.                                                            *)

LEMMA Invariance == Spec => []IInv
BY InitEstablishes, Inductive, PTL DEF Spec

\* A call has failed exactly if there is a reason for it, and what a step gave is
\* kept under the id of a step (executor.go).
THEOREM TypeCorrect == Spec => []TypeOK
<1>1. IInv => TypeOK
  BY DEF IInv
<1>. QED
  BY <1>1, Invariance, PTL

\* However calls follow each other and elements interleave, what a name stands for
\* was stored by this call, and in an element by that element or before the foreach
\* (NewContext, WithItem).
THEOREM ContextsIsolated == Spec => []ContextsAreIsolated
<1>1. IInv => ContextsAreIsolated
  BY DEF IInv
<1>. QED
  BY <1>1, Invariance, PTL

\* Every pipeline the validator admits runs to its end, if its references point
\* backwards: no name is missing, and every sub-pipeline emits.
THEOREM AdmittedRun == Spec => []AdmittedToolsRun
<1>1. IInv => AdmittedToolsRun
  BY DEF IInv
<1>. QED
  BY <1>1, Invariance, PTL

\* An answer is the value of the first return, after steps that all gave what they
\* were required to give.
THEOREM AnswersEarned == Spec => []AnswerIsEarned
<1>1. IInv => AnswerIsEarned
  BY DEF IInv
<1>. QED
  BY <1>1, Invariance, PTL
=============================================================================
