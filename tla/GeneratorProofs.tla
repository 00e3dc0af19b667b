-------------------------- MODULE GeneratorProofs --------------------------
(***************************************************************************)
(* Tool names are unique, whatever the document and the order of its       *)
(* visit; and runs of the generator, for any documents, filters and number *)
(* of runs and edits, leave the tools of one document and the handlers of  *)
(* users.                                                                  *)
(***************************************************************************)
EXTENDS Generator, FiniteSetTheorems, TLAPS

\* Operations that collide share one set of colliding operations.
LEMMA CollidingIsAClass ==
  ASSUME NEW ops, NEW o \in ops, NEW p \in ops,
         ToLower[PascalCase[o.id]] = ToLower[PascalCase[p.id]]
  PROVE  Colliding(ops, o) = Colliding(ops, p) /\ p \in Colliding(ops, o)
BY DEF Colliding

\* In one set of colliding operations a later one has another index: it counts
\* one operation more.
LEMMA IndicesDiffer ==
  ASSUME NEW ops, IsFiniteSet(ops), NEW visit \in Visits(ops),
         NEW o \in ops, NEW p \in ops,
         Colliding(ops, o) = Colliding(ops, p), p \in Colliding(ops, o),
         visit[o] < visit[p]
  PROVE  collisionIdx(ops, visit, o) # collisionIdx(ops, visit, p)
<1> DEFINE C == Colliding(ops, o)
           Upto(q) == {r \in C : visit[r] <= visit[q]}
<1>1. Cardinality(ops) \in Nat /\ \A r \in ops : visit[r] \in Nat
  BY FS_CardinalityType DEF Visits
<1>2. C \subseteq ops
  BY DEF Colliding
<1>3. IsFiniteSet(Upto(p))
  BY <1>2, FS_Subset
<1>4. Upto(o) \subseteq Upto(p) /\ p \in Upto(p) /\ p \notin Upto(o)
  BY <1>1, <1>2
<1>5. IsFiniteSet(Upto(o)) /\ Cardinality(Upto(o)) <= Cardinality(Upto(p))
      /\ Cardinality(Upto(o)) # Cardinality(Upto(p))
  BY <1>3, <1>4, FS_Subset
<1> QED
  BY <1>5 DEF collisionIdx

\* Two operations of a document never get names that differ in case only: no
\* tool's file, handler or registration stands for two of them
\* (converter.go:118), in whatever order the operations were visited.
THEOREM NamesAreDistinct ==
  ASSUME NEW ops, IsFiniteSet(ops), NEW visit \in Visits(ops),
         NEW o \in ops, NEW p \in ops,
         FileKey(ToolName(ops, visit, o)) = FileKey(ToolName(ops, visit, p))
  PROVE  o = p
<1> DEFINE Key(q) == FileKey(ToolName(ops, visit, q))
           Alone(q) == Colliding(ops, q) = {q}
<1>1. ASSUME NEW q \in ops
      PROVE /\ Alone(q) => Key(q) = <<ToLower[PascalCase[q.id]]>>
            /\ ~Alone(q) => Key(q) = <<ToLower[PascalCase[q.id]], q.id,
                                       collisionIdx(ops, visit, q)>>
  BY DEF FileKey, ToolName
<1>2. ToLower[PascalCase[o.id]] = ToLower[PascalCase[p.id]]
  BY <1>1
<1>3. Colliding(ops, o) = Colliding(ops, p) /\ p \in Colliding(ops, o)
  BY <1>2, CollidingIsAClass
<1>4. CASE Alone(o)
  BY <1>3, <1>4
<1>5. CASE ~Alone(o)
  <2>1. ~Alone(p)
    BY <1>3, <1>5, <1>1
  <2>2. collisionIdx(ops, visit, o) = collisionIdx(ops, visit, p)
    BY <1>1, <1>5, <2>1
  <2>3. Cardinality(ops) \in Nat /\ visit[o] \in Nat /\ visit[p] \in Nat
    BY FS_CardinalityType DEF Visits
  <2>4. o \in Colliding(ops, p)
    BY <1>3 DEF Colliding
  <2>5. ~(visit[o] < visit[p])
    BY <1>3, <2>2, IndicesDiffer
  <2>6. ~(visit[p] < visit[o])
    BY <1>3, <2>2, <2>4, IndicesDiffer
  <2>7. visit[o] = visit[p]
    BY <2>3, <2>5, <2>6
  <2> QED
    BY <2>7 DEF Visits
<1> QED
  BY <1>4, <1>5

-----------------------------------------------------------------------------
(* The inductive invariant of the generator.                                *)

\* The tools are those of a document.
OfADocument(ts) ==
  \E doc \in Documents, includes, excludes \in Filters : ts \in Convert(doc, includes, excludes)

ToolsInv ==
  /\ phase \in {"running", "done"} => OfADocument(tools)
  /\ Running \/ todo = {}

\* The file of a tool is there and has its schema.
Written(t) == Has(t.name) /\ files[t.name] \in Usable /\ files[t.name].schema = t.op

\* What a run has done when it has come to a stage.
StageInv ==
  Running =>
    /\ at >= 3 => DOMAIN files \subseteq keep
    /\ at = 3 => registry = None /\ \A t \in tools \ todo : Written(t)
    /\ at >= 4 => \A t \in tools : Written(t)
    /\ at >= 5 => registry = keep
    /\ at \in {3, 4} => tests = {}
    /\ at = 5 => tests = {t.name : t \in tools \ todo}
    /\ at >= 6 => tests = keep
    /\ at \in 3 .. 6 => others = {}
    /\ at >= 7 => others = {"common tests"}
    /\ \A k \in 1 .. at - 1 : Stages[k] \in Shared => Stages[k] \in shared

\* A registry lists the tools of one document, and has no other files beside it.
RegistryInv ==
  registry \notin {None, Garbage} =>
    \E ts \in SUBSET Tool :
      /\ OfADocument(ts)
      /\ registry = {t.name : t \in ts}
      /\ DOMAIN files \subseteq registry
      /\ \A t \in ts : Has(t.name) =>
           files[t.name] \in {Garbage, Twice} \/ files[t.name].schema = t.op

\* A user's handler is where it was when the run began.
HandlersInv ==
  /\ Running => torn = None
  /\ phase \in {"running", "done", "failed"} =>
       \A t \in tools : OwnHandler(before, t.name) /\ torn # t.name =>
         OwnHandler(files, t.name) /\ files[t.name].handler = before[t.name].handler

IInv == TypeOK /\ ToolsInv /\ StageInv /\ SuccessIsWhole /\ RegistryInv /\ HandlersInv

\* The stages by number.
LEMMA StageFacts ==
  /\ Len(Stages) = 8 /\ DOMAIN Stages = 1 .. 8
  /\ Stages[1] = "project" /\ Stages[2] = "clean" /\ Stages[3] = "tools"
  /\ Stages[4] = "registry.go" /\ Stages[5] = "tests" /\ Stages[6] = "common tests"
  /\ Stages[7] = "code" /\ Stages[8] = "documents"
BY DEF Stages

LEMMA FirstStage == 1 \in DOMAIN Stages
<1>1. 1 \in 1 .. 8
  OBVIOUS
<1> QED
  BY <1>1, StageFacts, Zenon

\* What Convert returns are tools, and two of them have two names.
LEMMA ConvertedTools ==
  ASSUME NEW ts, OfADocument(ts)
  PROVE  ts \subseteq Tool /\ \A t, u \in ts : t.name = u.name => t = u
<1>1. PICK doc \in Documents, includes \in Filters, excludes \in Filters :
        ts \in Convert(doc, includes, excludes)
  BY DEF OfADocument
<1> DEFINE ops == Included(doc, includes, excludes)
<1>2. ops \subseteq doc /\ doc \subseteq Operation /\ IsFiniteSet(doc)
  BY ConverterAssumption DEF Included
<1>3. IsFiniteSet(ops) /\ Cardinality(doc) \in Nat /\ Cardinality(ops) <= Cardinality(doc)
  BY <1>2, FS_Subset, FS_CardinalityType
<1>4. PICK visit \in Visits(ops) :
        ts = {[name |-> ToolName(ops, visit, o), op |-> o] : o \in ops}
  BY <1>1 DEF Convert
<1> HIDE DEF ops
<1>5. ASSUME NEW o \in ops
      PROVE  o \in Operation /\ ToolName(ops, visit, o) \in ToolNames
  <2> DEFINE seen == {p \in Colliding(ops, o) : visit[p] <= visit[o]}
  <2>1. o.id \in Ids /\ o \in Operation
    BY <1>2 DEF Operation
  <2>2. visit[o] <= visit[o]
    BY <1>3, FS_CardinalityType DEF Visits
  <2>3. o \in seen /\ seen \subseteq ops
    BY <2>2 DEF Colliding
  <2>4. IsFiniteSet(seen) /\ Cardinality(seen) <= Cardinality(ops) /\ seen # {}
    BY <1>3, <2>3, FS_Subset
  <2>5. Cardinality(seen) \in Nat /\ Cardinality(seen) # 0 /\ Cardinality(ops) \in Nat
    BY <1>3, <2>4, FS_CardinalityType, FS_EmptySet
  <2>6. collisionIdx(ops, visit, o) \in 1 .. Cardinality(doc)
    BY <1>3, <2>4, <2>5 DEF collisionIdx
  <2> QED
    BY <2>1, <2>6 DEF ToolName, ToolNames
<1>6. ts \subseteq Tool
  BY <1>4, <1>5 DEF Tool
<1>7. ASSUME NEW t \in ts, NEW u \in ts, t.name = u.name PROVE t = u
  <2>1. PICK o \in ops : t = [name |-> ToolName(ops, visit, o), op |-> o]
    BY <1>4
  <2>2. PICK p \in ops : u = [name |-> ToolName(ops, visit, p), op |-> p]
    BY <1>4
  <2>3. ToolName(ops, visit, o) = ToolName(ops, visit, p)
    BY <1>7, <2>1, <2>2
  <2>4. o = p
    BY <1>3, <2>3, NamesAreDistinct
  <2> QED
    BY <2>1, <2>2, <2>4
<1> QED
  BY <1>6, <1>7

\* A file that is written is there with its content; the others are as before.
LEMMA PutFacts ==
  ASSUME NEW n, NEW content, Put(n, content)
  PROVE  /\ DOMAIN files' = DOMAIN files \cup {n}
         /\ files'[n] = content
         /\ \A m \in DOMAIN files : m # n => files'[m] = files[m]
BY DEF Put

\* The file a run writes for a tool can be used, and has the handler of a user
\* if there was one.
LEMMA NewFileFacts ==
  ASSUME TypeOK, NEW t \in Tool
  PROVE  /\ NewFile(t) \in Usable /\ NewFile(t).schema = t.op
         /\ OwnHandler(files, t.name) => NewFile(t).handler = files[t.name].handler
<1> DEFINE existing == extractHandlerImplementation(t.name)
<1>1. t.op \in Operation
  BY DEF Tool
<1>2. existing = None \/ existing \in Handler
  BY DEF extractHandlerImplementation, Has, TypeOK, Usable
<1>3. Generated(t) \in Handler
  BY <1>1 DEF Generated, Handler
<1>4. OwnHandler(files, t.name) => existing = files[t.name].handler /\ existing # None
  BY GeneratorAssumption DEF OwnHandler, extractHandlerImplementation, Has, Usable
<1>5. HandlerFor(t) \in Handler
      /\ (OwnHandler(files, t.name) => HandlerFor(t) = files[t.name].handler)
  BY <1>2, <1>3, <1>4, Zenon DEF HandlerFor
<1> QED
  BY <1>1, <1>5 DEF NewFile, Usable

\* A run that begins touches no file, and takes the files as they are.
LEMMA BeginFacts ==
  ASSUME IInv, Begin
  PROVE  /\ RegistryInv'
         /\ before' = files /\ torn' = None /\ at' = 1
         /\ tools' \subseteq Tool /\ todo' \subseteq tools' /\ phase' \in {"running", "failed"}
              => TypeOK'
<1>1. RegistryInv'
  BY DEF IInv, Begin, RegistryInv, pkg, Has
<1>2. runs' \in 0 .. MaxRuns
  <2>1. runs \in 0 .. MaxRuns
    BY DEF IInv, TypeOK
  <2>2. runs < MaxRuns /\ runs' = runs + 1
    BY DEF Begin
  <2>3. MaxRuns \in Nat
    BY GeneratorAssumption
  <2> QED
    BY <2>1, <2>2, <2>3
<1>3. at' \in DOMAIN Stages
  BY FirstStage DEF Begin
<1> QED
  BY <1>1, <1>2, <1>3 DEF IInv, TypeOK, Begin, pkg

LEMMA StartKeeps ==
  ASSUME IInv, NEW doc \in Documents, NEW includes \in Filters, NEW excludes \in Filters,
         Start(doc, includes, excludes)
  PROVE  IInv'
<1>1. OfADocument(tools') /\ Begin /\ todo' = tools' /\ phase' = "running"
  BY DEF Start, OfADocument
<1>2. /\ RegistryInv' /\ TypeOK'
      /\ before' = files /\ torn' = None /\ at' = 1
  BY <1>1, BeginFacts, ConvertedTools
<1>3. ToolsInv'
  BY <1>1 DEF ToolsInv, Running, OfADocument
<1>4. StageInv'
  BY <1>2 DEF StageInv
<1>5. SuccessIsWhole'
  BY <1>1 DEF SuccessIsWhole
<1>6. HandlersInv'
  BY <1>1, <1>2 DEF HandlersInv, OwnHandler, Begin, pkg
<1> QED
  BY <1>2, <1>3, <1>4, <1>5, <1>6 DEF IInv

LEMMA RefuseKeeps ==
  ASSUME IInv, Refuse
  PROVE  IInv'
<1>1. Begin /\ tools' = {} /\ todo' = {} /\ phase' = "failed"
  BY DEF Refuse
<1>2. RegistryInv' /\ TypeOK'
  BY <1>1, BeginFacts
<1>3. ToolsInv' /\ StageInv' /\ SuccessIsWhole' /\ HandlersInv'
  BY <1>1 DEF ToolsInv, StageInv, SuccessIsWhole, HandlersInv, Running
<1> QED
  BY <1>2, <1>3 DEF IInv

\* A run in the middle has unique tools, and nothing torn.
LEMMA RunningFacts ==
  ASSUME IInv, Running
  PROVE  /\ OfADocument(tools) /\ tools \subseteq Tool
         /\ \A t, u \in tools : t.name = u.name => t = u
         /\ torn = None /\ phase = "running" /\ TypeOK
         /\ \A t \in tools : t.name \in ToolNames /\ t.name # None /\ t.name \in keep
<1>1. OfADocument(tools) /\ torn = None /\ phase = "running"
  BY DEF IInv, ToolsInv, HandlersInv, Running
<1>2. tools \subseteq Tool
  BY DEF IInv, TypeOK
<1> QED
  BY <1>1, <1>2, ConvertedTools, GeneratorAssumption DEF Tool, keep, IInv

\* A run that ends early leaves the files and the handlers as they are.
LEMMA EndKeeps ==
  ASSUME IInv, Running, End, UNCHANGED <<pkg, before, torn, runs, edits>>,
         shared' \subseteq Shared
  PROVE  IInv'
<1>1. phase' = "failed" /\ at' = 1 /\ todo' = {} /\ tools' = tools
  BY DEF End
<1>2. TypeOK /\ at' \in DOMAIN Stages /\ torn' = None
  BY <1>1, RunningFacts, FirstStage
<1>3. TypeOK'
  BY <1>1, <1>2 DEF TypeOK, pkg, Running
<1>4. ToolsInv' /\ StageInv' /\ SuccessIsWhole'
  BY <1>1 DEF ToolsInv, StageInv, SuccessIsWhole, Running
<1>5. RegistryInv'
  BY DEF IInv, RegistryInv, pkg, Has
<1>6. HandlersInv'
  BY <1>1 DEF IInv, HandlersInv, pkg, OwnHandler, Running
<1> QED
  BY <1>3, <1>4, <1>5, <1>6 DEF IInv

\* Where a run is, from the stage it is at.
LEMMA WhichStage ==
  ASSUME IInv
  PROVE  /\ at \in 1 .. 8
         /\ Stages[at] = "clean" => at = 2
         /\ Stages[at] = "tools" => at = 3
         /\ Stages[at] = "registry.go" => at = 4
         /\ Stages[at] = "tests" => at = 5
         /\ Stages[at] \in Shared => at \in {1, 6, 7, 8}
         /\ Stages[at] = "common tests" <=> at = 6
<1>1. at \in 1 .. 8
  BY StageFacts DEF IInv, TypeOK
<1>2. at = 1 \/ at = 2 \/ at = 3 \/ at = 4 \/ at = 5 \/ at = 6 \/ at = 7 \/ at = 8
  BY <1>1
<1> QED
  BY <1>1, <1>2, StageFacts DEF Shared

\* A run goes to its next stage with all of its tools to do.
LEMMA AdvanceFacts ==
  ASSUME IInv, Running, Advance, at # 8
  PROVE  /\ at' = at + 1 /\ at' \in DOMAIN Stages /\ todo' = tools /\ phase' = "running"
         /\ tools' = tools /\ keep' = keep /\ OfADocument(tools)
<1>1. at' = at + 1 /\ todo' = tools /\ phase' = phase /\ tools' = tools
  BY StageFacts DEF Advance
<1>2. at' \in 1 .. 8
  <2>1. at \in 1 .. 8
    BY WhichStage
  <2> QED
    BY <1>1, <2>1
<1> QED
  BY <1>1, <1>2, StageFacts, RunningFacts DEF keep, Running

\* What a run removes is no file that a tool of it has.
LEMMA CleanKeeps ==
  ASSUME IInv, Clean
  PROVE  IInv'
<1>1. Running /\ at = 2 /\ UNCHANGED <<run, shared, past>>
  BY WhichStage DEF Clean, Stage
<1>2. /\ phase' = phase /\ tools' = tools /\ at' = at /\ todo' = todo
      /\ before' = before /\ torn' = torn /\ runs' = runs /\ edits' = edits
      /\ shared' = shared
  BY <1>1 DEF run, past
<1>3. /\ DOMAIN files' \subseteq DOMAIN files
      /\ \A n \in DOMAIN files' : files'[n] = files[n]
      /\ DOMAIN files \cap keep \subseteq DOMAIN files'
  <2>1. ASSUME NEW n \in StaleFiles, files' = Restrict(files, DOMAIN files \ {n})
        PROVE  <1>3!:
    BY <2>1 DEF StaleFiles, Restrict
  <2> QED
    BY <2>1 DEF Clean, RemoveFile, RemoveTest, RemoveRegistry, RemoveOther
<1>4. tests' \subseteq tests /\ others' \subseteq others /\ registry' \in {registry, None}
  BY DEF Clean, RemoveFile, RemoveTest, RemoveRegistry, RemoveOther
<1>5. TypeOK'
  BY <1>2, <1>3, <1>4 DEF IInv, TypeOK, Running
<1>6. ToolsInv' /\ SuccessIsWhole'
  BY <1>1, <1>2 DEF IInv, ToolsInv, SuccessIsWhole, Running, OfADocument
<1>7. StageInv'
  BY <1>1, <1>2 DEF IInv, StageInv, Running
<1>8. RegistryInv'
  BY <1>3, <1>4 DEF IInv, RegistryInv, Has, OfADocument
<1>9. HandlersInv'
  BY <1>1, <1>2, <1>3, RunningFacts DEF IInv, HandlersInv, OwnHandler, Running
<1> QED
  BY <1>5, <1>6, <1>7, <1>8, <1>9 DEF IInv

\* The removal ends with no registry, no tests and only files of tools left.
LEMMA EndCleanKeeps ==
  ASSUME IInv, EndClean
  PROVE  IInv'
<1>1. Running /\ at = 2 /\ Advance /\ UNCHANGED <<pkg, shared, past>>
  BY WhichStage DEF EndClean, Stage
<1>2. /\ at' = 3 /\ at' \in DOMAIN Stages /\ todo' = tools /\ phase' = "running"
      /\ tools' = tools /\ keep' = keep /\ OfADocument(tools)
  BY <1>1, AdvanceFacts
<1>3. /\ DOMAIN files \subseteq keep /\ tests = {} /\ registry = None /\ others = {}
  BY DEF EndClean, StaleFiles, StaleTests, StaleRegistry
<1>4. TypeOK'
  BY <1>1, <1>2 DEF IInv, TypeOK, Running, pkg, past
<1>5. ToolsInv' /\ SuccessIsWhole'
  BY <1>2 DEF ToolsInv, SuccessIsWhole, Running, OfADocument
<1>6. \A k \in 1 .. at' - 1 : Stages[k] \in Shared => Stages[k] \in shared'
  <2>1. \A k \in 1 .. at - 1 : Stages[k] \in Shared => Stages[k] \in shared
    BY <1>1 DEF IInv, StageInv
  <2>2. Stages[2] \notin Shared
    BY StageFacts DEF Shared
  <2>3. \A k \in 1 .. at' - 1 : k \in 1 .. at - 1 \/ k = 2
    BY <1>1, <1>2
  <2>4. shared' = shared
    BY <1>1
  <2> QED
    BY <2>1, <2>2, <2>3, <2>4, Zenon
<1>7. StageInv'
  BY <1>1, <1>2, <1>3, <1>6 DEF StageInv, pkg
<1>8. RegistryInv' /\ HandlersInv'
  BY <1>1, <1>2 DEF IInv, RegistryInv, HandlersInv, pkg, past, Has, OwnHandler, OfADocument,
                    Running
<1> QED
  BY <1>4, <1>5, <1>7, <1>8 DEF IInv

\* Writing a tool's file touches no other tool's: their names differ.
LEMMA WriteToolKeeps ==
  ASSUME IInv, NEW t \in todo, WriteTool(t)
  PROVE  IInv'
<1>1. /\ Running /\ at = 3 /\ Put(t.name, NewFile(t)) /\ todo' = todo \ {t}
      /\ UNCHANGED <<phase, tools, at, tests, registry, others, shared, before, torn, runs, edits>>
  BY WhichStage DEF WriteTool, Stage, past
<1>2. /\ todo \subseteq tools /\ t \in tools /\ t \in Tool /\ TypeOK /\ t.name \in ToolNames
      /\ phase = "running"
  BY <1>1, RunningFacts DEF TypeOK
<1>3. /\ DOMAIN files' = DOMAIN files \cup {t.name} /\ files'[t.name] = NewFile(t)
      /\ \A m \in DOMAIN files : m # t.name => files'[m] = files[m]
  BY <1>1, PutFacts
<1>4. /\ NewFile(t) \in Usable /\ NewFile(t).schema = t.op
      /\ OwnHandler(files, t.name) => NewFile(t).handler = files[t.name].handler
  BY <1>2, NewFileFacts
<1>5. TypeOK'
  BY <1>1, <1>2, <1>3, <1>4 DEF TypeOK, Running
<1>6. ToolsInv' /\ SuccessIsWhole'
  BY <1>1, <1>2 DEF IInv, ToolsInv, SuccessIsWhole, Running, OfADocument
<1>7. DOMAIN files' \subseteq keep' /\ registry' = None /\ tests' = {} /\ others' = {}
  <2>1. DOMAIN files \subseteq keep /\ registry = None /\ tests = {} /\ others = {}
    BY <1>1 DEF IInv, StageInv
  <2> QED
    BY <1>1, <1>2, <1>3, <2>1 DEF keep
<1>8. ASSUME NEW u \in tools' \ todo' PROVE Written(u)'
  <2>1. u \in tools
    BY <1>1
  <2>2. CASE u = t
    BY <2>2, <1>3, <1>4 DEF Written, Has
  <2>3. CASE u # t
    <3>1. u.name # t.name
      BY <1>1, <1>2, <2>1, <2>3, RunningFacts
    <3>2. Written(u)
      BY <1>1, <2>1, <2>3 DEF IInv, StageInv
    <3> QED
      BY <1>3, <3>1, <3>2 DEF Written, Has
  <2> QED
    BY <2>2, <2>3
<1>9. \A k \in 1 .. at' - 1 : Stages[k] \in Shared => Stages[k] \in shared'
  BY <1>1 DEF IInv, StageInv
<1>10. StageInv'
  BY <1>1, <1>7, <1>8, <1>9 DEF StageInv
<1>11. RegistryInv'
  BY <1>7 DEF RegistryInv
<1>12. HandlersInv'
  <2>1. ASSUME NEW u \in tools, OwnHandler(before, u.name)
        PROVE  (OwnHandler(files, u.name) /\ files[u.name].handler = before[u.name].handler)'
    <3>1. torn # u.name
      BY <1>1, RunningFacts
    <3>2. OwnHandler(files, u.name) /\ files[u.name].handler = before[u.name].handler
      BY <1>2, <2>1, <3>1 DEF IInv, HandlersInv
    <3> QED
      BY <1>1, <1>3, <1>4, <3>2 DEF OwnHandler
  <2>2. torn' = None
    BY <1>1, RunningFacts
  <2> QED
    BY <1>1, <2>1, <2>2 DEF HandlersInv, OwnHandler
<1> QED
  BY <1>5, <1>6, <1>10, <1>11, <1>12 DEF IInv

\* A tool's file that is torn is noted as such; the others keep their handlers.
LEMMA TearToolKeeps ==
  ASSUME IInv, NEW t \in todo, TearTool(t)
  PROVE  IInv'
<1>1. /\ Running /\ at = 3 /\ Put(t.name, Garbage) /\ End /\ torn' = t.name
      /\ UNCHANGED <<tests, registry, others, shared, before, runs, edits>>
  BY WhichStage DEF TearTool, Stage
<1>2. /\ todo \subseteq tools /\ t \in tools /\ t \in Tool /\ TypeOK /\ t.name \in ToolNames
      /\ phase = "running" /\ torn = None
  BY <1>1, RunningFacts DEF TypeOK
<1>3. /\ DOMAIN files' = DOMAIN files \cup {t.name} /\ files'[t.name] = Garbage
      /\ \A m \in DOMAIN files : m # t.name => files'[m] = files[m]
  BY <1>1, PutFacts
<1>4. phase' = "failed" /\ at' = 1 /\ todo' = {} /\ tools' = tools /\ at' \in DOMAIN Stages
  BY <1>1, FirstStage DEF End
<1>5. TypeOK'
  BY <1>1, <1>2, <1>3, <1>4 DEF TypeOK, Running
<1>6. ToolsInv' /\ StageInv' /\ SuccessIsWhole'
  BY <1>4 DEF ToolsInv, StageInv, SuccessIsWhole, Running
<1>7. registry' = None
  BY <1>1 DEF IInv, StageInv
<1>8. RegistryInv'
  BY <1>7 DEF RegistryInv
<1>9. HandlersInv'
  <2>1. ASSUME NEW u \in tools, OwnHandler(before, u.name), u.name # t.name
        PROVE  (OwnHandler(files, u.name) /\ files[u.name].handler = before[u.name].handler)'
    <3>1. torn # u.name
      BY <1>1, RunningFacts
    <3>2. OwnHandler(files, u.name) /\ files[u.name].handler = before[u.name].handler
      BY <1>2, <2>1, <3>1 DEF IInv, HandlersInv
    <3> QED
      BY <1>1, <1>3, <2>1, <3>2 DEF OwnHandler
  <2> QED
    BY <1>1, <1>4, <2>1 DEF HandlersInv, OwnHandler, Running
<1> QED
  BY <1>5, <1>6, <1>8, <1>9 DEF IInv

\* The other ways in which a run ends early.
LEMMA FailureKeeps ==
  ASSUME IInv, Stop \/ TearShared \/ \E t \in todo : RefuseTool(t)
  PROVE  IInv'
<1>1. Running /\ End /\ UNCHANGED <<pkg, before, torn, runs, edits>> /\ shared' \subseteq shared
  BY DEF Stop, TearShared, RefuseTool, Stage, past
<1>2. shared' \subseteq Shared
  BY <1>1 DEF IInv, TypeOK
<1> QED
  BY <1>1, <1>2, EndKeeps

LEMMA TearRegistryKeeps ==
  ASSUME IInv, TearRegistry
  PROVE  IInv'
<1>1. /\ Running /\ End /\ registry' = Garbage
      /\ UNCHANGED <<files, tests, others, shared, before, torn, runs, edits>>
  BY DEF TearRegistry, Stage, past
<1>2. phase' = "failed" /\ at' = 1 /\ todo' = {} /\ tools' = tools /\ at' \in DOMAIN Stages
  BY <1>1, FirstStage DEF End
<1>3. TypeOK'
  BY <1>1, <1>2, RunningFacts DEF TypeOK, Running
<1>4. ToolsInv' /\ StageInv' /\ SuccessIsWhole'
  BY <1>2 DEF ToolsInv, StageInv, SuccessIsWhole, Running
<1>5. RegistryInv'
  BY <1>1 DEF RegistryInv
<1>6. HandlersInv'
  BY <1>1, <1>2 DEF IInv, HandlersInv, OwnHandler, Running
<1> QED
  BY <1>3, <1>4, <1>5, <1>6 DEF IInv

\* The registry is written when every tool has its file, and no other is left.
LEMMA RegistryKeeps ==
  ASSUME IInv, GenerateToolRegistry
  PROVE  IInv'
<1>1. /\ Running /\ at = 4 /\ registry' = keep /\ Advance
      /\ UNCHANGED <<files, tests, others, shared, before, torn, runs, edits>>
  BY WhichStage DEF GenerateToolRegistry, Stage, past
<1>2. /\ at' = 5 /\ at' \in DOMAIN Stages /\ todo' = tools /\ phase' = "running"
      /\ tools' = tools /\ keep' = keep /\ OfADocument(tools)
  BY <1>1, AdvanceFacts
<1>3. TypeOK /\ keep \subseteq ToolNames /\ tools \subseteq Tool
  BY <1>1, RunningFacts DEF keep
<1>4. TypeOK'
  BY <1>1, <1>2, <1>3 DEF TypeOK, Running
<1>5. ToolsInv' /\ SuccessIsWhole'
  BY <1>2 DEF ToolsInv, SuccessIsWhole, Running, OfADocument
<1>6. /\ DOMAIN files \subseteq keep /\ \A t \in tools : Written(t)
      /\ tests = {} /\ others = {}
  BY <1>1 DEF IInv, StageInv
<1>7. \A t \in tools : Written(t)'
  BY <1>1, <1>6 DEF Written, Has
<1>8. \A k \in 1 .. at' - 1 : Stages[k] \in Shared => Stages[k] \in shared'
  <2>1. \A k \in 1 .. at - 1 : Stages[k] \in Shared => Stages[k] \in shared
    BY <1>1 DEF IInv, StageInv
  <2>2. Stages[4] \notin Shared
    BY StageFacts DEF Shared
  <2>3. \A k \in 1 .. at' - 1 : k \in 1 .. at - 1 \/ k = 4
    BY <1>1, <1>2
  <2> QED
    BY <1>1, <2>1, <2>2, <2>3, Zenon
<1>9. tests' = {t.name : t \in tools' \ todo'}
  BY <1>1, <1>2, <1>6
<1>10. StageInv'
  BY <1>1, <1>2, <1>6, <1>7, <1>8, <1>9 DEF StageInv
<1>11. RegistryInv'
  BY <1>1, <1>2, <1>3, <1>6 DEF RegistryInv, Written, Has, OfADocument, keep
<1>12. HandlersInv'
  BY <1>1, <1>2 DEF IInv, HandlersInv, OwnHandler, Running
<1> QED
  BY <1>4, <1>5, <1>10, <1>11, <1>12 DEF IInv

LEMMA WriteTestKeeps ==
  ASSUME IInv, NEW t \in todo, WriteTest(t)
  PROVE  IInv'
<1>1. /\ Running /\ at = 5 /\ tests' = tests \cup {t.name} /\ todo' = todo \ {t}
      /\ UNCHANGED <<phase, tools, at, files, registry, others, shared, before, torn, runs, edits>>
  BY WhichStage DEF WriteTest, Stage, past
<1>2. /\ todo \subseteq tools /\ t \in tools /\ t.name \in ToolNames /\ TypeOK
      /\ phase = "running"
  BY <1>1, RunningFacts DEF TypeOK
<1>3. TypeOK'
  BY <1>1, <1>2 DEF TypeOK, Running
<1>4. ToolsInv' /\ SuccessIsWhole'
  BY <1>1, <1>2 DEF IInv, ToolsInv, SuccessIsWhole, Running, OfADocument
<1>5. /\ DOMAIN files \subseteq keep /\ \A u \in tools : Written(u)
      /\ tests = {u.name : u \in tools \ todo} /\ registry = keep /\ others = {}
      /\ \A k \in 1 .. at - 1 : Stages[k] \in Shared => Stages[k] \in shared
  BY <1>1 DEF IInv, StageInv
<1>6. tests' = {u.name : u \in tools' \ todo'}
  BY <1>1, <1>2, <1>5
<1>7. \A u \in tools : Written(u)'
  BY <1>1, <1>5 DEF Written, Has
<1>8. StageInv'
  BY <1>1, <1>5, <1>6, <1>7 DEF StageInv, keep
<1>9. RegistryInv' /\ HandlersInv'
  BY <1>1 DEF IInv, RegistryInv, HandlersInv, Has, OwnHandler, Running, OfADocument
<1> QED
  BY <1>3, <1>4, <1>8, <1>9 DEF IInv

\* The stages of tools and of tests end when there is nothing left to write.
LEMMA EndStageKeeps ==
  ASSUME IInv, EndStage
  PROVE  IInv'
<1>1. /\ Running /\ at \in {3, 5} /\ todo = {} /\ Advance /\ UNCHANGED <<pkg, shared, past>>
  BY WhichStage DEF EndStage, Stage
<1>2. /\ at' = at + 1 /\ at' \in DOMAIN Stages /\ todo' = tools /\ phase' = "running"
      /\ tools' = tools /\ keep' = keep /\ OfADocument(tools)
  BY <1>1, AdvanceFacts
<1>3. TypeOK'
  BY <1>1, <1>2 DEF IInv, TypeOK, Running, pkg, past
<1>4. ToolsInv' /\ SuccessIsWhole'
  BY <1>2 DEF ToolsInv, SuccessIsWhole, Running, OfADocument
<1>5. \A k \in 1 .. at' - 1 : Stages[k] \in Shared => Stages[k] \in shared'
  <2>1. \A k \in 1 .. at - 1 : Stages[k] \in Shared => Stages[k] \in shared
    BY <1>1 DEF IInv, StageInv
  <2>2. Stages[3] \notin Shared /\ Stages[5] \notin Shared
    BY StageFacts DEF Shared
  <2>3. \A k \in 1 .. at' - 1 : k \in 1 .. at - 1 \/ k = 3 \/ k = 5
    BY <1>1, <1>2
  <2>4. shared' = shared
    BY <1>1
  <2> QED
    BY <2>1, <2>2, <2>3, <2>4, Zenon
<1>6. /\ DOMAIN files \subseteq keep /\ others = {}
      /\ at = 3 => tests = {}
      /\ at = 5 => registry = keep /\ tests = {t.name : t \in tools \ todo}
  <2>1. StageInv
    BY DEF IInv
  <2>2. CASE at = 3
    BY <1>1, <2>1, <2>2 DEF StageInv
  <2>3. CASE at = 5
    BY <1>1, <2>1, <2>3 DEF StageInv
  <2> QED
    BY <1>1, <2>2, <2>3
<1>7. at = 5 => tests = keep
  BY <1>1, <1>6 DEF keep
<1>8. \A t \in tools : Written(t)
  <2>1. \A t \in tools \ todo : at = 3 => Written(t)
    BY <1>1 DEF IInv, StageInv
  <2>2. \A t \in tools : at = 5 => Written(t)
    BY <1>1 DEF IInv, StageInv
  <2> QED
    BY <1>1, <2>1, <2>2
<1>9. \A t \in tools : Written(t)'
  BY <1>1, <1>8 DEF Written, Has, pkg
<1>10. StageInv'
  <2>1. /\ files' = files /\ tests' = tests /\ registry' = registry /\ others' = others
        /\ at \in {3, 5}
    BY <1>1 DEF pkg
  <2>2. CASE at = 3
    BY <1>2, <1>5, <1>6, <1>9, <2>1, <2>2 DEF StageInv
  <2>3. CASE at = 5
    BY <1>2, <1>5, <1>6, <1>7, <1>9, <2>1, <2>3 DEF StageInv
  <2> QED
    BY <2>1, <2>2, <2>3
<1>11. RegistryInv' /\ HandlersInv'
  BY <1>1, <1>2 DEF IInv, RegistryInv, HandlersInv, pkg, past, Has, OwnHandler, OfADocument,
                    Running
<1> QED
  BY <1>3, <1>4, <1>10, <1>11 DEF IInv

\* The last of the other stages ends a run, with everything there.
LEMMA WriteSharedKeeps ==
  ASSUME IInv, WriteShared
  PROVE  IInv'
<1>1. /\ Running /\ at \in {1, 6, 7, 8} /\ Stages[at] \in Shared /\ Advance
      /\ shared' = shared \cup {Stages[at]}
      /\ others' = IF Stages[at] = "common tests" THEN others \cup {"common tests"} ELSE others
      /\ UNCHANGED <<files, tests, registry, before, torn, runs, edits>>
  BY WhichStage DEF WriteShared, past
<1>2. at = 1 \/ at = 6 \/ at = 7 \/ at = 8
  BY <1>1
<1>3. /\ at = 6 => others' = others \cup {"common tests"}
      /\ at # 6 => others' = others
  BY <1>1, WhichStage
<1>4. OfADocument(tools) /\ tools' = tools /\ phase = "running" /\ torn = None /\ TypeOK
  BY <1>1, RunningFacts DEF Advance
<1>5. /\ at = 8 => phase' = "done" /\ at' = 1 /\ todo' = {}
      /\ at # 8 => phase' = "running" /\ at' = at + 1 /\ todo' = tools
  BY <1>1, <1>4, StageFacts DEF Advance
<1>6. at # 8 => at' = at + 1
  BY <1>5
<1>7. at' \in DOMAIN Stages
  <2>1. at # 8 => at' \in 1 .. 8
    BY <1>2, <1>6
  <2> QED
    BY <1>5, <2>1, FirstStage, StageFacts, Zenon
<1>8. TypeOK'
  BY <1>1, <1>4, <1>5, <1>7 DEF TypeOK, Running
<1>9. ToolsInv'
  BY <1>4, <1>5 DEF ToolsInv, Running, OfADocument
<1>10. RegistryInv' /\ HandlersInv'
  BY <1>1, <1>4, <1>5 DEF IInv, RegistryInv, HandlersInv, Has, OwnHandler, OfADocument, Running
<1> DEFINE Whole == /\ DOMAIN files \subseteq keep /\ registry = keep /\ tests = keep
                    /\ \A t \in tools : Written(t)
<1>11. /\ at # 1 => Whole
       /\ at = 6 => others = {}
       /\ at = 7 \/ at = 8 => others = {"common tests"}
  <2>1. StageInv /\ Running
    BY <1>1 DEF IInv
  <2>2. CASE at = 1
    BY <2>2
  <2>3. CASE at = 6
    BY <2>1, <2>3 DEF StageInv
  <2>4. CASE at = 7 \/ at = 8
    <3>1. at >= 3 /\ at >= 4 /\ at >= 5 /\ at >= 6 /\ at >= 7 /\ at # 6
      BY <2>4
    <3> QED
      BY <2>1, <2>4, <3>1, Zenon DEF StageInv
  <2> QED
    BY <1>2, <2>2, <2>3, <2>4
<1>12. keep' = keep /\ (Whole => Whole')
  BY <1>1, <1>4 DEF keep, Written, Has
<1>13. \A k \in 1 .. at : Stages[k] \in Shared => Stages[k] \in shared'
  <2>1. \A k \in 1 .. at - 1 : Stages[k] \in Shared => Stages[k] \in shared
    BY <1>1 DEF IInv, StageInv
  <2>2. \A k \in 1 .. at : k \in 1 .. at - 1 \/ k = at
    BY <1>2
  <2> QED
    BY <1>1, <2>1, <2>2, Zenon
<1>14. CASE at = 8
  <2>1. StageInv'
    BY <1>5, <1>14 DEF StageInv, Running
  <2>2. at # 1
    BY <1>14
  <2>3. Whole /\ others = {"common tests"}
    BY <1>11, <1>14, <2>2, Zenon
  <2>4. DOMAIN files = keep
    BY <2>3 DEF Written, Has, keep
  <2>5. shared' = Shared
    <3>1. shared' \subseteq Shared
      BY <1>8 DEF TypeOK
    <3>2. 1 \in 1 .. at /\ 6 \in 1 .. at /\ 7 \in 1 .. at /\ 8 \in 1 .. at
      BY <1>14
    <3> QED
      BY <3>1, <3>2, <1>13, StageFacts DEF Shared
  <2>6. SuccessIsWhole'
    <3>1. \A t \in tools : files'[t.name] \in Usable /\ files'[t.name].schema = t.op
      BY <1>1, <2>3 DEF Written
    <3>2. others' = others
      BY <1>3, <1>14
    <3> QED
      BY <1>1, <1>4, <1>12, <2>3, <2>4, <2>5, <3>1, <3>2, Zenon DEF SuccessIsWhole
  <2> QED
    BY <1>8, <1>9, <1>10, <2>1, <2>6 DEF IInv
<1>15. CASE at # 8
  <2>1. SuccessIsWhole'
    BY <1>5, <1>15 DEF SuccessIsWhole
  <2>2. \A k \in 1 .. at' - 1 : Stages[k] \in Shared => Stages[k] \in shared'
    <3>1. \A k \in 1 .. at' - 1 : k \in 1 .. at
      BY <1>2, <1>6, <1>15
    <3> QED
      BY <1>13, <3>1, Zenon
  <2>3. CASE at = 1
    <3>1. at' = 2
      BY <1>6, <2>3
    <3>2. /\ ~(at' >= 3) /\ at' # 3 /\ ~(at' >= 4) /\ ~(at' >= 5) /\ at' \notin {3, 4}
          /\ at' # 5 /\ ~(at' >= 6) /\ at' \notin 3 .. 6 /\ ~(at' >= 7)
      BY <3>1
    <3>3. StageInv'
      BY <2>2, <3>2, Zenon DEF StageInv
    <3> QED
      BY <1>8, <1>9, <1>10, <2>1, <3>3, Zenon DEF IInv
  <2>4. CASE at = 6 \/ at = 7
    <3>1. others' = {"common tests"}
      BY <1>3, <1>11, <2>4
    <3>2. at # 1
      BY <2>4
    <3>3. Whole'
      BY <1>11, <1>12, <3>2, Zenon
    <3>4. at' = 7 \/ at' = 8
      BY <1>6, <2>4
    <3>5. at' # 3 /\ at' \notin {3, 4} /\ at' # 5 /\ at' \notin 3 .. 6
      BY <3>4
    <3>6. StageInv'
      BY <2>2, <3>1, <3>3, <3>5, Zenon DEF StageInv
    <3> QED
      BY <1>8, <1>9, <1>10, <2>1, <3>6, Zenon DEF IInv
  <2> QED
    BY <1>2, <1>15, <2>3, <2>4
<1> QED
  BY <1>14, <1>15

\* Between the runs a user leaves every file of a registry's tools in its place.
LEMMA EditKeeps ==
  ASSUME IInv,
         \/ AddFile
         \/ \E n \in DOMAIN files : WriteHandler(n) \/ Spoil(n)
  PROVE  IInv'
<1>1. Edit
  BY DEF AddFile, WriteHandler, Spoil
<1>2. /\ phase # "running" /\ phase' = "edited" /\ tools' = {} /\ before' = <<>> /\ torn' = None
      /\ UNCHANGED <<at, todo, tests, registry, shared, runs>>
  BY <1>1 DEF Edit
<1>3. /\ others' \subseteq others \cup {"own.go"}
      /\ DOMAIN files' = DOMAIN files
      /\ \A m \in DOMAIN files :
           \/ files'[m] = files[m]
           \/ files'[m] \in {Garbage, Twice}
           \/ /\ files[m] \in Usable /\ files'[m] \in Usable
              /\ files'[m].schema = files[m].schema
  <2>1. CASE AddFile
    BY <2>1 DEF AddFile
  <2>2. ASSUME NEW n \in DOMAIN files, WriteHandler(n) PROVE <1>3!:
    <3> DEFINE own == [own |-> TRUE, op |-> files[n].schema]
               new == [files[n] EXCEPT !.handler = own]
    <3>1. files[n] \in Usable /\ Put(n, new) /\ others' = others
      BY <2>2 DEF WriteHandler, IInv, TypeOK
    <3>2. own \in Handler
      BY <3>1 DEF Usable, Handler
    <3>3. new \in Usable /\ new.schema = files[n].schema
      BY <3>1, <3>2 DEF Usable
    <3> HIDE DEF new
    <3>4. /\ DOMAIN files' = DOMAIN files /\ files'[n] = new
          /\ \A m \in DOMAIN files : m # n => files'[m] = files[m]
      BY <3>1, PutFacts
    <3> QED
      BY <3>1, <3>3, <3>4
  <2>3. ASSUME NEW n \in DOMAIN files, Spoil(n) PROVE <1>3!:
    <3>1. PICK mess \in {Garbage, Twice} : Put(n, mess)
      BY <2>3 DEF Spoil
    <3>2. /\ DOMAIN files' = DOMAIN files /\ files'[n] \in {Garbage, Twice}
          /\ \A m \in DOMAIN files : m # n => files'[m] = files[m]
      BY <3>1, PutFacts
    <3>3. others' = others
      BY <2>3 DEF Spoil
    <3>4. \A m \in DOMAIN files : files'[m] = files[m] \/ files'[m] \in {Garbage, Twice}
      BY <3>2, Zenon
    <3> QED
      BY <3>2, <3>3, <3>4, Zenon
  <2> QED
    BY <2>1, <2>2, <2>3
<1>4. edits' \in 0 .. MaxEdits
  <2>1. edits \in 0 .. MaxEdits
    BY DEF IInv, TypeOK
  <2>2. edits < MaxEdits /\ edits' = edits + 1
    BY <1>1 DEF Edit
  <2>3. MaxEdits \in Nat
    BY GeneratorAssumption
  <2> QED
    BY <2>1, <2>2, <2>3
<1>5. todo = {}
  BY <1>2 DEF IInv, ToolsInv, Running
<1>6. TypeOK'
  <2>1. \A n \in DOMAIN files' : files'[n] \in {Garbage, Twice} \/ files'[n] \in Usable
    BY <1>3 DEF IInv, TypeOK
  <2>2. DOMAIN files' \subseteq ToolNames /\ others' \subseteq {"common tests", "own.go"}
    BY <1>3 DEF IInv, TypeOK
  <2>3. /\ tests' \subseteq ToolNames /\ shared' \subseteq Shared
        /\ registry' \in {None, Garbage} \/ registry' \subseteq ToolNames
        /\ at' \in DOMAIN Stages /\ runs' \in 0 .. MaxRuns
    BY <1>2 DEF IInv, TypeOK
  <2>4. tools' \subseteq Tool /\ todo' \subseteq tools' /\ DOMAIN before' \subseteq ToolNames
    BY <1>2, <1>5
  <2>5. torn' = None /\ phase' \in {"none", "running", "done", "failed", "edited"}
    BY <1>2
  <2> QED
    BY <1>4, <2>1, <2>2, <2>3, <2>4, <2>5, Zenon DEF TypeOK
<1>7. ToolsInv' /\ StageInv' /\ SuccessIsWhole' /\ HandlersInv'
  BY <1>2, <1>5 DEF ToolsInv, StageInv, SuccessIsWhole, HandlersInv, Running
<1>8. ASSUME registry' \notin {None, Garbage}
      PROVE  \E ts \in SUBSET Tool :
               /\ OfADocument(ts)
               /\ registry' = {t.name : t \in ts}
               /\ DOMAIN files' \subseteq registry'
               /\ \A t \in ts : t.name \in DOMAIN files' =>
                    files'[t.name] \in {Garbage, Twice} \/ files'[t.name].schema = t.op
  <2>1. PICK ts \in SUBSET Tool :
          /\ OfADocument(ts)
          /\ registry = {t.name : t \in ts}
          /\ DOMAIN files \subseteq registry
          /\ \A t \in ts : t.name \in DOMAIN files =>
               files[t.name] \in {Garbage, Twice} \/ files[t.name].schema = t.op
    BY <1>2, <1>8 DEF IInv, RegistryInv, Has
  <2>2. ASSUME NEW t \in ts, t.name \in DOMAIN files'
        PROVE  files'[t.name] \in {Garbage, Twice} \/ files'[t.name].schema = t.op
    <3>1. t.name \in DOMAIN files
      BY <1>3, <2>2
    <3>2. files[t.name] \in {Garbage, Twice} \/ files[t.name].schema = t.op
      BY <2>1, <3>1
    <3>3. files[t.name] \in Usable => files[t.name] \notin {Garbage, Twice}
      BY GeneratorAssumption
    <3> QED
      BY <1>3, <3>1, <3>2, <3>3
  <2> QED
    BY <1>2, <1>3, <2>1, <2>2
<1>9. RegistryInv'
  BY <1>8 DEF RegistryInv, Has, OfADocument
<1> QED
  BY <1>6, <1>7, <1>9 DEF IInv

LEMMA InitIInv ==
  ASSUME Init
  PROVE  IInv
<1>1. /\ phase = "none" /\ tools = {} /\ at = 1 /\ todo = {} /\ files = <<>> /\ tests = {}
      /\ registry = None /\ others = {} /\ shared = {} /\ before = <<>> /\ torn = None
      /\ runs = 0 /\ edits = 0
  BY DEF Init
<1>2. runs \in 0 .. MaxRuns /\ edits \in 0 .. MaxEdits
  <2>1. MaxRuns \in Nat /\ MaxEdits \in Nat
    BY GeneratorAssumption
  <2> QED
    BY <1>1, <2>1
<1>3. at \in DOMAIN Stages
  BY <1>1, FirstStage
<1>4. DOMAIN files = {} /\ DOMAIN before = {}
  BY <1>1
<1>5. TypeOK
  BY <1>1, <1>2, <1>3, <1>4, Zenon DEF TypeOK
<1>6. ToolsInv /\ StageInv /\ SuccessIsWhole /\ RegistryInv /\ HandlersInv
  BY <1>1 DEF ToolsInv, StageInv, SuccessIsWhole, RegistryInv, HandlersInv, Running
<1> QED
  BY <1>5, <1>6 DEF IInv

LEMMA NextIInv ==
  ASSUME IInv, [Next]_vars
  PROVE  IInv'
<1>1. ASSUME NEW doc \in Documents, NEW includes \in Filters, NEW excludes \in Filters,
             Start(doc, includes, excludes)
      PROVE  IInv'
  BY <1>1, StartKeeps
<1>2. CASE Refuse
  BY <1>2, RefuseKeeps
<1>3. CASE Clean \/ EndClean
  BY <1>3, CleanKeeps, EndCleanKeeps
<1>4. ASSUME NEW t \in todo, WriteTool(t) \/ RefuseTool(t) \/ TearTool(t) \/ WriteTest(t)
      PROVE  IInv'
  BY <1>4, WriteToolKeeps, FailureKeeps, TearToolKeeps, WriteTestKeeps
<1>5. CASE GenerateToolRegistry \/ TearRegistry
  BY <1>5, RegistryKeeps, TearRegistryKeeps
<1>6. CASE EndStage \/ WriteShared
  BY <1>6, EndStageKeeps, WriteSharedKeeps
<1>7. CASE TearShared \/ Stop
  BY <1>7, FailureKeeps
<1>8. CASE AddFile \/ \E n \in DOMAIN files : WriteHandler(n) \/ Spoil(n)
  BY <1>8, EditKeeps
<1>9. CASE UNCHANGED vars
  <2>1. UNCHANGED <<phase, tools, at, todo, files, tests, registry, others, shared, before,
                    torn, runs, edits>>
    BY <1>9 DEF vars, run, pkg, past
  <2>2. TypeOK'
    BY <2>1 DEF IInv, TypeOK, Running
  <2>3. ToolsInv'
    BY <2>1 DEF IInv, ToolsInv, Running, OfADocument
  <2>4. StageInv'
    BY <2>1 DEF IInv, StageInv, Running, keep, Written, Has
  <2>5. SuccessIsWhole'
    BY <2>1 DEF IInv, SuccessIsWhole, keep
  <2>6. RegistryInv' /\ HandlersInv'
    BY <2>1 DEF IInv, RegistryInv, HandlersInv, Running, Has, OwnHandler, OfADocument
  <2> QED
    BY <2>2, <2>3, <2>4, <2>5, <2>6 DEF IInv
<1> QED
  BY <1>1, <1>2, <1>3, <1>4, <1>5, <1>6, <1>7, <1>8, <1>9 DEF Next

LEMMA Invariance == Spec => []IInv
<1>1. Init => IInv
  BY InitIInv
<1>2. IInv /\ [Next]_vars => IInv'
  BY NextIInv
<1> QED
  BY <1>1, <1>2, PTL DEF Spec

\* The variables keep their types, whatever the documents, the filters and the
\* number of runs and of edits.
THEOREM TypeCorrect == Spec => []TypeOK
<1>1. IInv => TypeOK
  BY DEF IInv
<1> QED
  BY <1>1, Invariance, PTL

\* A successful run leaves its own tools and no others, and a project that can
\* be built at any moment serves the tools of one document (tools.go:24,
\* mcp.go:48).
THEOREM WholeRuns == Spec => []RunsAreWhole
<1>1. IInv => RunsAreWhole
  <2>1. ASSUME IInv, Builds
        PROVE  \E doc \in Documents, includes, excludes \in Filters :
                 \E ts \in Convert(doc, includes, excludes) : Serves(ts)
    <3>1. registry \notin {None, Garbage}
      BY <2>1 DEF Builds
    <3>2. PICK ts \in SUBSET Tool :
            /\ OfADocument(ts)
            /\ registry = {t.name : t \in ts}
            /\ \A t \in ts : Has(t.name) =>
                 files[t.name] \in {Garbage, Twice} \/ files[t.name].schema = t.op
      BY <2>1, <3>1 DEF IInv, RegistryInv
    <3>3. \A t \in ts : files[t.name].schema = t.op
      BY <2>1, <3>2 DEF Builds, Has
    <3>4. Serves(ts)
      BY <3>2, <3>3 DEF Serves
    <3> QED
      BY <3>2, <3>4 DEF OfADocument
  <2>2. IInv => BuildsAreWhole
    BY <2>1 DEF BuildsAreWhole
  <2> QED
    BY <2>2 DEF RunsAreWhole, IInv
<1> QED
  BY <1>1, Invariance, PTL

\* A handler that a user wrote is there after a run, however it ended, but for
\* the one in a file that was being written when the run was killed
\* (extractHandlerImplementation, tools.go:24).
THEOREM HandlersKept == Spec => []HandlersSurvive
<1>1. IInv => HandlersSurvive
  BY DEF IInv, HandlersInv, HandlersSurvive
<1> QED
  BY <1>1, Invariance, PTL
=============================================================================
