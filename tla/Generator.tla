----------------------------- MODULE Generator -----------------------------
(***************************************************************************)
(* Runs of mcpfather on one output directory (pkg/generator): what each    *)
(* run keeps, removes and writes, what a run that fails or is killed leaves*)
(* behind, and what users do to the files in between.                      *)
(*                                                                         *)
(* In pkg/mcptools every tool has a file with its schema and its handler,  *)
(* and a test file; registry.go lists the tools.  Everything else is the   *)
(* same for all documents, or documentation: it is one file per stage.     *)
(***************************************************************************)
EXTENDS Converter, Functions

CONSTANTS
  Filters,   \* values of --includes and --excludes that are tried
  MaxRuns, MaxEdits,
  None,
  Garbage,   \* a file without a handler that could be extracted
  Twice      \* a tool file with two such handlers

Handler == [own: BOOLEAN, op: Operation]
Usable  == [schema: Operation, handler: Handler]

ASSUME GeneratorAssumption ==
  /\ {} \in Filters /\ \A ids \in Filters : ids \subseteq Ids
  /\ MaxRuns \in Nat /\ MaxEdits \in Nat
  /\ Garbage # Twice /\ {None, Garbage, Twice} \cap Usable = {} /\ None # Garbage
  /\ None \notin Handler /\ None \notin ToolNames

\* What GenerateMCP does, in its order.  "clean" and "tools" are the two halves
\* of GenerateToolFiles; "project" is go.mod, main.go, gen-dsl-schema and
\* server.go, "code" the packages mcpcli, helpers, mcpvirtual and mcpconfig, and
\* "documents" what is not compiled: the skill, scripts, README, deployment.
Stages == <<"project", "clean", "tools", "registry.go", "tests", "common tests",
            "code", "documents">>

Shared == {"project", "common tests", "code", "documents"}

\* Stages with a file that is written again though it would not change
\* (os.WriteFile); writeFileContent leaves alone a file that has its content.
Rewritten == {"project", "code", "documents"}

\* What the server is compiled from, apart from pkg/mcptools.
Compiled == {"project", "code"}

VARIABLES
  phase,     \* of the latest run, or "edited" after it
  tools,     \* the latest run's tools
  at,        \* the stage it is at
  todo,      \* tools whose file or test is still to be written in this stage
  files,     \* pkg/mcptools: the tools' files
  tests,     \* the tools' test files
  registry,  \* the names registry.go lists
  others,    \* other files: the common tests, and a user's own source file
  shared,    \* stages whose files are there and whole
  before,    \* files when the latest run began
  torn,      \* name of the tool whose file it was writing when it ended, if any
  runs, edits

run  == <<phase, tools, at, todo>>
pkg  == <<files, tests, registry, others>>
past == <<before, torn, runs, edits>>
vars == <<run, pkg, shared, past>>

Running  == phase = "running"
Stage(s) == Running /\ Stages[at] = s
Has(n)   == n \in DOMAIN files

TypeOK ==
  /\ phase \in {"none", "running", "done", "failed", "edited"}
  /\ tools \subseteq Tool /\ todo \subseteq tools
  /\ at \in DOMAIN Stages
  /\ DOMAIN files \subseteq ToolNames
  /\ \A n \in DOMAIN files : files[n] \in {Garbage, Twice} \/ files[n] \in Usable
  /\ tests \subseteq ToolNames
  /\ registry \in {None, Garbage} \/ registry \subseteq ToolNames
  /\ others \subseteq {"common tests", "own.go"}
  /\ shared \subseteq Shared
  /\ DOMAIN before \subseteq ToolNames
  /\ torn # None => torn \in {t.name : t \in tools} /\ ~Running
  /\ runs \in 0 .. MaxRuns /\ edits \in 0 .. MaxEdits

Init ==
  /\ phase = "none" /\ tools = {} /\ at = 1 /\ todo = {}
  /\ files = <<>> /\ tests = {} /\ registry = None /\ others = {}
  /\ shared = {}
  /\ before = <<>> /\ torn = None /\ runs = 0 /\ edits = 0

Advance ==
  /\ IF at = Len(Stages)
     THEN phase' = "done" /\ at' = 1 /\ todo' = {}
     ELSE at' = at + 1 /\ todo' = tools /\ UNCHANGED phase
  /\ UNCHANGED tools

End == phase' = "failed" /\ at' = 1 /\ todo' = {} /\ UNCHANGED tools

(***************************************************************************)
(* The beginning of a run                                                  *)
(***************************************************************************)
Begin ==
  /\ ~Running /\ runs < MaxRuns
  /\ runs' = runs + 1 /\ before' = files /\ torn' = None
  /\ at' = 1
  /\ UNCHANGED <<pkg, shared, edits>>

Start(doc, includes, excludes) ==
  /\ Begin
  /\ Accepts(doc, includes, excludes)
  /\ tools' \in Convert(doc, includes, excludes)
  /\ todo' = tools' /\ phase' = "running"

\* The document does not parse, the filters are refused, or an operation cannot
\* be converted: nothing has been touched.
Refuse ==
  /\ Begin
  /\ tools' = {} /\ todo' = {} /\ phase' = "failed"

(***************************************************************************)
(* GenerateToolFiles: everything in pkg/mcptools that ends in .go and is   *)
(* not named after a tool goes, in an order that depends on the names.     *)
(* That os.Remove succeeds is assumed: the code ignores its error.         *)
(***************************************************************************)
keep == {t.name : t \in tools}

\* Mutants: the removal spares the tests, or the registry.
NoTests == {}

NoRegistry == FALSE

StaleFiles == DOMAIN files \ keep

StaleTests == tests

StaleRegistry == registry # None

RemoveFile ==
  /\ \E n \in StaleFiles : files' = Restrict(files, DOMAIN files \ {n})
  /\ UNCHANGED <<tests, registry, others>>

RemoveTest ==
  /\ \E n \in StaleTests : tests' = tests \ {n}
  /\ UNCHANGED <<files, registry, others>>

RemoveRegistry ==
  /\ StaleRegistry /\ registry' = None
  /\ UNCHANGED <<files, tests, others>>

RemoveOther ==
  /\ \E f \in others : others' = others \ {f}
  /\ UNCHANGED <<files, tests, registry>>

Clean ==
  /\ Stage("clean")
  /\ RemoveFile \/ RemoveTest \/ RemoveRegistry \/ RemoveOther
  /\ UNCHANGED <<run, shared, past>>

EndClean ==
  /\ Stage("clean")
  /\ StaleFiles = {} /\ StaleTests = {} /\ ~StaleRegistry /\ others = {}
  /\ Advance
  /\ UNCHANGED <<pkg, shared, past>>

(***************************************************************************)
(* GenerateToolFiles: a tool's file gets the schema of its operation, and  *)
(* the handler it had, whoever wrote that one.                             *)
(***************************************************************************)
extractHandlerImplementation(n) ==
  IF Has(n) /\ files[n] \notin {Garbage, Twice} THEN files[n].handler ELSE None

Generated(t) == [own |-> FALSE, op |-> t.op]

\* Mutants: a handler is kept while its operation does not change; a missing one
\* is not replaced.
HandlerIfSame(t) ==
  LET existing == extractHandlerImplementation(t.name)
  IN  IF existing # None /\ existing.op = t.op THEN existing ELSE Generated(t)

HandlerIfAny(t) == IF Has(t.name) THEN extractHandlerImplementation(t.name) ELSE Generated(t)

HandlerFor(t) ==
  LET existing == extractHandlerImplementation(t.name)
  IN  IF existing # None THEN existing ELSE Generated(t)

NewFile(t) == [schema |-> t.op, handler |-> HandlerFor(t)]

Writable(t) == ~(Has(t.name) /\ files[t.name] = Twice) /\ Valid(t)

Put(n, content) ==
  files' = [m \in DOMAIN files \cup {n} |-> IF m = n THEN content ELSE files[m]]

WriteTool(t) ==
  /\ Stage("tools") /\ t \in todo /\ Writable(t)
  /\ Put(t.name, NewFile(t))
  /\ todo' = todo \ {t}
  /\ UNCHANGED <<phase, tools, at, tests, registry, others, shared, past>>

\* Two handlers, or code that gofmt refuses.
RefuseTool(t) ==
  /\ Stage("tools") /\ t \in todo /\ ~Writable(t)
  /\ End
  /\ UNCHANGED <<pkg, shared, past>>

\* os.WriteFile empties the file first; a run may end before it is written.
TearTool(t) ==
  /\ Stage("tools") /\ t \in todo /\ Writable(t)
  /\ ~(Has(t.name) /\ files[t.name] = NewFile(t))
  /\ Put(t.name, Garbage)
  /\ torn' = t.name
  /\ End
  /\ UNCHANGED <<tests, registry, others, shared, before, runs, edits>>

(***************************************************************************)
(* The other stages                                                        *)
(***************************************************************************)
GenerateToolRegistry ==
  /\ Stage("registry.go")
  /\ registry' = keep
  /\ Advance
  /\ UNCHANGED <<files, tests, others, shared, past>>

TearRegistry ==
  /\ Stage("registry.go")
  /\ registry' = Garbage
  /\ End
  /\ UNCHANGED <<files, tests, others, shared, past>>

WriteTest(t) ==
  /\ Stage("tests") /\ t \in todo
  /\ tests' = tests \cup {t.name}
  /\ todo' = todo \ {t}
  /\ UNCHANGED <<phase, tools, at, files, registry, others, shared, past>>

EndStage ==
  /\ Stage("tools") \/ Stage("tests")
  /\ todo = {}
  /\ Advance
  /\ UNCHANGED <<pkg, shared, past>>

WriteShared ==
  /\ Running /\ Stages[at] \in Shared
  /\ shared' = shared \cup {Stages[at]}
  /\ others' = IF Stages[at] = "common tests" THEN others \cup {"common tests"} ELSE others
  /\ Advance
  /\ UNCHANGED <<files, tests, registry, past>>

TearShared ==
  /\ Running /\ Stages[at] \in Shared
  /\ Stages[at] \notin shared \/ Stages[at] \in Rewritten
  /\ shared' = shared \ {Stages[at]}
  /\ End
  /\ UNCHANGED <<pkg, past>>

\* A write that fails before it begins, or a kill between two steps.
Stop == Running /\ End /\ UNCHANGED <<pkg, shared, past>>

(***************************************************************************)
(* Users, between the runs                                                 *)
(***************************************************************************)
Edit ==
  /\ phase \in {"done", "failed", "edited"} /\ edits < MaxEdits
  /\ edits' = edits + 1
  /\ phase' = "edited" /\ tools' = {} /\ before' = <<>> /\ torn' = None
  /\ UNCHANGED <<at, todo, tests, registry, shared, runs>>

WriteHandler(n) ==
  /\ Edit
  /\ files[n] \notin {Garbage, Twice}
  /\ Put(n, [files[n] EXCEPT !.handler = [own |-> TRUE, op |-> files[n].schema]])
  /\ UNCHANGED others

\* Left half done: the file does not parse, or has the handler twice.
Spoil(n) ==
  /\ Edit
  /\ files[n] \notin {Garbage, Twice}
  /\ \E mess \in {Garbage, Twice} : Put(n, mess)
  /\ UNCHANGED others

AddFile ==
  /\ Edit
  /\ others' = others \cup {"own.go"}
  /\ UNCHANGED files

Next ==
  \/ \E doc \in Documents, includes, excludes \in Filters : Start(doc, includes, excludes)
  \/ Refuse
  \/ Clean \/ EndClean
  \/ \E t \in todo : WriteTool(t) \/ RefuseTool(t) \/ TearTool(t) \/ WriteTest(t)
  \/ GenerateToolRegistry \/ TearRegistry
  \/ EndStage \/ WriteShared \/ TearShared \/ Stop
  \/ \E n \in DOMAIN files : WriteHandler(n) \/ Spoil(n)
  \/ AddFile

Spec == Init /\ [][Next]_vars

(***************************************************************************)
(* Properties                                                              *)
(***************************************************************************)
\* A run that ends well leaves exactly its own tools, whatever earlier runs
\* that failed or were killed, other documents and users left there.
SuccessIsWhole ==
  phase = "done" =>
    /\ DOMAIN files = keep /\ tests = keep /\ registry = keep
    /\ \A t \in tools : files[t.name] \in Usable /\ files[t.name].schema = t.op
    /\ others = {"common tests"} /\ shared = Shared

Builds ==
  /\ registry \notin {None, Garbage} /\ registry \subseteq DOMAIN files
  /\ \A n \in DOMAIN files : files[n] \notin {Garbage, Twice}
  /\ Compiled \subseteq shared

Serves(ts) ==
  /\ registry = {t.name : t \in ts}
  /\ \A t \in ts : files[t.name].schema = t.op

\* At every moment, also after a run that ended half-way, a project that can be
\* built serves the tools of one document, never a mixture of two.  It rests on
\* the removal of registry.go before the first tool file is written.
BuildsAreWhole ==
  Builds =>
    \E doc \in Documents, includes, excludes \in Filters :
      \E ts \in Convert(doc, includes, excludes) : Serves(ts)

\* The tools of one document and no others: in the directory after a run that
\* ends well, and in a server that can be built at any other moment.
RunsAreWhole == SuccessIsWhole /\ BuildsAreWhole

OwnHandler(fs, n) == n \in DOMAIN fs /\ fs[n] \in Usable /\ fs[n].handler.own

\* A handler written by a user is there after a run, however it ended, if its
\* tool still is and has its name for itself: all but the one whose file was
\* being written when the run was killed (tools.go:24).
HandlersSurvive ==
  phase \in {"done", "failed"} =>
    \A t \in tools :
      t.name = <<PascalCase[t.op.id]>> /\ OwnHandler(before, t.name) /\ torn # t.name =>
        OwnHandler(files, t.name) /\ files[t.name].handler = before[t.name].handler

\* The statement of mcp.go:48 without conditions: a successful run preserves the
\* handlers of the operations it finds again, under the tool they were
\* written for.  Refuted where names collide.
HandlersPreserved ==
  phase = "done" =>
    \A n \in DOMAIN before :
      OwnHandler(before, n) /\ before[n].handler.op \in {t.op : t \in tools} =>
        \E t \in tools : /\ t.op = before[n].handler.op
                        /\ files[t.name].handler = before[n].handler
=============================================================================
