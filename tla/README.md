# mcpfather: specification and verification

mcpfather generates, from an OpenAPI document and a configuration, an MCP server
in Go: every API operation becomes a tool, and *virtual tools* run small
pipelines of API calls. This directory holds TLA+ models of the parts of that
system whose behaviour over time is hard to test, the TLC runs that check them
and the proofs TLAPS checks. Paths below are relative to `src/pkg/generator/`
unless they begin with another directory; `templates/*.templ` are the sources
of the generated server.

## 1. The system

| component | state | operations | what makes it correct |
|---|---|---|---|
| Virtual-tool engine, validator (`mcpvirtual/engine/engine.go`, `mcpvirtual/pipeline/validator.go`) | the registered tools | load and validate a configuration, build a handler | a pipeline that is admitted does not fail for want of a value or of an emit |
| Virtual-tool executor (`engine/executor.go`, `engine/context.go`, `node/*.go`) | per call: arguments, outputs by step id, element contexts | run a step, resolve `$` references, require, return | outputs of one call, or element, are never seen in another; an answer is built only on steps that succeeded |
| Foreach step (`node/foreach.go`) | per call: one goroutine per element, semaphore channel, WaitGroup, mutex, first error, results | spawn, acquire, run, commit, release, wait | bounded concurrency, no lost error or value, no goroutine left behind, always returns |
| HTTP middleware (`templates/client.templ`) | compiled policies; per request: attempt, budget, body | compile, validate, send, retry, wait | retry count, time budget, method allowlist, whole bodies, no stale answer |
| Temporary file store, TFS (`templates/client.templ`) | files under final and `.inprogress` names, metadata map | upload, save response, download, forward, clean job | only whole files leave; a file is there until it has been downloaded, forwarded or grown old, and gone afterwards |
| Upstream OIDC (`templates/auth.templ`, `templates/config.templ`) | cached token, mutex, background goroutine | get token, refresh, shut down | few and serialised fetches, a good token, no hanging call or shutdown |
| Tool registration (`templates/server.templ`) | tool map, exposure filter | resolve filters, register | what is exposed is what was asked for |
| Generated CLI (`templates/cli.templ`) | none: it reads the configuration for itself | list, call | it offers what the server offers |
| Resource server (`templates/resource_server.templ`) | verifier | check inbound tokens | nothing is served without a valid token |
| Runtime configuration (`templates/config.templ`) | one `Config`, walked by reflection | defaults, file, environment | a later layer overrides what it names and nothing else |
| Main (`templates/main.templ`) | process, three HTTP servers, the requests open on them | start, serve, stop | requests get their grace period; the process ends |
| Converter (`../converter/`) | one document | filter, name, convert | each selected operation gives one tool, with a name of its own |
| Schema conversion, response documentation (`../converter/`) | the graph of an operation's schemas; a visited map per walk | normalise 3.1, walk, write Draft 7, turn a form into arguments | a tool refuses no request the API accepts; recursion ends on cyclic schemas |
| Generator (`tools.go`, `mcp.go`, `write*.go`) | the output directory | remove stale files, write, format | regeneration keeps what the user owns; what a failed run leaves is no mixture |
| virtual tools' schema, metrics, tracing, request log, deployment files | none to speak of | text and flags | not modelled: section 8 |

How they interact. Main loads the configuration, compiles the HTTP middleware,
starts the OIDC manager, builds the server (which loads the virtual-tool engine
and lets it validate every pipeline) and serves. A tool call of an MCP client
runs a handler. A generated tool's handler sends one request, with a token from
the OIDC manager, and may save a binary response in TFS or forward a file from
it. A virtual tool's handler runs the executor: a `call` step invokes a
generated tool's handler, an `http` step goes through the retry loop, a
`foreach` step runs its sub-pipeline once per element in goroutines of its own.
Calls run concurrently and share the OIDC manager, TFS and the compiled
policies. All of that is written by runs of mcpfather: the converter turns the
document into tools, the generator writes their files over those of the run
before, in which users may have written handlers of their own.

What is hard to test here: interleavings of a foreach's goroutines with
failures and cancellation; two HTTP requests and the clean job on one file name;
a budget, a caller's deadline and a retry count that end the same loop; tokens
that expire while a response is on its way; shutdown during a request that
hangs, with three servers on one time limit; a configuration that three pieces
of code read at different moments; environment variables that walk through
pointers, maps and slices; schemas that share parts or contain themselves;
pipelines that pass validation and fail at run time; a generator that is killed
between two writes, on a directory with the files of another document.
`PROJECT.json` lists
every such hazard at its line with the properties that would catch it.

## 2. Modules

| module | models | checked by | proved in |
|---|---|---|---|
| `Foreach` | `ForeachNode` and its goroutines | `MCForeach` | `ForeachProofs` |
| `ForeachAbs` | what a foreach step promises the pipeline: one parallel map | refinement in `MCForeach` | `ForeachProofs` |
| `Pipeline` | validator, executor, references, steps | `MCPipeline` | `PipelineProofs` |
| `Retry` | policies and `doResilientUpstreamRequest` | `MCRetry` | `RetryProofs` |
| `TFS` | the file store's handlers and clean job | `MCTFS` | `TFSProofs` |
| `OIDC` | the token manager, shutdown, token lookup | `MCOIDC` | `OIDCProofs` |
| `Converter` | filters and names of tools, as operators | `MCGenerator` | `GeneratorProofs` |
| `SchemaWalk` | the recursion of `applySchema` and `writeSchemaMarkdown` over a schema graph | `MCToolSchema` | `ToolSchemaProofs` |
| `ToolSchema` | 3.1 to 3.0, arguments, Draft 7; extends SchemaWalk | `MCToolSchema` | `ToolSchemaProofs` |
| `Uploads` | which operations take an upload, and the fields of its form; extends ToolSchema | `MCToolSchema` | |
| `Generator` | runs of mcpfather on one directory; extends Converter | `MCGenerator` | `GeneratorProofs` |
| `Settings` | the settings as Go values | `MCServer` | `ServerProofs` |
| `Decoding` | the defaults and the file over them; extends Settings | `MCServer` | |
| `Config` | the environment over them, as operators; extends Settings | `MCServer` | `ServerProofs` |
| `Server` | one process: start, tools, serving, shutdown, commands; extends Settings | `MCServer` | `ServerProofs` |
| `ConfiguredServer` | the process with the configurations of Config | `MCServer` | `ServerProofs` |

The map in `PROJECT.json` names the lines behind every definition. Operators
that begin with "Mutant:" in their comment are alternatives to a definition, the
way a plausible mistake in the code would change it; each property has one that
breaks it.

### Foreach

`main`, `len`, `next` are the calling goroutine, `worker[i]` the goroutine of
element i: `unborn` before `go func`, `select` at the semaphore, `canceled`
in the branch of `ctx.Done()`, `check` and `exec` in `runSubPipeline`'s loop,
`commit` at the mutex, `release` and `exit` in the deferred calls, in the order
Go runs them. `sem` and `wg` are the channel and the WaitGroup. A critical
section only assigns what is read after `wg.Wait`, so it is one action.

`firstErr` is read by the loop without the mutex, a data race: `LeaveLoop` may
be taken or not once an error is recorded, and `Spawn` is allowed in either
case. No property depends on which.

`spec` is the step's configuration (how many at once, whether the order of the
list is kept, what a missing list means), chosen from `Specs`.

Element i is also its own value and its own error; `Nil` is an emitted nil.
`SubPipeline` gives the kinds of its steps: a cancelled context is noticed
before each of them.

### Pipeline

From a configured pipeline to an answer: `Load` validates it as the code does
(ids, required fields, sub-pipelines, references with the order of the steps
ignored, references behind blanks missed), `Invoke` starts a call with a fresh
context, and each step then finds its references or fails (`StepUnresolved`),
fails by itself, or stores a value. Inside a foreach each element has its own
context, started from a copy of the outer outputs, and the elements interleave
freely. How many run at once and how their results are gathered is Foreach; here
a foreach ends when all its elements have.

A value is where it came from, whether it is nil, empty or full, and whether it
is text or data. A reference is its root: paths below a root, jq programs and
argument substitution into paths are abstracted, since every property here is
about which step's value a name stands for.

### Retry

A configured policy is merged with the defaults and compiled (policies that do
not compile are in the run's set and are refused), the step is validated as at
registration, and one request then goes through the loop: `Start`, `Send`, an
outcome, `ReturnOutcome` or `Again`, and a wait. `retryCtx` is `limited`,
`deadline` and `ctxDone`. Time is discrete; timers fire on time, so the clock
does not pass a deadline somebody is waiting for. A time.Duration overflows in
three places, each as it does in the code: the seconds of a Retry-After wrap around
as an integer product (`Wrapped`), the growth of the backoff and a jittered delay
become `Overflown` when converted from a float, the least duration on amd64, which
is the one of the run, and the largest on arm64. Jitter is any factor in
tenths. A timer set for a negative time goes off at once. The upstream may answer, break off or keep silent for ever. The body is
`whole` or `spent`: the loop's caller builds requests over strings, so
`GetBody` is always there, and the code's fallback for a body that cannot be
read again is unreachable and not modelled.

### TFS

`dir` and `part` map a name to the file that has it, and files are distinct from
names: a download keeps the file it opened while a name may come to stand for
another, and `os.Remove` takes whatever has the name. One action is one system
call: create (which empties an existing file), two writes, rename, and storing
the metadata; open, serve, remove, forget. Downloads are numbered in the order they
come, which spares TLC their permutations. A tool call that forwards a file copies
it into the store under a name of its own, reads the copy, sends it, and removes
both in its deferred calls: whether the upstream took it or not (`SendCopy`), and
also when the copy cannot be read and nothing is sent (`CopyUnreadable`). When
another file of the same form cannot be had, only the copies go (`OtherFileFails`),
and a call that the process's end cuts before its deferred calls leaves both
(`Halted`). The copying is one step up to the
rename, since nobody else uses the copy's names. The upload and the download
directory are one, since downloads look in both; only uploads are removed as the
source of a call. `Crash` stops everything and loses the
metadata. `old` holds the files whose modification time is behind the clean
job's limit.

### OIDC

The mutex `mu`, the cached token, the progress of each caller and of the
manager goroutine, which first runs InitOIDC's refresh and then `refreshLoop`.
A fetch is a lookup (if configured), a request, the provider's issuing of a
token, and the arrival of its response, each of which may fail; no stage outlasts
the client's timeout. `token` remembers when the provider issued it, which the
code does not know: `expires` is counted from the arrival. The loop reads the
token without the mutex: it may see any token stored since it last held the
mutex (`visible`), or one whose fields are not written yet.

### Converter

Operators, no state. A document is a set of operations, an operation an id and
its request (path, method, arguments, schema), one value. `Convert` is the set of
results the code can have: paths and operations are Go maps, `Visits` are the
orders in which they can be visited, and the name of a tool that collides with
another depends on that order through `collisionIdx`. A name is a sequence: the
id's PascalCase, and what the hash suffix is made of if there is one. Hashes of
different texts are taken to differ.

### SchemaWalk

A document is a graph of schemas, since `$ref` is resolved to shared pointers.
`walk` is the number of the walk that is on, `stack` the schemas `applySchema`
(or `writeSchemaMarkdown`) is inside of, `visited` its map, `kept` and `cut` the
links followed and not followed. Each parameter, each field of a form and each
response has a map of its own; the content types of a body share one. The order
is the code's: by keyword, then by position, and any order where the code ranges
over a Go map (`Unordered`).

### ToolSchema

A schema is one record of keywords for 3.1, 3.0 and Draft 7; `Normalized` is
what `oas31_preprocess.go` makes of it, `Draft7` what is written of it.
`Accepts` is the reference: which values JSON Schema allows, with the links a walk
has cut reading as the empty schema, which is what the code writes for them. It is
a recursive function over schemas and values (`Meaning`), each step of which
(`Level`) looks behind a schema's links; it means something for graphs in which no
schema is combined from itself by `allOf`, `anyOf`, `oneOf` or `not` alone
(`Grounded`), since every other link leads to a smaller value. Recursion through
properties and items is allowed. Formats, patterns, examples, defaults and
descriptions are carried along unchanged by the code and left out; `least` and
`most` stand for the bounds of numbers, strings, arrays and objects.

An operation's arguments are a set of records, each with its position (`at`), since
of two with one name the later wins, and with the number of the walk that makes its
schema.

### Uploads

The two recursions of the conversion that are not over one schema at a time:
collecting the fields of a form (`Collect`) and finding a file behind combinators
(`IsBinary`). ToolSchema takes from them, as an assumption (`IsForm`), that a form's
fields are those of schemas it is combined from, and that what it needs is required
by a schema that no choice leads to; TLC evaluates it for every document of the run.

### Generator

`files`, `tests`, `registry` and `others` are pkg/mcptools, `shared` the stages
whose files elsewhere are whole. A run is `Start` or `Refuse`, then the
`Stages` in order; in pkg/mcptools each removal and each write is a step, in an
arbitrary order, since files are removed in the order of their names and names
are values here. `End` is an error or a kill: before any step (`Stop`), when a
tool's code is refused (`RefuseTool`), or in the middle of a write, which leaves
a torn file (`TearTool`, `TearRegistry`, `TearShared`; os.WriteFile empties
first, and writeFileContent does not write what would not change). Between runs
users write a handler, leave a file half done, or add a file.
A handler is its author and the operation it was written for.

For stages outside pkg/mcptools only whether their files are whole matters: a
file that is rewritten with the same content may be torn, one that
writeFileContent leaves alone may not. os.Remove is assumed to succeed, its error
being ignored by the code.

### Config

A value is a tree whose nodes have the Go kinds reflection meets: struct,
pointer, slice, map and leaves. `ConfigOf` has a part of the real settings with
strings, Booleans and integers in every position the code treats differently (a
pointer to a struct, a map of structs, a map of strings, a slice of strings, a
pointer to a Boolean); floats, which are read like integers, and fields of type
`interface{}`, which the code cannot set, are not in it. It is in Settings, with the zero value and the two ways loading
fails. `Unmarshal` (Decoding) is the file over the defaults, `setByPath` one
variable, `Panics` where reflection refuses; variables are applied in the order
of `os.Environ`. Upstreams whose keys differ in `-` and `_` share their variables,
and which of them gets one is the order of a map (`Winners`).

The recursion of `setByPath` is written as a walk down (`Down`: what is found after
so many segments, as far as `Reaches` says they are there) and one up (`Up`: each
part put back into a copy of what it was found in), both functions over the
positions of the path, and the loop over the variables as one over theirs (`After`):
so that they can be reasoned about. `Unmarshal` recurs over the tree and stands
apart for that reason; Config has it as the constant `Decoded`, and as `Paths` the
places that are looked at, which the run takes to be every place that some
file or variable of it names, with the first two of each slice.

ConfiguredServer puts Config and Server together. For most of what is said of the
process, what loading can end in is any set of configurations, errors and panics,
Server's constant `Loaded`; ConfiguredServer assumes it to be `LoadConfig`, and the
run gives it that value. `OverridesAreLocal` is there. It says of every place in the
configuration that is loaded that it is still there, with its kind; that what no
variable names, as a whole or in part, is as it was, down to the lengths of slices
and the pointers that are nil; and that a leaf has what some variable with its name
gives, or is as it was and no variable of its own can be read as a value of it. What
lies behind a nil pointer or beyond the end of a slice counts as zeros, since a
variable that names something there first makes the zeros.

### Server

`main` is where the main goroutine is: one prefix common to all ways of
starting, then the branch of http, of stdio or of a command. `file` is
config.yaml, which the process reads up to three times (`LoadConfig`,
`engine.New`, the command line's own load) and which may be rewritten once
between (`Edit`). `tools` are registered, listed or called, each with its owner;
`listener` and `conns` are the MCP, management and pprof servers and their open
requests: a call may end, a stream never does by itself. A signal before
`signal.NotifyContext` kills the process (143), a panic ends it with 2.
`Shutdown` and `Close` of net/http, viper's decoding and `ServeStdio` of the MCP
library are modelled by their contracts. What `main` starts and stops beside,
OIDC and tracing, is in OIDC or left out.

## 3. Runs

| run | bounds | shows |
|---|---|---|
| `foreach` | three elements, call and emit; in list order two at a time, and in any order with the concurrency configured as 0 | the bound, results and errors, termination, refinement of ForeachAbs |
| `pipeline` | pipelines of one and three steps, bodies of one or two, lists of up to two | isolation of calls and elements, references, require, answers |
| `retry` | ten policies, five of which do not compile, two methods, two statuses, seven Retry-After headers, up to two retries, 15 units of time, durations of 4 bits and sign | attempts, allowlist, freshness, bodies, waits, retries made, budget |
| `tfs` | one upload, one saved response; two downloads and one forwarding call (of either file, or of one of another server) of which any two happen; one restart | whole files, kept until downloaded, forwarded or old, gone afterwards, nothing stays |
| `oidc` | two calls sharing the token, one static, five timeouts, one tick | needed fetches, good tokens, order, termination, shutdown |
| `schema` | some 1600 documents of four schemas, r over s and t, s over t and u: bodies of 3.0 and 3.1, several content types and parameters, forms and files | the walks, what the tool accepts against what the document accepts |
| `server` | twelve files, nine environments, three transports, two requests on three servers, a grace of two units, one edit of the file | overrides, the tools offered, the grace period, the end |
| `generator` | three runs over three documents and two filters, one edit | what a run leaves that succeeds, fails or is killed; handlers kept |

Why the bounds are enough: three elements with two at a time is the least where
one waits while two run and one of them fails; two elements suffice for
isolation, which is between two; two retries let a third attempt's answer be
confused with the first's or the second's; two consumers of a file,
downloads or forwarding calls, are what can meet at it; two callers and the loop are what can meet at the
mutex; three runs are the least where one fails on what another left and a third
succeeds on what both did; four schemas have a sharing, a cycle through any of
them and a combinator above either; two requests are one that holds a server up
and one that is cut for it. The safety properties that section 5 proves do not
depend on any of these bounds.

The preconditions of the two properties of `schema` hold often enough to mean
something: that of `RequestsAccepted` in some 740 of the documents, with and
without cuts, of 3.0 and 3.1, with forms and with file bodies; that of
`ExactWithoutLoss` in some 670.

Properties worth a word:

* `AnswerIsFaithful` (`ErrorsAreFaithful` and `SuccessIsComplete`) holds though
  the loop may stop early or not on a stale read: no success is reported with an
  element missing, and no error that did not happen.
* `ImplementsAbs` maps a goroutine's outcome from the moment it commits; seen
  from the pipeline, a foreach is one parallel map whose elements end in any
  order.
* `AdmittedToolsRun` is what the validator achieves: references that point
  backwards never fail for want of a value, and a sub-pipeline that is run to
  its end has emitted. References that point forwards pass the validator and
  fail (end of section 6). `ContextsAreIsolated` is between calls and between
  elements.
* `AttemptsStandAlone` covers a response that breaks off after an earlier one came
  whole, and a body that has been read by the attempt before.
* `WaitFits` covers the overflow of the multiplication, jitter and Retry-After. What
  growth overflows is noticed; what the seconds of a Retry-After or the jitter
  overflow is not, and may be a negative wait, which `TooLong` delimits and section
  6 describes. The run has both.
* `RetriesAreMade` is the other side of the limits: a Retry-After above
  max_backoff, or a jitter, that made the next wait look longer than the budget
  would end a call that had retries and time left.
* `CachedTokenIsGood`: a token from the cache is still good at the provider,
  although its lifetime is counted from too late. It rests on the assumption
  `Timeout <= Margin` (15 s and 30 s in the code): whoever raises the client's
  timeout above 30 s breaks it.
* `KeptUntilTaken` names what may take a file away, for names that one writer
  each uses: age, a complete download, and for an upload a forwarding call that
  copied it and has come to its deferred calls. Such a call spends the upload even
  if it could not read its copy or the upstream refused it (section 6); calls that
  fail earlier, incomplete downloads and restarts take nothing, and no forwarding
  call takes a saved response, though it may name one. What the use of a name
  again does is in section 6.
* `NobodyHangs` has the calls' end and the server's: shutdown waits for the
  goroutine that may be in a fetch.
* `RunsAreWhole` has, beside what a successful run leaves, `BuildsAreWhole`,
  which holds after every step: whatever moment a run is killed at, a
  directory that builds is one document's server. It rests on registry.go being
  removed with the stale files, before the first tool is written, and written
  again after the last.
* `HandlersSurvive` is as strong as the code: but for a torn file it holds for
  tools whose name nobody else has. Colliding names lose handlers (section 6).
* `WalkMakesATree`: no schema is entered while it is being expanded, each is
  expanded in one place, and nothing is left out. That the visited map is never
  unmarked, so that shared schemas are cut like cyclic ones, loses constraints,
  never termination.
* `RequestsAccepted` is the direction in which a loss hurts: a tool whose schema
  refuses what the API accepts makes a request impossible. It is stated for
  what the conversion handles, and the preconditions name what it does not
  (`Sound`, `Unmixed`; section 6 lists them). Below a `oneOf` or a `not` a schema
  that accepts more makes the one above accept less, hence `OnlyPermissive`. Two of
  the preconditions were found by proving it, and the run has documents for both: a
  property named like a keyword of 3.1, once removed, is judged by
  `additionalProperties` if there are any, and may be refused; and a form with
  fields of an alternative that it does not satisfy is refused, since the arguments
  are those of all alternatives together (`FitsForm`). Of uploads it says which can
  be made and which cannot: a body is refused if and only if it has something else
  than one file where the tool asks for a file (`SingleFiles`). The run has arrays of
  files and files among alternatives.
* `ExactWithoutLoss` is about meaning kept in another notation: nullable,
  exclusive bounds as flags or as numbers, type lists.
* `OverridesAreLocal` compares the configuration before and after the
  environment place by place: a variable changes what it names; entries of maps,
  which Go cannot assign in place and the code copies, keep their other fields.
* `ToolsAreAsConfigured`: the server, the list and the call each decide by their
  own code which tools there are, and read the file at different moments. For the
  generated tools they all follow the rule of the main README (lines 272-290) on
  some version of it. The virtual ones are those of some version too, all of them,
  or none when one needs a pool that the version the process was started with does
  not have. So an edit while a program starts can mix the tools of one version with
  the pools of another (section 6); the property says that nothing else comes of
  it, and that on a file left alone there are exactly the tools it gives.
* `GraceIsGiven`: the three servers share one time limit, so a stream on the
  first uses up the second's. Even so a shutdown cuts nothing before the time is
  over. The read and write timeouts of the servers (`main.templ:451-453`), which
  may end a request at any time, are not in the model.
* `ProcessEnds`: whatever stays open, and however the listeners fared.

## 4. Fairness

* Foreach: the scheduler runs every goroutine that can run, and a sub-pipeline's
  calls end. Nothing obliges a caller to cancel. Weak fairness for the main
  goroutine and for each worker.
* Pipeline: steps end. Nobody has to call.
* Retry: the goroutine is scheduled and the clock advances; the upstream owes
  nothing, so `BudgetedCallsEnd` rests on the budget alone. A step without a
  retry policy has no budget and may hang when `request_timeout` is 0, its
  default; nothing is claimed of it.
* TFS: files get old and the clean job runs with every tick; no request has to
  be finished.
* OIDC: something that can go on does: the holder of the mutex (a request ends by
  the client's timeout at the latest), a goroutine waiting for a free mutex, the
  loop at its select. One weak fairness of their disjunction is weaker than what
  the scheduler and sync.Mutex guarantee, and is enough because each call asks
  once. Neither shutdown nor the provider's answers are assumed.
* Server: over http the main goroutine is scheduled from where it asks to be told
  of signals (`Serve`: starting the listeners, shutdown, end), and time passes. Requests,
  streams, listeners and signals owe nothing, so `ProcessEnds` rests on the time
  limit alone.
* SchemaWalk, Generator: sequential code; no liveness is claimed.

Deadlock checking is off where the modelled system may stop for good (a store
nobody uses, a server that has exited, a rejected pipeline, a generator with no
runs left, a document converted), and on for Foreach
and Retry, whose final states stutter.

## 5. Proofs

`ForeachProofs` proves for every list length, concurrency and sub-pipeline, from
`ForeachAssumption` alone (types of the constants; the sub-pipeline is not
empty): `TypeCorrect`, `BoundHolds`, `ErrorsReported`, `CallOutlivesWorkers`,
`SuccessComplete`, `AnswersFaithful`, and `FirstErrorKept` for steps. None of the invariants is
inductive by itself: that the semaphore holds no more than its capacity says
nothing of how many goroutines are inside until the token count is tied to the
set of goroutines that have one. `IInv` does that for the semaphore and the
WaitGroup (`Counting`), relates the spawning loop to which goroutines exist
(`Spawning`), the values and errors to the place of each goroutine (`Outcomes`),
and the shared results to the outcomes committed so far (`ResultsInv`,
`AnswerInv`). `InitEstablishes` and one lemma per part, each split by action,
give `Inductive`; the theorems follow from it by temporal logic. Two lemmas
about cardinalities (`CountIn`, `CountOut`) carry the counting, and a lemma on
`IsPermutationOf` the append.

The second half of `ForeachProofs` proves `ForeachImplementsMap`: Foreach implements ForeachAbs
under the mapping of `ImplementsAbs`. An element is decided where its goroutine
records its error or its value (`RecordCanceled`, `Commit`), the answer is given
where `wg.Wait` returns, and every other step is unseen; the step argument uses
`IInv` on both sides of the step, above all that an outcome is what the
goroutine's place says it is (`Outcomes`).

`ToolSchemaProofs` proves for every document, of any number of schemas and any
values, all that the run `schema` checks, in three parts. For the walk,
`TypeCorrect`, `WalksMakeTrees`, and `ResponsesComeOut`, that the documentation of
a response does not depend on any order, since the ready links of a response
walk are never more than one (`OneIsReady`). The invariant says that the map
holds exactly what the kept links lead to, that what is being expanded is
marked, and that a marked schema no longer being expanded has had all its links
met; `Return` is the step that needs the last part.

The second part is what a schema means. `Accepts` recurs over a graph that may have
cycles, so that it is defined at all has to be shown: `AcceptsLevel`. Two partial
solutions of the equation agree where both are defined, and one exists for every
pair of a schema and a value, because otherwise there would be a first pair without:
one of the least nesting, which is a number (`LeastNumber`, from the library's
theorem that a nonempty set has a minimal element), and among those a schema that is
combined from no other of them, which is what `Grounded` says (`LeastPair`). This
is how an induction over data is done here without the induction theorems, whose
operator parameters the provers cannot instantiate.

The third part is the conversion. Keyword by keyword (`TypesWritten`, `LowerWritten`,
`UpperWritten`, with 3.1 behind 3.0 in the lemmas called Prepared) and link by link
(`LinksKept`, `LinksSame`), what is written allows what the source allows, and the
same where it is exact. `ConversionKeeps` lifts this to graphs, by the same least
counterexample: both directions have to be proved at once, since below a `oneOf` and
a `not` they change places. With what a walk reaches closed under links
(`ReachIsClosed`) and its results in place, `ExactSchemas` follows; for
`RequestsCanBeMade` there is also where each argument comes from (`WalksAt`,
`ArgCases`), that a form's fields are judged by parts it satisfies
(`SourceLevel`), and that a form has what the schemas it is all of require
(`AllOfRequired`, because the schemas that a value satisfies are closed under
`allOf`). Neither speaks of how the walk came to its results, beyond their number:
whatever was cut, in whatever order, they hold.

`PipelineProofs` proves for pipelines, sub-pipelines and lists of any length
`TypeCorrect`, `ContextsIsolated`, `AdmittedRun` and `AnswersEarned`. Its `IInv` adds
to the four properties that whatever is run was admitted (`Admitted`), that each
step before the current one has its output under its own id and was no return
(`StepsDone`), that elements belong to the current foreach
(`ElementsAreCurrent`), and that an element's context is what the call and its
own sub-steps have given so far (`ElementProgress`). That no two ids of an admitted
pipeline are equal, which the validator decides by counting them, comes from
`IdsDiffer`; that a reference that points backwards is found, from
`BackwardResolves` and `BackwardSubResolves`.

`RetryProofs` proves `TypeCorrect`, `RepeatsBounded`, `AttemptsIndependent`, `WaitsFit`
and `RetriesMade`, for any configured numbers, numbers of retries and
lengths of time. Policies that compile have numbers within bounds
(`CompiledBounds`), and one multiplication, wrapped or not, keeps a delay positive
and within max_backoff (`GrowthStep`). What the recursive `Grown` returns for
every attempt would need induction over data; instead `IInv` carries the sequence of
delays up to the current attempt (`WellGrown`), which each wait extends by one
(`GrownNext`). `BackoffBounds` adds jitter and Retry-After, and says which of their
overflows can make a wait negative. `LoopInv` ties what was sent to the loop
counter, which `RetriesMade` rests on: before a request has left, an outcome can
only be that of an expired context.

`TFSProofs` proves `TypeCorrect` for all names, and, from `Distinct`, that no two
requests write under one name, `OnlyWholeFilesLeave`, `AnsweredFilesStay` and
`DeliveredOnce`. The hypothesis is what callers have to see to: section 6 has a run
without it in which the properties fail, and the instance `Apart` of the run `tfs`
satisfies it. `StoreInv` says whose file a name stands for (`NamesInv`), what each
request has in hand, and that a file that was put in place is there as long as it
may not go (`KeepInv`). The hard steps are those of a forwarding call, which owns
its copy (`ForwardOK`), and whose last ones may remove an upload but nothing else,
and of the clean job and the downloads, which remove by name whatever has it by
then.

`OIDCProofs` proves `TypeCorrect`, `NoNeedlessFetch`, and for steps `CachedIsGood` and
`TokenNeverGoesBack`, for any number of callers and all times and lifetimes with
`Timeout <= Margin`. `IInv` ties being at the provider to holding the mutex,
bounds how long it is held (`HoldIsShort`), and says of the response in flight that
it is the holder's and the latest token issued (`ReplyInv`), and of the cached token
that it is taken to live no longer than its lifetime and one request from when it
was issued (`CacheInv`): the slack that the margin covers.

`GeneratorProofs` begins with the names: `NamesAreDistinct` says that in every finite
document, visited in any order, two operations never get names that differ in
case only. Two operations with one lower-case name collide with the same set
(`CollidingIsAClass`); unless that set is a single operation both have a suffix,
and among operations of one set the index counts strictly upwards in the order of
the visit (`IndicesDiffer`, by cardinality). What it takes for granted is that the
first four bytes of the hash tell different texts apart, as the code does. On it
rest `TypeCorrect`, `WholeRuns` and `HandlersKept`, for any documents, filters and
numbers of runs and edits. `IInv` says what a run has done when it has come to a
stage (`StageInv`), of a registry that it lists the tools of one document and has
only their files beside it (`RegistryInv`), and that users' handlers are where
they were when the run began (`HandlersInv`). Writing a tool's file disturbs no
other's since names are unique; a registry never meets the files of another
document since it goes before they come.

`ServerProofs` proves `TypeCorrect`, `ToolsConfigured` and `GraceGiven` for whatever
configurations loading can give (`Loaded`), any tools, filters, edits of the file,
numbers of requests and grace period. Of the tools, `ConfigInv` remembers between
two reads of the file that the configuration in hand, whose pools are the compiled
ones, is one that the file gave when the process was started, and that the tools gathered so far are the ones it offers; `SameRule` says
that the server's rule and its copy in the command line are both the documented one,
and `ReadingsStay` that an edit takes no earlier version away. Of the shutdown,
`GraceIsGiven` alone says nothing of the requests that are cut when the process
exits after it; `ShutdownInv` says that a server the main goroutine has passed takes
no requests and has none, so that the last exit cuts nobody, and that before the
listeners start there is nobody to cut. A listener may still be starting when the
shutdown begins; it finds its server closed.

It also proves `OverridesLocal`, for every file, every environment and every order of
the map of upstreams. The walks are functions by recursion over the positions of a
path, so that they are what they say is shown first (`DownIs`, `UpIs`, `AfterIs`, by
the least position at which they would not be). `SetSo` compares, along any second
path, what is found before and after one variable is set: as far as the two paths
agree a value is the old one with one part replaced, where they part it is the old
one, and if the second ends first the value is on the way of the first (`SetStep`,
`SetAll`). `Done` says of a number of variables what the property says of all, in
terms of the places they are applied to (`DoneStep`, `AllDone`), and `Naming` turns
these into names: a variable's place is one it names, and the one whose name it has
is its own unless another upstream shares it. What it assumes (`ConfigAssumption`) is
evaluated by TLC for the run's files and environments: that decoding gives Go
values, that an index has one text, and that `Paths` has the places that the
variables are applied to. `LoadInv` says that the process still has what it loaded.

The assumptions of all these modules say of the constants what the code has by
its types (numbers are numbers, marks like None are none of the values), except
`Timeout <= Margin` of OIDC, and TLC evaluates them in the runs.

What stays with TLC: liveness, as fairness and ENABLED are beyond the prover
(`AlwaysReturns`, `CallsEnd`, `BudgetedCallsEnd`, `FilesLeave`,
`NobodyHangs`, `ProcessEnds`); and what assumptions say of recursive operators:
`IsForm`, which proofs take of the fields that Uploads collects, and that decoding
and `LoadConfig` give what `ConfigAssumption` and `ServerAssumption` ask of them.
TLC evaluates both for the documents, files and environments of the runs. Every
invariant and every action property that a passing run checks is a theorem.

## 6. Where the code does something else

Each of these runs checks one statement of the repository and finds it broken.

| run | statement | behaviour |
|---|---|---|
| `pipeline_RequireHoldsInside` | `pipeline/types.go:45`: require validates a step's result | inside a foreach it is accepted and ignored |
| `tfs_partial` | `client.templ:1187`: partial transfers cannot be served | two uploads of one name share an `.inprogress` file and can put a partial or mixed one in place |
| `oidc_NamedCredentialIsOwn` | `config.templ:533`: the default's token only without authentication of its own | an upstream with its own OIDC settings gets the default upstream's token |
| `generator_HandlersPreserved` | `mcp.go:48`: existing handler implementations are preserved | names that collide depend on a map's order: a second run over the same document loses a handler or gives it to the other operation |

Seen while reading, without a run of their own.

Virtual tools and the generated client: a reference to a later step
passes `ValidateReferences`, said to check for known sources
(`validator.go:111`), and fails when called; `validator.go:75` says a
sub-pipeline must end with emit, and only some emit is asked for;
`SKILL.md:92` says a pipeline must end with return, which nothing checks before
the call fails; a step may have the id `input` and is then unreachable
(`context.go:116`); a `call` without `parse: json` parses a response that happens
to be JSON (`call.go:49` against `SKILL.md:108`). A refresh that fails gives the
old token, expired or not, where `auth.templ:65` says empty; the background
refresh looks every 30 minutes for a token within 5 minutes of expiry, not at half
its lifetime (`auth.templ:218`). A download of the previous file of a name removes
the one uploaded since, whose URL has just been returned (`client.templ:2027`);
two downloads that overlap both get a file said to be served once
(`client.templ:1981`). An upload is said to be removed once upstream forwarding
completes (`client.templ:2051`), and is also removed when the upstream refuses it or
cannot be reached, and when the copy cannot be read back and nothing has been sent
(`client.templ:1324-1329`, `1740-1799`): nobody has had it then.

Retries: the seconds of a Retry-After are multiplied into a 64-bit duration and may
wrap around (`client.templ:540`). Above 9223372036 they may give a negative wait,
which no cap and no test of the budget stops, so that a request is repeated at once
which the upstream asked to be repeated in 300 years; others wrap to a short one.
On amd64 the same happens when jitter stretches a `max_backoff` of more than 146
years past the largest duration (`client.templ:526`). The number of retries and the
budget hold all the same.

Generator: a generated handler is kept like a hand-written one, so an operation
whose path has moved keeps its old request when the server is regenerated as the
API evolves (`skills/virtual-tool-creator/SKILL.md:71`); a colliding name gets its
suffix after the truncation and may have 134 characters (`converter.go:144`),
against the 125 of the main README's line 150; an operation id that begins with a
digit and needs no truncation gives a name that is no Go identifier, and every run
stops at it (`requestHandlers.go:20`).

Schema conversion: a nullable schema without a type becomes one of type null
only, and the case described at `requestArgsSchema.go:51` is never reached;
content types that share a schema give a `oneOf` of it and of an empty schema,
which refuses every valid body; which of several uses of a shared schema keeps its
contents depends on the order of a map, where `schemaConversion.go:37` and
`schemaConversionProperties.go:55` speak of deterministic output, and so does the
Content-Type of a request template (`requestTemplate.go:29`); of two arguments with
one name the later replaces the earlier; a 3.1 list of null and several types
keeps the first; of a minimum and a numeric exclusiveMinimum the minimum is kept
and made exclusive; the first of `prefixItems` is taken for all items; properties
named like a keyword of 3.1 are removed, and stay in `required`; an upload whose
body is optional requires its file; a parameter named `body` is dropped for
uploads; a field with a file anywhere in it takes one URI
(`requestHandlers.go:289-300`), so that no request can have several files in one
field (400-404), none, or what an alternative without a file allows (405-418); what an
`allOf` of a form requires is lost if the schema that says so has
no properties itself; the documentation of a response says "[cyclic reference]" of
schemas that are merely shared, without the field's name
(`responseMarkdown.go:43`).

Configuration and server: `config.templ:79` says that variables override all
values, maps included, but one for an entry of a map of scalars
(`mgmt.metrics.labels`), like one with a negative index, makes the program panic
at its start, and a key with a dash below `middleware` cannot be named at all;
variables below `MCP__VIRTUAL_TOOLS__` have no effect, since `engine.New` reads the
file itself (`config.templ:74`, `main.templ:152` say they have); a variable that
names an unknown field below `native_tools.expose` hides every tool; an
`upstream.default` in the file loses the default of
`enable_mcp_session_forward`; a configuration that cannot be decoded is replaced by
an empty one, and all tools are offered. The engine reads the tools again, but
not the pools, which main has read before it (`server.templ:215`): if the file is
edited in between to tools whose pool is new, or the other way round, one pipeline
that is not admitted leaves no virtual tool at all, though both versions give some.
The main README says in line 293 that
nothing listed means all tools, and in line 275 that it means none. The
command line takes a generated tool where the server has a virtual one of that
name, lists both, and warns of a conflict that the server refuses to start with.

## 7. Plan

Done: the core (Foreach, its abstraction and the proof that it implements it,
Pipeline), the shared services of a generated server (Retry, TFS, OIDC), the
generator (Converter, Generator), the conversion of schemas
(SchemaWalk, ToolSchema, Uploads), the process (Settings, Decoding, Config, Server,
ConfiguredServer), and the proofs of the safety properties of all of these.

1. Compositions: Pipeline with ForeachAbs in place of its own element
   bookkeeping, and Pipeline's http step with an abstraction of Retry.
2. Proofs: `IsForm` of `Collect`, and what `ConfigAssumption` asks of `Unmarshal`, with
   the recursion written as functions over paths as in Config.

## 8. Not modelled

Metrics, tracing, request log, the JSON schema of virtual tools and deployment
files decide nothing; the text of generated files is the generator's data, and so
are the imports it merges. Of the conversion, formats, patterns, examples, defaults
and descriptions pass through unchanged, and the layout of the documentation of
responses and the parsing of flags and help texts of the command line are wording.
The functions that run `go mod tidy` and `go build` and the client generator of
`httpclient.go` are never called by the program. Connection pooling, TLS, jq, the
MCP protocol, JWT signatures, claims and the refresh of keys belong to libraries.
The servers' read and write timeouts (`main.templ:451-453`) are left out: a request
of Server may last for ever. In TFS: multipart encoding, content types, URL construction and path checks. The length of a name with a hash suffix
(`converter.go:144`) and the verbosity and locking of the global configuration
pointer are left out. The mock services of `src/it` are test fixtures.
