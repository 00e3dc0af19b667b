------------------------------ MODULE Foreach ------------------------------
(***************************************************************************)
(* The foreach step of a virtual-tool pipeline (mcpvirtual/node/foreach.go):*)
(* the calling goroutine spawns one goroutine per list element, a buffered *)
(* channel bounds how many run the sub-pipeline at once, the first error   *)
(* is kept under a mutex, and the caller waits for all of them.            *)
(*                                                                         *)
(* Every item is its own goroutine.  A critical section of the mutex only  *)
(* assigns firstErr and the results, and the results are read after        *)
(* wg.Wait alone, so a critical section is one action.                     *)
(***************************************************************************)
EXTENDS Integers, Sequences, FiniteSets

CONSTANTS
  N,            \* longest list considered
  Specs,        \* the configurations of the step that are considered
  SubPipeline   \* the kinds of the sub-pipeline's steps

\* The step's configuration: whether concurrency holds a usable number, that
\* number as the file or a $ref gives it, preserveOrder, onMissing = "skip".
ForeachSpec == [given : BOOLEAN, concurrency : Int,
                preserveOrder : BOOLEAN, skipMissing : BOOLEAN]

ASSUME ForeachAssumption ==
  /\ N \in Nat
  /\ Specs \subseteq ForeachSpec
  /\ SubPipeline \in Seq({"call", "emit"})
  /\ SubPipeline # <<>>

Items == 1 .. N

\* Errors are integers: i is the error of element i's sub-pipeline.
NoError  == 0
Canceled == -1   \* ctx.Err()
Missing  == -2   \* `in` is unresolvable or not an array

\* Element i emits either Nil or a value, for which i itself stands.
Nil == 0

VARIABLES
  spec,      \* the configuration of this call
  main,      \* where the calling goroutine is
  len,       \* length of the list
  next,      \* next element to spawn
  worker,    \* where each element's goroutine is
  step,      \* step of the sub-pipeline it is at
  val, err,  \* what its runSubPipeline returned
  sem,       \* tokens in the semaphore channel
  wg,        \* WaitGroup counter
  firstErr,
  slots,     \* results[idx] of the ordered loop
  appended,  \* results of the unordered loop
  ctxDone,   \* the request context is cancelled
  ret        \* what ForeachNode returned

DefaultConcurrency == 4

resolveConcurrency == IF spec.given THEN spec.concurrency ELSE DefaultConcurrency

\* Mutant: the count is used as configured.
Unclamped == resolveConcurrency

Concurrency == IF resolveConcurrency < 1 THEN 1 ELSE resolveConcurrency

PreserveOrder == spec.preserveOrder

OnMissingSkip == spec.skipMissing

locals == <<step, val, err>>
shared == <<firstErr, slots, appended>>
vars == <<main, len, next, worker, step, val, err, sem, wg, firstErr,
          slots, appended, ctxDone, ret, spec>>

Pending == [err |-> NoError, list |-> <<>>]

Init ==
  /\ spec \in Specs
  /\ main = "start"
  /\ len = 0
  /\ next = 1
  /\ worker = [i \in Items |-> "unborn"]
  /\ step = [i \in Items |-> 1]
  /\ val = [i \in Items |-> Nil]
  /\ err = [i \in Items |-> NoError]
  /\ sem = 0
  /\ wg = 0
  /\ firstErr = NoError
  /\ slots = [i \in Items |-> Nil]
  /\ appended = <<>>
  /\ ctxDone = FALSE
  /\ ret = Pending

(***************************************************************************)
(* The calling goroutine.                                                  *)
(***************************************************************************)

\* `in` resolves to an array of some length.
StartList ==
  /\ main = "start"
  /\ len' \in 0 .. N
  /\ main' = "loop"
  /\ UNCHANGED <<next, worker, locals, sem, wg, shared, ctxDone, ret, spec>>

\* `in` does not resolve, or not to an array.
StartMissing ==
  /\ main = "start"
  /\ main' = "returned"
  /\ ret' = [err |-> IF OnMissingSkip THEN NoError ELSE Missing, list |-> <<>>]
  /\ UNCHANGED <<len, next, worker, locals, sem, wg, shared, ctxDone, spec>>

\* The loop reads firstErr without the mutex: whatever the goroutines have
\* stored, the read may still return nil and the next element is spawned.
Spawn ==
  /\ main = "loop"
  /\ next <= len
  /\ wg' = wg + 1
  /\ worker' = [worker EXCEPT ![next] = "select"]
  /\ next' = next + 1
  /\ UNCHANGED <<main, len, locals, sem, shared, ctxDone, ret, spec>>

LeaveLoop ==
  /\ main = "loop"
  /\ next > len \/ firstErr # NoError
  /\ main' = "wait"
  /\ UNCHANGED <<len, next, worker, locals, sem, wg, shared, ctxDone, ret, spec>>

\* Mutant: the nil entries stay.
CompactNothing(s) == s

\* The nil entries are dropped, the others keep their order.
Compact(s) == SelectSeq(s, LAMBDA v : v # Nil)

\* The first len entries: the arrays have the length of the list.
InList(f) == [i \in 1 .. len |-> f[i]]

\* Mutant: an error is answered at once, without wg.Wait.
ReturnEarly ==
  /\ main = "wait"
  /\ wg = 0 \/ firstErr # NoError
  /\ main' = "returned"
  /\ ret' = IF firstErr # NoError
              THEN [err |-> firstErr, list |-> <<>>]
              ELSE [err |-> NoError,
                    list |-> IF PreserveOrder THEN Compact(InList(slots)) ELSE appended]
  /\ UNCHANGED <<len, next, worker, locals, sem, wg, shared, ctxDone, spec>>

WaitReturns ==
  /\ main = "wait"
  /\ wg = 0
  /\ main' = "returned"
  /\ ret' = IF firstErr # NoError
              THEN [err |-> firstErr, list |-> <<>>]
              ELSE [err |-> NoError,
                    list |-> IF PreserveOrder THEN Compact(InList(slots)) ELSE appended]
  /\ UNCHANGED <<len, next, worker, locals, sem, wg, shared, ctxDone, spec>>

(***************************************************************************)
(* The goroutine of element i.                                             *)
(***************************************************************************)
Goto(i, from, to) ==
  /\ worker[i] = from
  /\ worker' = [worker EXCEPT ![i] = to]

\* Mutant: room for one token too many.
AcquireExtra(i) ==
  /\ sem <= Concurrency
  /\ Goto(i, "select", "check")
  /\ sem' = sem + 1
  /\ UNCHANGED <<main, len, next, locals, wg, shared, ctxDone, ret, spec>>

AcquireSem(i) ==
  /\ sem < Concurrency
  /\ Goto(i, "select", "check")
  /\ sem' = sem + 1
  /\ UNCHANGED <<main, len, next, locals, wg, shared, ctxDone, ret, spec>>

\* select chooses at random when a token and the cancellation are both ready.
SelectCanceled(i) ==
  /\ ctxDone
  /\ Goto(i, "select", "canceled")
  /\ err' = [err EXCEPT ![i] = Canceled]
  /\ UNCHANGED <<main, len, next, step, val, sem, wg, shared, ctxDone, ret, spec>>

\* Mutant: a later error replaces the first.
KeepLast(e) == e

KeepFirst(e) == IF firstErr = NoError THEN e ELSE firstErr

\* Mutant: the release of the token is deferred before the select.
CancelReleases(i) ==
  /\ Goto(i, "canceled", "release")
  /\ firstErr' = KeepFirst(err[i])
  /\ UNCHANGED <<main, len, next, locals, sem, wg, slots, appended, ctxDone, ret, spec>>

RecordCanceled(i) ==
  /\ Goto(i, "canceled", "exit")
  /\ firstErr' = KeepFirst(err[i])
  /\ UNCHANGED <<main, len, next, locals, sem, wg, slots, appended, ctxDone, ret, spec>>

\* runSubPipeline looks at the context before each step...
CheckCtx(i) ==
  /\ Goto(i, "check", IF ctxDone THEN "commit" ELSE "exec")
  /\ err' = [err EXCEPT ![i] = IF ctxDone THEN Canceled ELSE @]
  /\ UNCHANGED <<main, len, next, step, val, sem, wg, shared, ctxDone, ret, spec>>

\* ...and the step itself may fail (an upstream error, a cancelled call)...
StepFails(i) ==
  /\ Goto(i, "exec", "commit")
  /\ err' = [err EXCEPT ![i] = i]
  /\ UNCHANGED <<main, len, next, step, val, sem, wg, shared, ctxDone, ret, spec>>

\* ...or succeed: an emit ends the sub-pipeline, running off its end is an error.
StepSucceeds(i) ==
  LET atEmit == SubPipeline[step[i]] = "emit"
      atEnd  == step[i] = Len(SubPipeline)
  IN  /\ Goto(i, "exec", IF atEmit \/ atEnd THEN "commit" ELSE "check")
      /\ IF atEmit
           THEN \E v \in {Nil, i} : val' = [val EXCEPT ![i] = v]
           ELSE UNCHANGED val
      /\ err' = [err EXCEPT ![i] = IF ~atEmit /\ atEnd THEN i ELSE @]
      /\ step' = [step EXCEPT ![i] = IF atEmit \/ atEnd THEN @ ELSE @ + 1]
      /\ UNCHANGED <<main, len, next, sem, wg, shared, ctxDone, ret, spec>>

\* Mutant: the error of the sub-pipeline is not looked at.
CommitValueOnly(i) ==
  /\ Goto(i, "commit", "release")
  /\ slots' = IF PreserveOrder /\ val[i] # Nil
                THEN [slots EXCEPT ![i] = val[i]] ELSE slots
  /\ appended' = IF ~PreserveOrder /\ val[i] # Nil
                   THEN Append(appended, val[i]) ELSE appended
  /\ UNCHANGED <<main, len, next, locals, sem, wg, firstErr, ctxDone, ret, spec>>

\* Mutant: the goroutine captures the loop variable instead of its argument.
CommitLastSlot(i) ==
  /\ Goto(i, "commit", "release")
  /\ firstErr' = IF err[i] # NoError THEN KeepFirst(err[i]) ELSE firstErr
  /\ slots' = IF val[i] # Nil THEN [slots EXCEPT ![next - 1] = val[i]] ELSE slots
  /\ UNCHANGED <<main, len, next, locals, sem, wg, appended, ctxDone, ret, spec>>

Commit(i) ==
  /\ Goto(i, "commit", "release")
  /\ firstErr' = IF err[i] # NoError THEN KeepFirst(err[i]) ELSE firstErr
  /\ slots' = IF PreserveOrder /\ val[i] # Nil
                THEN [slots EXCEPT ![i] = val[i]] ELSE slots
  /\ appended' = IF ~PreserveOrder /\ val[i] # Nil
                   THEN Append(appended, val[i]) ELSE appended
  /\ UNCHANGED <<main, len, next, locals, sem, wg, ctxDone, ret, spec>>

\* Deferred calls run in reverse order: the token first, then wg.Done.
ReleaseSem(i) ==
  /\ Goto(i, "release", "exit")
  /\ sem' = sem - 1
  /\ UNCHANGED <<main, len, next, locals, wg, shared, ctxDone, ret, spec>>

WgDone(i) ==
  /\ Goto(i, "exit", "done")
  /\ wg' = wg - 1
  /\ UNCHANGED <<main, len, next, locals, sem, shared, ctxDone, ret, spec>>

(***************************************************************************)
(* The caller of the tool gives up, or the server shuts down.              *)
(***************************************************************************)
Cancel ==
  /\ ~ctxDone
  /\ main # "returned"
  /\ ctxDone' = TRUE
  /\ UNCHANGED <<main, len, next, worker, locals, sem, wg, shared, ret, spec>>

Returned == main = "returned" /\ UNCHANGED vars

Main == StartList \/ StartMissing \/ Spawn \/ LeaveLoop \/ WaitReturns

Worker(i) ==
  \/ AcquireSem(i) \/ SelectCanceled(i) \/ RecordCanceled(i)
  \/ CheckCtx(i) \/ StepFails(i) \/ StepSucceeds(i)
  \/ Commit(i) \/ ReleaseSem(i) \/ WgDone(i)

Next == Main \/ (\E i \in Items : Worker(i)) \/ Cancel \/ Returned

\* The scheduler runs every goroutine that can run, and every tool call of a
\* sub-pipeline ends; nothing obliges the caller to cancel.
Fairness == WF_vars(Main) /\ \A i \in Items : WF_vars(Worker(i))

Spec == Init /\ [][Next]_vars

FairSpec == Spec /\ Fairness

-----------------------------------------------------------------------------
WorkerStates == {"unborn", "select", "canceled", "check", "exec", "commit",
                 "release", "exit", "done"}

\* Goroutines holding a token of the semaphore.
Holders == {i \in Items : worker[i] \in {"check", "exec", "commit", "release"}}

\* Goroutines counted by the WaitGroup.
Live == {i \in Items : worker[i] \notin {"unborn", "done"}}

\* Goroutines whose outcome has reached the shared variables.
Committed == {i \in Items : worker[i] \in {"release", "exit", "done"}}

TypeOK ==
  /\ spec \in ForeachSpec
  /\ main \in {"start", "loop", "wait", "returned"}
  /\ len \in 0 .. N
  /\ next \in 1 .. N + 1
  /\ worker \in [Items -> WorkerStates]
  /\ step \in [Items -> 1 .. Len(SubPipeline)]
  /\ val \in [Items -> {Nil} \cup Items]
  /\ err \in [Items -> {NoError, Canceled} \cup Items]
  /\ sem \in Nat
  /\ wg \in Nat
  /\ firstErr \in {NoError, Canceled} \cup Items
  /\ slots \in [Items -> {Nil} \cup Items]
  /\ appended \in Seq(Items)
  /\ ctxDone \in BOOLEAN
  /\ ret.err \in {NoError, Canceled, Missing} \cup Items

\* At no time do more sub-pipelines run, or hold upstream calls open, than
\* spec.concurrency allows; a count below one means one (foreach.go:37-40).
ConcurrencyBound == Cardinality(Holders) <= Concurrency

\* ForeachNode never returns while a goroutine it started can still call a
\* tool or touch the results: the WaitGroup covers every path out of the
\* goroutine, the cancelled one included.
NoWorkerOutlivesCall == main = "returned" => Live = {}

\* The values the elements emitted, nil ones left out.
Emitted == {i \in 1 .. len : val[i] # Nil}

IsPermutationOf(s, S) ==
  /\ Len(s) = Cardinality(S)
  /\ {s[k] : k \in 1 .. Len(s)} = S

\* A call that succeeds has run the sub-pipeline of every element to its emit,
\* and returns exactly the non-nil values: in list order with preserveOrder,
\* in any order without (foreach.go:117-127, 170-173).
SuccessIsComplete ==
  main = "returned" /\ ret.err = NoError /\ len > 0 =>
    /\ \A i \in 1 .. len : worker[i] = "done" /\ err[i] = NoError
    /\ IF PreserveOrder THEN ret.list = Compact(InList(val))
                        ELSE IsPermutationOf(ret.list, Emitted)

\* No failure is lost and none is invented: once an element's outcome is
\* recorded its error shows in firstErr, and firstErr is always the error of
\* an element that failed, or the cancellation of a cancelled call.
ErrorsAreFaithful ==
  /\ (\E i \in Committed : err[i] # NoError) => firstErr # NoError
  /\ firstErr # NoError => \E i \in Committed : err[i] = firstErr
  /\ firstErr = Canceled => ctxDone

\* What the pipeline is told of its elements is true, whether they failed,
\* succeeded or were cancelled, and though the loop may stop on a stale read.
AnswerIsFaithful == SuccessIsComplete /\ ErrorsAreFaithful

\* The first error wins: nothing a slower goroutine does replaces it.
FirstErrorWins == [][firstErr # NoError => firstErr' = firstErr]_vars

\* Whatever fails and whenever the caller cancels, the call comes back.
AlwaysReturns == <>(main = "returned")

(***************************************************************************)
(* Refinement: an element has an outcome from the moment its goroutine     *)
(* records it.                                                             *)
(***************************************************************************)
outcomeOf(i) ==
  IF i \notin Committed THEN "pending"
  ELSE IF err[i] = Canceled THEN "canceled"
  ELSE IF err[i] # NoError THEN "failed"
  ELSE IF val[i] = Nil THEN "nil" ELSE "value"

absOutcome == [i \in Items |-> outcomeOf(i)]

absPhase ==
  IF main = "start" THEN "start"
  ELSE IF main = "returned" THEN "answered" ELSE "running"

Abs == INSTANCE ForeachAbs WITH
  phase <- absPhase, outcome <- absOutcome, answer <- ret

\* The goroutines, the semaphore and the early exit of the loop are invisible
\* to the pipeline: the call behaves like one parallel map.
ImplementsAbs == Abs!Spec
=============================================================================
