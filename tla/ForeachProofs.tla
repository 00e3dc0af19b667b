--------------------------- MODULE ForeachProofs ---------------------------
(***************************************************************************)
(* Safety of Foreach for every list length, concurrency and sub-pipeline,  *)
(* and that it implements ForeachAbs.                                      *)
(***************************************************************************)
EXTENDS Foreach, FiniteSetTheorems, SequenceTheorems, TLAPS

-----------------------------------------------------------------------------
(* The inductive invariant.  The counters are tied to the sets they count, *)
(* the results to the outcomes the goroutines have committed.              *)

\* The semaphore and the WaitGroup count exactly the goroutines they stand for.
Counting == sem = Cardinality(Holders) /\ wg = Cardinality(Live)

\* Elements are spawned in order and the loop is left for one of its two reasons.
Spawning ==
  /\ next <= len + 1
  /\ main = "start" => next = 1 /\ len = 0
  /\ \A i \in Items : worker[i] = "unborn" <=> i >= next
  /\ main \in {"wait", "returned"} => next > len \/ firstErr # NoError

\* A goroutine has an outcome only once its sub-pipeline is over.
Outcomes ==
  \A i \in Items :
    /\ worker[i] \in {"unborn", "select", "check", "exec"} =>
         err[i] = NoError /\ val[i] = Nil
    /\ worker[i] = "canceled" => err[i] = Canceled /\ val[i] = Nil
    /\ val[i] \in {Nil, i}
    /\ err[i] \in {NoError, Canceled, i}
    /\ err[i] = Canceled => ctxDone

\* Elements whose value is in the results.
Collected == {i \in Committed : val[i] # Nil}

ResultsInv ==
  /\ PreserveOrder =>
       \A i \in Items : slots[i] = IF i \in Committed THEN val[i] ELSE Nil
  /\ ~PreserveOrder => IsPermutationOf(appended, Collected)

AnswerInv ==
  main = "returned" /\ ret.err = NoError /\ len > 0 =>
    /\ firstErr = NoError
    /\ ret.list = IF PreserveOrder THEN Compact(InList(slots)) ELSE appended

IInv ==
  /\ TypeOK
  /\ Counting
  /\ sem <= Concurrency
  /\ Spawning
  /\ Outcomes
  /\ ErrorsAreFaithful
  /\ ResultsInv
  /\ NoWorkerOutlivesCall
  /\ AnswerInv

-----------------------------------------------------------------------------
(* Sets of elements are finite, and Cardinality counts them one by one.     *)

\* Any set of elements is finite.
LEMMA ElementsFinite == ASSUME NEW S \in SUBSET Items PROVE IsFiniteSet(S)
<1>1. N \in Int /\ 1 \in Int
  BY ForeachAssumption
<1>2. IsFiniteSet(Items)
  BY <1>1, FS_Interval DEF Items
<1>. QED
  BY <1>2, FS_Subset

\* A goroutine that joins a counted set adds one to its size.
LEMMA CountIn ==
  ASSUME NEW S \in SUBSET Items, NEW T, NEW i \in Items,
         i \notin S, T = S \cup {i}
  PROVE  Cardinality(T) = Cardinality(S) + 1 /\ Cardinality(S) \in Nat
<1>1. IsFiniteSet(S)
  BY ElementsFinite
<1>. QED
  BY <1>1, FS_AddElement, FS_CardinalityType

\* One that leaves it takes one away, and the set was not empty.
LEMMA CountOut ==
  ASSUME NEW S \in SUBSET Items, NEW T, NEW i \in Items,
         i \in S, T = S \ {i}
  PROVE  /\ Cardinality(T) = Cardinality(S) - 1
         /\ Cardinality(S) \in Nat
         /\ Cardinality(S) > 0
<1>1. IsFiniteSet(S)
  BY ElementsFinite
<1>2. Cardinality(T) = Cardinality(S) - 1
  BY <1>1, FS_RemoveElement
<1>3. Cardinality(S) \in Nat /\ S # {}
  BY <1>1, FS_CardinalityType
<1>. QED
  BY <1>1, <1>2, <1>3, FS_EmptySet

\* The bound on the semaphore is a positive integer whatever is configured.
LEMMA ConcurrencyType ==
  ASSUME TypeOK
  PROVE  Concurrency \in Nat /\ Concurrency >= 1
  BY DEF TypeOK, ForeachSpec, Concurrency, resolveConcurrency, DefaultConcurrency

\* A call keeps the configuration it started with.
LEMMA SpecKept ==
  ASSUME [Next]_vars
  PROVE  /\ spec' = spec
         /\ Concurrency' = Concurrency
         /\ PreserveOrder' = PreserveOrder
<1>1. spec' = spec
  BY DEF Next, vars, Main, StartList, StartMissing, Spawn, LeaveLoop, WaitReturns,
         Worker, AcquireSem, SelectCanceled, RecordCanceled, CheckCtx, StepFails,
         StepSucceeds, Commit, ReleaseSem, WgDone, Cancel, Returned
<1>. QED
  BY <1>1 DEF Concurrency, resolveConcurrency, PreserveOrder

-----------------------------------------------------------------------------
\* The call starts with nothing spawned and nothing recorded.
LEMMA InitEstablishes == Init => IInv
<1> SUFFICES ASSUME Init PROVE IInv
  OBVIOUS
<1> USE ForeachAssumption DEF Init, NoError, Nil, Canceled, Missing
<1>1. Holders = {} /\ Live = {} /\ Collected = {} /\ Committed = {}
  BY DEF Holders, Live, Collected, Committed
<1>2. Cardinality({}) = 0
  BY FS_EmptySet
<1>3. Len(SubPipeline) \in Nat /\ Len(SubPipeline) >= 1
  BY LenProperties, EmptySeq
<1>4. TypeOK
  <2>1. step \in [Items -> 1 .. Len(SubPipeline)]
    BY <1>3
  <2>2. appended \in Seq(Items)
    BY EmptySeq
  <2>3. ret.err = NoError
    BY DEF Pending
  <2>4. main = "start" /\ ctxDone \in BOOLEAN
    BY Zenon
  <2>6. /\ len \in 0 .. N /\ next \in 1 .. N + 1
        /\ sem \in Nat /\ wg \in Nat
    OBVIOUS
  <2>5. /\ worker \in [Items -> WorkerStates]
        /\ val \in [Items -> {Nil} \cup Items]
        /\ err \in [Items -> {NoError, Canceled} \cup Items]
        /\ slots \in [Items -> {Nil} \cup Items]
    BY DEF WorkerStates
  <2>. QED
    BY <2>1, <2>2, <2>3, <2>4, <2>5, <2>6 DEF TypeOK
<1>5. Counting /\ sem <= Concurrency
  BY <1>1, <1>2, <1>4, ConcurrencyType DEF Counting
<1>6. Spawning
  BY DEF Spawning, Items
<1>7. Outcomes
  BY DEF Outcomes
<1>8. ErrorsAreFaithful
  BY <1>1 DEF ErrorsAreFaithful
<1>9. ResultsInv
  BY <1>1, <1>2 DEF ResultsInv, IsPermutationOf
<1>10. NoWorkerOutlivesCall /\ AnswerInv
  BY DEF NoWorkerOutlivesCall, AnswerInv
<1>. QED
  BY <1>4, <1>5, <1>6, <1>7, <1>8, <1>9, <1>10 DEF IInv

-----------------------------------------------------------------------------
(* How one goroutine's move changes the sets that count goroutines.         *)

HolderStates == {"check", "exec", "commit", "release"}
CommittedStates == {"release", "exit", "done"}
LiveStates == WorkerStates \ {"unborn", "done"}

\* Only the goroutine that moves enters or leaves a set.
LEMMA GotoMoves ==
  ASSUME TypeOK, NEW i \in Items, NEW from, NEW to \in WorkerStates,
         Goto(i, from, to)
  PROVE  /\ worker' \in [Items -> WorkerStates]
         /\ worker[i] = from /\ worker'[i] = to
         /\ \A j \in Items : j # i => worker'[j] = worker[j]
         /\ Holders' = IF to \in HolderStates THEN Holders \cup {i} ELSE Holders \ {i}
         /\ Live' = IF to \in LiveStates THEN Live \cup {i} ELSE Live \ {i}
         /\ Committed' = IF to \in CommittedStates
                           THEN Committed \cup {i} ELSE Committed \ {i}
<1>1. /\ worker' \in [Items -> WorkerStates]
      /\ worker[i] = from /\ worker'[i] = to
      /\ \A j \in Items : j # i => worker'[j] = worker[j]
  BY DEF Goto, TypeOK
<1>. QED
  BY <1>1 DEF Holders, Live, Committed, HolderStates, LiveStates,
              CommittedStates, WorkerStates

\* A goroutine in a given state is, or is not, in each of the sets.
LEMMA Membership ==
  ASSUME NEW i \in Items
  PROVE  /\ i \in Holders <=> worker[i] \in HolderStates
         /\ TypeOK => (i \in Live <=> worker[i] \in LiveStates)
         /\ i \in Committed <=> worker[i] \in CommittedStates
  BY DEF Holders, Live, Committed, HolderStates, LiveStates, CommittedStates,
         TypeOK

\* Spawning an element is the move of its goroutine from unborn to select.
LEMMA SpawnMoves ==
  ASSUME TypeOK, Spawning, Spawn
  PROVE  next \in Items /\ Goto(next, "unborn", "select")
<1>1. next \in Items
  BY ForeachAssumption DEF TypeOK, Spawn, Items
<1>2. worker[next] = "unborn"
  BY <1>1 DEF Spawning, Items
<1>. QED
  BY <1>1, <1>2 DEF Spawn, Goto

-----------------------------------------------------------------------------
\* The counters keep counting, and AcquireSem is the only way up for sem.
LEMMA CountStep ==
  ASSUME IInv, [Next]_vars
  PROVE  Counting' /\ sem' \in Nat /\ wg' \in Nat /\ sem' <= Concurrency
<1> USE DEF IInv
<1>0. /\ Holders \in SUBSET Items /\ Live \in SUBSET Items
      /\ sem \in Nat /\ wg \in Nat
  BY DEF Holders, Live, TypeOK
<1> DEFINE Goal == Counting' /\ sem' \in Nat /\ wg' \in Nat /\ sem' <= Concurrency
<1>1. ASSUME UNCHANGED <<worker, sem, wg>> PROVE Goal
  BY <1>0, <1>1 DEF Counting, Holders, Live
<1>2. CASE Spawn
  <2>1. next \in Items /\ Goto(next, "unborn", "select")
    BY <1>2, SpawnMoves
  <2>2. next \notin Live /\ Live' = Live \cup {next} /\ Holders' = Holders
    BY <2>1, GotoMoves, Membership DEF HolderStates, LiveStates, WorkerStates
  <2>3. sem' = sem /\ wg' = wg + 1
    BY <1>2 DEF Spawn, shared, locals
  <2>. QED
    BY <1>0, <2>1, <2>2, <2>3, CountIn DEF Counting
<1>3. ASSUME NEW i \in Items, AcquireSem(i) PROVE Goal
  <2>1. i \notin Holders /\ Holders' = Holders \cup {i} /\ Live' = Live
    BY <1>3, GotoMoves, Membership
    DEF AcquireSem, HolderStates, LiveStates, WorkerStates
  <2>2. sem' = sem + 1 /\ wg' = wg /\ sem < Concurrency
    BY <1>3 DEF AcquireSem
  <2>. QED
    BY <1>0, <2>1, <2>2, CountIn, ConcurrencyType, SMTT(30) DEF Counting
<1>4. ASSUME NEW i \in Items, ReleaseSem(i) PROVE Goal
  <2>1. i \in Holders /\ Holders' = Holders \ {i} /\ Live' = Live
    BY <1>4, GotoMoves, Membership
    DEF ReleaseSem, HolderStates, LiveStates, WorkerStates
  <2>2. sem' = sem - 1 /\ wg' = wg
    BY <1>4 DEF ReleaseSem
  <2>. QED
    BY <1>0, <2>1, <2>2, CountOut, ConcurrencyType, SMTT(30) DEF Counting
<1>5. ASSUME NEW i \in Items, WgDone(i) PROVE Goal
  <2>1. i \in Live /\ Live' = Live \ {i} /\ Holders' = Holders
    BY <1>5, GotoMoves, Membership
    DEF WgDone, HolderStates, LiveStates, WorkerStates
  <2>2. sem' = sem /\ wg' = wg - 1
    BY <1>5 DEF WgDone
  <2>. QED
    BY <1>0, <2>1, <2>2, CountOut, SMTT(30) DEF Counting
<1>6. ASSUME NEW i \in Items,
             \/ SelectCanceled(i) \/ RecordCanceled(i) \/ CheckCtx(i)
             \/ StepFails(i) \/ StepSucceeds(i) \/ Commit(i)
      PROVE  Goal
  <2>1. PICK from \in WorkerStates, to \in WorkerStates :
           /\ Goto(i, from, to)
           /\ from \in LiveStates /\ to \in LiveStates
           /\ from \in HolderStates <=> to \in HolderStates
    BY <1>6 DEF SelectCanceled, RecordCanceled, CheckCtx, StepFails, StepSucceeds,
                Commit, WorkerStates, LiveStates, HolderStates
  <2>2. Holders' = Holders /\ Live' = Live
    BY <2>1, GotoMoves, Membership
  <2>3. sem' = sem /\ wg' = wg
    BY <1>6 DEF SelectCanceled, RecordCanceled, CheckCtx, StepFails, StepSucceeds,
                Commit
  <2>. QED
    BY <1>0, <2>2, <2>3 DEF Counting
<1>7. CASE StartList \/ StartMissing \/ LeaveLoop \/ WaitReturns \/ Cancel
  BY <1>1, <1>7 DEF StartList, StartMissing, LeaveLoop, WaitReturns, Cancel
<1>8. CASE UNCHANGED vars
  BY <1>1, <1>8 DEF vars
<1>. QED
  BY <1>2, <1>3, <1>4, <1>5, <1>6, <1>7, <1>8 DEF Next, Main, Worker, Returned

-----------------------------------------------------------------------------
\* Every action keeps the variables in their types.
LEMMA TypeStep ==
  ASSUME IInv, [Next]_vars
  PROVE  TypeOK'
<1> USE ForeachAssumption DEF NoError, Nil, Canceled, Missing, IInv
<1>0. sem' \in Nat /\ wg' \in Nat /\ spec' \in ForeachSpec
  BY CountStep, SpecKept DEF TypeOK
<1>1. CASE StartList
  BY <1>0, <1>1 DEF TypeOK, StartList, locals, shared
<1>2. CASE StartMissing
  BY <1>0, <1>2 DEF TypeOK, StartMissing, locals, shared
<1>3. CASE Spawn
  <2>1. worker' \in [Items -> WorkerStates]
    BY <1>3, SpawnMoves, GotoMoves DEF WorkerStates
  <2>2. next' \in 1 .. N + 1
    BY <1>3 DEF TypeOK, Spawn
  <2>. QED
    BY <1>0, <1>3, <2>1, <2>2 DEF TypeOK, Spawn, locals, shared
<1>4. CASE LeaveLoop
  BY <1>0, <1>4 DEF TypeOK, LeaveLoop, locals, shared
<1>5. CASE WaitReturns
  <2>1. ret'.err = firstErr
    BY <1>5 DEF WaitReturns
  <2>. QED
    BY <1>0, <1>5, <2>1 DEF TypeOK, WaitReturns, locals, shared
<1>6. ASSUME NEW i \in Items, Worker(i) PROVE TypeOK'
  <2>1. worker' \in [Items -> WorkerStates]
    <3>1. PICK from, to \in WorkerStates : Goto(i, from, to)
      BY <1>6 DEF Worker, AcquireSem, SelectCanceled, RecordCanceled, CheckCtx,
                  StepFails, StepSucceeds, Commit, ReleaseSem, WgDone, WorkerStates
    <3>. QED
      BY <3>1, GotoMoves
  <2>2. UNCHANGED <<main, len, next, ctxDone, ret>>
    BY <1>6 DEF Worker, AcquireSem, SelectCanceled, RecordCanceled, CheckCtx,
                StepFails, StepSucceeds, Commit, ReleaseSem, WgDone
  <2>3. /\ val' \in [Items -> {Nil} \cup Items]
        /\ err' \in [Items -> {NoError, Canceled} \cup Items]
    <3>1. CASE StepSucceeds(i)
      <4>1. \E v \in {Nil} \cup Items : val' = [val EXCEPT ![i] = v] \/ val' = val
        BY <3>1 DEF StepSucceeds
      <4>2. \E e \in {NoError, Canceled} \cup Items : err' = [err EXCEPT ![i] = e]
        BY <3>1 DEF StepSucceeds, TypeOK
      <4>3. /\ val \in [Items -> {Nil} \cup Items]
            /\ err \in [Items -> {NoError, Canceled} \cup Items]
        BY DEF TypeOK
      <4>. QED
        BY <4>1, <4>2, <4>3
    <3>2. CASE SelectCanceled(i) \/ CheckCtx(i) \/ StepFails(i)
      <4>1. \E e \in {NoError, Canceled} \cup Items : err' = [err EXCEPT ![i] = e]
        BY <3>2 DEF SelectCanceled, CheckCtx, StepFails, TypeOK
      <4>2. val' = val
        BY <3>2 DEF SelectCanceled, CheckCtx, StepFails
      <4>. QED
        BY <4>1, <4>2 DEF TypeOK
    <3>3. CASE UNCHANGED <<val, err>>
      BY <3>3 DEF TypeOK
    <3>. QED
      BY <1>6, <3>1, <3>2, <3>3 DEF Worker, AcquireSem, RecordCanceled, Commit,
                                    ReleaseSem, WgDone, locals
  <2>4. step' \in [Items -> 1 .. Len(SubPipeline)]
    <3>1. CASE StepSucceeds(i)
      <4>1. Len(SubPipeline) \in Nat /\ step[i] \in 1 .. Len(SubPipeline)
        BY LenProperties DEF TypeOK
      <4>2. step[i] # Len(SubPipeline) => step[i] + 1 \in 1 .. Len(SubPipeline)
        BY <4>1
      <4>3. PICK n \in 1 .. Len(SubPipeline) : step' = [step EXCEPT ![i] = n]
        BY <3>1, <4>1, <4>2 DEF StepSucceeds
      <4>. QED
        BY <4>3 DEF TypeOK
    <3>2. CASE ~StepSucceeds(i)
      BY <1>6, <3>2 DEF TypeOK, Worker, AcquireSem, SelectCanceled, RecordCanceled,
                        CheckCtx, StepFails, Commit, ReleaseSem, WgDone, locals
    <3>. QED
      BY <3>1, <3>2
  <2>5. firstErr' \in {NoError, Canceled} \cup Items
    BY <1>6 DEF TypeOK, Worker, AcquireSem, SelectCanceled, RecordCanceled,
                CheckCtx, StepFails, StepSucceeds, Commit, ReleaseSem, WgDone,
                shared, KeepFirst
  <2>6. slots' \in [Items -> {Nil} \cup Items] /\ appended' \in Seq(Items)
    <3>1. CASE Commit(i)
      <4>1. val[i] # Nil => val[i] \in Items
        BY DEF TypeOK
      <4>2. val[i] # Nil => Append(appended, val[i]) \in Seq(Items)
        BY <4>1, AppendProperties DEF TypeOK
      <4>. QED
        BY <3>1, <4>1, <4>2 DEF TypeOK, Commit
    <3>2. CASE ~Commit(i)
      BY <1>6, <3>2 DEF TypeOK, Worker, AcquireSem, SelectCanceled, RecordCanceled,
                        CheckCtx, StepFails, StepSucceeds, ReleaseSem, WgDone, shared
    <3>. QED
      BY <3>1, <3>2
  <2>. QED
    BY <1>0, <2>1, <2>2, <2>3, <2>4, <2>5, <2>6 DEF TypeOK
<1>7. CASE Cancel
  BY <1>0, <1>7 DEF TypeOK, Cancel, locals, shared
<1>8. CASE UNCHANGED vars
  BY <1>0, <1>8 DEF TypeOK, vars
<1>. QED
  BY <1>1, <1>2, <1>3, <1>4, <1>5, <1>6, <1>7, <1>8 DEF Next, Main, Returned

-----------------------------------------------------------------------------
\* Every goroutine action moves its own goroutine, which is live before the
\* step, and leaves the calling goroutine where it is.
LEMMA WorkerMoves ==
  ASSUME TypeOK, NEW i \in Items, Worker(i)
  PROVE  /\ worker[i] \in LiveStates /\ worker'[i] \in WorkerStates \ {"unborn"}
         /\ \A j \in Items : j # i => worker'[j] = worker[j]
         /\ UNCHANGED <<main, len, next, ctxDone, ret>>
<1>1. PICK from \in LiveStates, to \in WorkerStates \ {"unborn"} : Goto(i, from, to)
  BY DEF Worker, AcquireSem, SelectCanceled, RecordCanceled, CheckCtx, StepFails,
         StepSucceeds, Commit, ReleaseSem, WgDone, WorkerStates, LiveStates
<1>2. UNCHANGED <<main, len, next, ctxDone, ret>>
  BY DEF Worker, AcquireSem, SelectCanceled, RecordCanceled, CheckCtx, StepFails,
         StepSucceeds, Commit, ReleaseSem, WgDone
<1>. QED
  BY <1>1, <1>2, GotoMoves

\* firstErr is written once, so FirstErrorWins holds of every step.
LEMMA FirstErrStep ==
  ASSUME [Next]_vars
  PROVE  firstErr # NoError => firstErr' = firstErr
  BY DEF Next, vars, Main, StartList, StartMissing, Spawn, LeaveLoop, WaitReturns,
         Worker, AcquireSem, SelectCanceled, RecordCanceled, CheckCtx, StepFails,
         StepSucceeds, Commit, ReleaseSem, WgDone, Cancel, Returned, shared, KeepFirst

\* Elements are spawned in order, and only spawned ones move.
LEMMA SpawningStep ==
  ASSUME IInv, [Next]_vars
  PROVE  Spawning'
<1> USE ForeachAssumption DEF IInv, NoError
<1>1. ASSUME UNCHANGED <<worker, next, len>>,
             main' # "start",
             main' \in {"wait", "returned"} => next > len \/ firstErr' # NoError
      PROVE  Spawning'
  BY <1>1 DEF Spawning
<1>2. CASE StartList
  <2>1. worker' = worker /\ next' = next /\ main' = "loop" /\ len' \in Nat
    BY <1>2 DEF StartList
  <2>2. next = 1
    BY <1>2 DEF StartList, Spawning
  <2>3. \A i \in Items : worker[i] = "unborn" <=> i >= next
    BY DEF Spawning
  <2>4. next' <= len' + 1
    <3>1. PICK n \in Nat : len' = n
      BY <2>1
    <3>2. 1 <= n + 1
      BY <3>1
    <3>. QED
      BY <2>1, <2>2, <3>1, <3>2, Zenon
  <2>5. \A i \in Items : worker'[i] = "unborn" <=> i >= next'
    BY <2>1, <2>3
  <2>. QED
    BY <2>1, <2>4, <2>5 DEF Spawning
<1>3. CASE StartMissing
  BY <1>1, <1>3 DEF StartMissing, Spawning
<1>4. CASE Spawn
  <2>1. next \in Items /\ Goto(next, "unborn", "select")
    BY <1>4, SpawnMoves
  <2>2. /\ worker'[next] = "select"
        /\ \A j \in Items : j # next => worker'[j] = worker[j]
    BY <2>1, GotoMoves DEF WorkerStates
  <2>3. main' = "loop" /\ next' = next + 1 /\ next <= len /\ len' = len
    BY <1>4 DEF Spawn
  <2>4. ASSUME NEW j \in Items PROVE worker'[j] = "unborn" <=> j >= next + 1
    <3>1. next \in Int /\ j \in Int
      BY <2>1 DEF Items
    <3>2. worker[j] = "unborn" <=> j >= next
      BY DEF Spawning
    <3>. QED
      BY <2>2, <3>1, <3>2
  <2>. QED
    BY <2>3, <2>4 DEF Spawning, TypeOK
<1>5. CASE LeaveLoop
  BY <1>1, <1>5 DEF LeaveLoop, shared
<1>6. CASE WaitReturns
  BY <1>1, <1>6 DEF WaitReturns, Spawning, shared
<1>7. ASSUME NEW i \in Items, Worker(i) PROVE Spawning'
  <2>1. /\ worker[i] # "unborn" /\ worker'[i] # "unborn"
        /\ \A j \in Items : j # i => worker'[j] = worker[j]
        /\ UNCHANGED <<main, len, next>>
    BY <1>7, WorkerMoves DEF LiveStates
  <2>2. firstErr # NoError => firstErr' # NoError
    BY FirstErrStep
  <2>3. main # "start"
    BY <2>1 DEF Spawning, TypeOK, Items
  <2>. QED
    BY <2>1, <2>2, <2>3 DEF Spawning
<1>8. CASE Cancel \/ UNCHANGED vars
  BY <1>8 DEF Cancel, Spawning, vars, locals, shared
<1>. QED
  BY <1>2, <1>3, <1>4, <1>5, <1>6, <1>7, <1>8 DEF Next, Main, Returned

\* No goroutine has an outcome before its sub-pipeline is over.
LEMMA OutcomesStep ==
  ASSUME IInv, [Next]_vars
  PROVE  Outcomes'
<1> USE ForeachAssumption DEF IInv, NoError, Nil, Canceled
<1>1. ASSUME UNCHANGED <<worker, val, err>>, ctxDone => ctxDone' PROVE Outcomes'
  BY <1>1 DEF Outcomes
<1>2. CASE Spawn
  <2>1. next \in Items /\ Goto(next, "unborn", "select")
    BY <1>2, SpawnMoves
  <2>2. UNCHANGED <<val, err, ctxDone>>
    BY <1>2 DEF Spawn, locals
  <2>3. /\ worker[next] = "unborn" /\ worker'[next] = "select"
        /\ \A j \in Items : j # next => worker'[j] = worker[j]
    BY <2>1, GotoMoves DEF WorkerStates
  <2>. QED
    BY <2>1, <2>2, <2>3 DEF Outcomes
<1>3. ASSUME NEW i \in Items, Worker(i) PROVE Outcomes'
  <2>1. /\ \A j \in Items : j # i => worker'[j] = worker[j]
        /\ ctxDone' = ctxDone
    BY <1>3, WorkerMoves
  <2>2. \A j \in Items : j # i => val'[j] = val[j] /\ err'[j] = err[j]
    BY <1>3 DEF TypeOK, Worker, AcquireSem, SelectCanceled, RecordCanceled, CheckCtx,
                StepFails, StepSucceeds, Commit, ReleaseSem, WgDone, locals
  <2>3. Outcomes!(i)'
    <3>1. i # Canceled
      BY DEF Items
    <3>2. CASE StepSucceeds(i) \/ StepFails(i)
      BY <3>1, <3>2 DEF Outcomes, TypeOK, StepSucceeds, StepFails, Goto
    <3>3. CASE AcquireSem(i) \/ SelectCanceled(i) \/ CheckCtx(i)
      BY <3>3 DEF Outcomes, TypeOK, AcquireSem, SelectCanceled, CheckCtx, Goto, locals
    <3>4. CASE RecordCanceled(i) \/ Commit(i) \/ ReleaseSem(i) \/ WgDone(i)
      BY <3>4 DEF Outcomes, TypeOK, RecordCanceled, Commit, ReleaseSem, WgDone, Goto,
                  locals
    <3>. QED
      BY <1>3, <3>2, <3>3, <3>4 DEF Worker
  <2>. QED
    BY <2>1, <2>2, <2>3 DEF Outcomes
<1>4. CASE Cancel \/ StartList \/ StartMissing \/ LeaveLoop \/ WaitReturns
  BY <1>1, <1>4 DEF Cancel, StartList, StartMissing, LeaveLoop, WaitReturns, locals
<1>5. CASE UNCHANGED vars
  BY <1>1, <1>5 DEF vars
<1>. QED
  BY <1>2, <1>3, <1>4, <1>5 DEF Next, Main, Returned

-----------------------------------------------------------------------------
\* A goroutine joins Committed by recording its outcome, in RecordCanceled or
\* Commit, and never leaves; until then its outcome is its own business.
LEMMA CommittedMoves ==
  ASSUME TypeOK, NEW i \in Items, Worker(i)
  PROVE  /\ RecordCanceled(i) \/ Commit(i) =>
              /\ i \notin Committed /\ Committed' = Committed \cup {i}
              /\ val' = val /\ err' = err
         /\ ~(RecordCanceled(i) \/ Commit(i)) =>
              /\ Committed' = Committed
              /\ firstErr' = firstErr /\ slots' = slots /\ appended' = appended
              /\ \A j \in Committed : val'[j] = val[j] /\ err'[j] = err[j]
<1>1. ASSUME RecordCanceled(i) \/ Commit(i)
      PROVE  i \notin Committed /\ Committed' = Committed \cup {i}
  BY <1>1, GotoMoves, Membership
  DEF RecordCanceled, Commit, CommittedStates, WorkerStates
<1>2. ASSUME ReleaseSem(i) \/ WgDone(i) PROVE Committed' = Committed
  BY <1>2, GotoMoves, Membership
  DEF ReleaseSem, WgDone, CommittedStates, WorkerStates
<1>3. ASSUME \/ AcquireSem(i) \/ SelectCanceled(i) \/ CheckCtx(i)
             \/ StepFails(i) \/ StepSucceeds(i)
      PROVE  i \notin Committed /\ Committed' = Committed
  <2>1. PICK from \in WorkerStates, to \in WorkerStates :
           /\ Goto(i, from, to)
           /\ from \notin CommittedStates /\ to \notin CommittedStates
    BY <1>3 DEF AcquireSem, SelectCanceled, CheckCtx, StepFails, StepSucceeds,
                WorkerStates, CommittedStates
  <2>. QED
    BY <2>1, GotoMoves, Membership
<1>4. \A j \in Items : j # i => val'[j] = val[j] /\ err'[j] = err[j]
  BY DEF TypeOK, Worker, AcquireSem, SelectCanceled, RecordCanceled, CheckCtx,
         StepFails, StepSucceeds, Commit, ReleaseSem, WgDone, locals
<1>5. Committed \in SUBSET Items
  BY DEF Committed
<1>6. RecordCanceled(i) \/ Commit(i) \/ ReleaseSem(i) \/ WgDone(i)
        => val' = val /\ err' = err
  BY DEF RecordCanceled, Commit, ReleaseSem, WgDone, locals
<1>7. ~(RecordCanceled(i) \/ Commit(i))
        => firstErr' = firstErr /\ slots' = slots /\ appended' = appended
  BY DEF Worker, AcquireSem, SelectCanceled, CheckCtx, StepFails, StepSucceeds,
         ReleaseSem, WgDone, shared
<1>. QED
  BY <1>1, <1>2, <1>3, <1>4, <1>5, <1>6, <1>7 DEF Worker

\* A goroutine that is only being spawned has recorded nothing.
LEMMA SpawnCommitted ==
  ASSUME TypeOK, NEW i \in Items, Goto(i, "unborn", "select")
  PROVE  Committed' = Committed
<1>1. i \notin Committed
  BY Membership DEF Goto, CommittedStates
<1>2. Committed' = Committed \ {i}
  BY GotoMoves DEF CommittedStates, WorkerStates
<1>. QED
  BY <1>1, <1>2

\* Every error recorded is in firstErr's shadow, and firstErr comes from one.
LEMMA ErrorsStep ==
  ASSUME IInv, [Next]_vars
  PROVE  ErrorsAreFaithful'
<1> USE ForeachAssumption DEF IInv, NoError, Canceled
<1>1. ASSUME UNCHANGED <<firstErr, err>>, Committed' = Committed,
             ctxDone => ctxDone'
      PROVE  ErrorsAreFaithful'
  BY <1>1 DEF ErrorsAreFaithful
<1>2. ASSUME UNCHANGED worker PROVE Committed' = Committed
  BY <1>2 DEF Committed
<1>3. CASE Spawn
  <2>1. next \in Items /\ Goto(next, "unborn", "select")
    BY <1>3, SpawnMoves
  <2>2. Committed' = Committed
    BY <2>1, SpawnCommitted
  <2>. QED
    BY <1>1, <1>3, <2>2 DEF Spawn, locals, shared
<1>4. ASSUME NEW i \in Items, Worker(i) PROVE ErrorsAreFaithful'
  <2>1. ctxDone' = ctxDone
    BY <1>4, WorkerMoves
  <2>2. CASE RecordCanceled(i) \/ Commit(i)
    <3>1. Committed' = Committed \cup {i} /\ err' = err
      BY <1>4, <2>2, CommittedMoves
    <3>2. firstErr' = IF err[i] # NoError THEN KeepFirst(err[i]) ELSE firstErr
      BY <2>2 DEF RecordCanceled, Commit, KeepFirst
    <3>3. err[i] = Canceled => ctxDone
      BY DEF Outcomes
    <3>. QED
      BY <2>1, <3>1, <3>2, <3>3 DEF ErrorsAreFaithful, KeepFirst
  <2>3. CASE ~(RecordCanceled(i) \/ Commit(i))
    BY <1>4, <2>1, <2>3, CommittedMoves DEF ErrorsAreFaithful
  <2>. QED
    BY <2>2, <2>3
<1>5. CASE Cancel \/ StartList \/ StartMissing \/ LeaveLoop \/ WaitReturns
  BY <1>1, <1>2, <1>5
  DEF Cancel, StartList, StartMissing, LeaveLoop, WaitReturns, locals, shared
<1>6. CASE UNCHANGED vars
  BY <1>1, <1>2, <1>6 DEF vars
<1>. QED
  BY <1>3, <1>4, <1>5, <1>6 DEF Next, Main, Returned

\* The results hold the values of the committed elements and nothing else.
LEMMA ResultsStep ==
  ASSUME IInv, [Next]_vars
  PROVE  ResultsInv'
<1> USE ForeachAssumption DEF IInv, NoError, Nil
<1>0. Committed \in SUBSET Items
  BY DEF Committed
<1>1. ASSUME UNCHANGED <<slots, appended>>, Committed' = Committed,
             \A j \in Committed : val'[j] = val[j]
      PROVE  ResultsInv'
  <2>1. Collected' = Collected
    BY <1>1 DEF Collected
  <2>. QED
    BY <1>1, <2>1, SpecKept DEF ResultsInv, IsPermutationOf
<1>2. CASE Spawn
  <2>1. next \in Items /\ Goto(next, "unborn", "select")
    BY <1>2, SpawnMoves
  <2>2. Committed' = Committed
    BY <2>1, SpawnCommitted
  <2>. QED
    BY <1>1, <1>2, <2>2 DEF Spawn, locals, shared
<1>3. ASSUME NEW i \in Items, RecordCanceled(i) \/ Commit(i) PROVE ResultsInv'
  <2>1. /\ i \notin Committed /\ Committed' = Committed \cup {i} /\ val' = val
    BY <1>3, CommittedMoves DEF Worker
  <2>2. CASE val[i] = Nil
    <3>1. slots' = slots /\ appended' = appended
      BY <1>3, <2>2 DEF RecordCanceled, Commit
    <3>2. Collected' = Collected
      BY <2>1, <2>2 DEF Collected
    <3>3. PreserveOrder => slots[i] = Nil
      BY <2>1 DEF ResultsInv
    <3>. QED
      BY <2>1, <2>2, <3>1, <3>2, <3>3, SpecKept DEF ResultsInv, IsPermutationOf
  <2>3. CASE val[i] # Nil
    <3>1. val[i] = i /\ Commit(i)
      BY <1>3, <2>3 DEF Outcomes, RecordCanceled, Goto
    <3>2. Collected' = Collected \cup {i} /\ i \notin Collected
      BY <2>1, <2>3 DEF Collected
    <3>3. CASE PreserveOrder
      <4>1. slots' = [slots EXCEPT ![i] = val[i]]
        BY <2>3, <3>1, <3>3 DEF Commit
      <4>. QED
        BY <2>1, <3>3, <4>1, SpecKept DEF ResultsInv, TypeOK
    <3>4. CASE ~PreserveOrder
      <4>1. appended' = Append(appended, i)
        BY <2>3, <3>1, <3>4 DEF Commit
      <4>2. appended \in Seq(Items)
        BY DEF TypeOK
      <4>3. /\ Len(appended) = Cardinality(Collected)
            /\ {appended[k] : k \in 1 .. Len(appended)} = Collected
        BY <3>4 DEF ResultsInv, IsPermutationOf
      <4>4. Len(appended) \in Nat
        BY <4>2, LenProperties
      <4>5. /\ Len(appended') = Len(appended) + 1
            /\ \A k \in 1 .. Len(appended) : appended'[k] = appended[k]
            /\ appended'[Len(appended) + 1] = i
        BY <4>1, <4>2, AppendProperties
      <4>6. {appended'[k] : k \in 1 .. Len(appended')} = Collected \cup {i}
        <5>1. 1 .. Len(appended') = (1 .. Len(appended)) \cup {Len(appended) + 1}
          BY <4>4, <4>5
        <5>. QED
          BY <4>3, <4>5, <5>1
      <4>7. Cardinality(Collected \cup {i}) = Cardinality(Collected) + 1
        BY <1>0, <3>2, CountIn DEF Collected
      <4>. QED
        BY <3>2, <3>4, <4>3, <4>5, <4>6, <4>7, SpecKept DEF ResultsInv, IsPermutationOf
    <3>. QED
      BY <3>3, <3>4
  <2>. QED
    BY <2>2, <2>3
<1>4. ASSUME NEW i \in Items, Worker(i), ~(RecordCanceled(i) \/ Commit(i))
      PROVE  ResultsInv'
  BY <1>1, <1>4, CommittedMoves
<1>5. ASSUME UNCHANGED <<worker, val, slots, appended>> PROVE ResultsInv'
  <2>1. Committed' = Committed
    BY <1>5 DEF Committed
  <2>. QED
    BY <1>1, <1>5, <2>1
<1>6. CASE Cancel \/ StartList \/ StartMissing \/ LeaveLoop \/ WaitReturns
  BY <1>5, <1>6
  DEF Cancel, StartList, StartMissing, LeaveLoop, WaitReturns, locals, shared
<1>7. CASE UNCHANGED vars
  BY <1>5, <1>7 DEF vars
<1>. QED
  BY <1>2, <1>3, <1>4, <1>6, <1>7 DEF Next, Main, Returned

\* Once the call has returned no goroutine is live, and none moves again.
LEMMA OutliveStep ==
  ASSUME IInv, [Next]_vars
  PROVE  NoWorkerOutlivesCall'
<1> USE DEF IInv
<1>1. CASE main = "returned"
  <2>1. \A i \in Items : ~Worker(i)
    BY <1>1, WorkerMoves, Membership DEF NoWorkerOutlivesCall
  <2>2. worker' = worker
    BY <1>1, <2>1 DEF Next, vars, Main, StartList, StartMissing, Spawn, LeaveLoop,
                      WaitReturns, Cancel, Returned
  <2>. QED
    BY <1>1, <2>2 DEF NoWorkerOutlivesCall, Live
<1>2. CASE main # "returned" /\ main' = "returned"
  <2>1. StartMissing \/ WaitReturns
    BY <1>2, WorkerMoves DEF Next, vars, Main, StartList, Spawn, LeaveLoop, Cancel,
                             Returned
  <2>2. CASE StartMissing
    <3>1. \A i \in Items : worker[i] = "unborn"
      BY <2>2 DEF StartMissing, Spawning, Items
    <3>. QED
      BY <2>2, <3>1 DEF StartMissing, NoWorkerOutlivesCall, Live
  <2>3. CASE WaitReturns
    <3>1. IsFiniteSet(Live) /\ Cardinality(Live) = 0
      BY <2>3, ElementsFinite DEF WaitReturns, Counting, Live
    <3>2. Live = {}
      BY <3>1, FS_EmptySet
    <3>. QED
      BY <2>3, <3>2 DEF WaitReturns, NoWorkerOutlivesCall, Live
  <2>. QED
    BY <2>1, <2>2, <2>3
<1>3. CASE main' # "returned"
  BY <1>3 DEF NoWorkerOutlivesCall
<1>. QED
  BY <1>1, <1>2, <1>3

\* What was answered stays the answer, and it was built from the results.
LEMMA AnswerStep ==
  ASSUME IInv, [Next]_vars
  PROVE  AnswerInv'
<1> USE DEF IInv, NoError
<1>1. CASE main = "returned"
  <2>1. \A i \in Items : ~Worker(i)
    BY <1>1, WorkerMoves, Membership DEF NoWorkerOutlivesCall
  <2>2. UNCHANGED <<main, len, ret, firstErr, slots, appended>>
    BY <1>1, <2>1 DEF Next, vars, Main, StartList, StartMissing, Spawn, LeaveLoop,
                      WaitReturns, Cancel, Returned, shared
  <2>3. Compact(InList(slots))' = Compact(InList(slots))
    BY <2>2 DEF InList
  <2>. QED
    BY <2>2, <2>3, SpecKept DEF AnswerInv
<1>2. CASE main # "returned" /\ main' = "returned"
  <2>1. StartMissing \/ WaitReturns
    BY <1>2, WorkerMoves DEF Next, vars, Main, StartList, Spawn, LeaveLoop, Cancel,
                             Returned
  <2>2. CASE StartMissing
    BY <2>2 DEF StartMissing, Spawning, AnswerInv
  <2>3. CASE WaitReturns
    <3>1. UNCHANGED <<len, firstErr, slots, appended>>
      BY <2>3 DEF WaitReturns, shared
    <3>2. Compact(InList(slots))' = Compact(InList(slots))
      BY <3>1 DEF InList
    <3>3. firstErr # NoError => ret'.err # NoError
      BY <2>3 DEF WaitReturns
    <3>4. firstErr = NoError =>
            ret'.list = IF PreserveOrder THEN Compact(InList(slots)) ELSE appended
      BY <2>3 DEF WaitReturns
    <3>. QED
      BY <3>1, <3>2, <3>3, <3>4, SpecKept DEF AnswerInv
  <2>. QED
    BY <2>1, <2>2, <2>3
<1>3. CASE main' # "returned"
  BY <1>3 DEF AnswerInv
<1>. QED
  BY <1>1, <1>2, <1>3

\* The invariant holds in every reachable state.
THEOREM Inductive == Spec => []IInv
<1>1. Init => IInv
  BY InitEstablishes
<1>2. IInv /\ [Next]_vars => IInv'
  <2> SUFFICES ASSUME IInv, [Next]_vars PROVE IInv'
    OBVIOUS
  <2>1. (sem <= Concurrency)'
    BY CountStep, SpecKept
  <2>. QED
    BY <2>1, CountStep, TypeStep, SpawningStep, OutcomesStep, ErrorsStep,
       ResultsStep, OutliveStep, AnswerStep
    DEF IInv
<1>. QED
  BY <1>1, <1>2, PTL DEF Spec

-----------------------------------------------------------------------------
\* Every variable keeps its type: no counter goes negative and no step index
\* leaves the sub-pipeline, whatever the list and the sub-pipeline are.
THEOREM TypeCorrect == Spec => []TypeOK
  BY Inductive, PTL DEF IInv

\* The semaphore bounds the running sub-pipelines by spec.concurrency.
THEOREM BoundHolds == Spec => []ConcurrencyBound
<1>1. IInv => ConcurrencyBound
  BY DEF IInv, Counting, ConcurrencyBound
<1>. QED
  BY <1>1, Inductive, PTL

\* wg.Wait covers every goroutine: none is running once ForeachNode returned.
THEOREM CallOutlivesWorkers == Spec => []NoWorkerOutlivesCall
  BY Inductive, PTL DEF IInv

\* An error is reported exactly when some element failed, and it is that
\* element's, or the cancellation of a cancelled call.
THEOREM ErrorsReported == Spec => []ErrorsAreFaithful
  BY Inductive, PTL DEF IInv

\* The error that a failing call reports is the first one recorded.
THEOREM FirstErrorKept == Spec => FirstErrorWins
<1>1. [Next]_vars => [firstErr # NoError => firstErr' = firstErr]_vars
  BY FirstErrStep
<1>. QED
  BY <1>1, PTL DEF Spec, FirstErrorWins

\* A successful call ran every element to its emit and returns exactly the
\* values emitted, in list order when the step asks for it.
THEOREM SuccessComplete == Spec => []SuccessIsComplete
<1>1. IInv => SuccessIsComplete
  <2> SUFFICES ASSUME IInv, main = "returned", ret.err = NoError, len > 0
               PROVE  SuccessIsComplete
    BY DEF SuccessIsComplete
  <2> USE DEF IInv
  <2>1. firstErr = NoError /\ next > len
    BY DEF AnswerInv, Spawning
  <2>2. 1 .. len \in SUBSET Items /\ next = len + 1 /\ len \in Nat
    BY <2>1, ForeachAssumption DEF TypeOK, Items, Spawning
  <2>3. ASSUME NEW i \in 1 .. len PROVE worker[i] = "done"
    <3>1. i \in Items /\ ~(i >= next)
      BY <2>2
    <3>2. worker[i] # "unborn" /\ i \notin Live
      BY <3>1 DEF Spawning, NoWorkerOutlivesCall
    <3>. QED
      BY <3>1, <3>2 DEF Live
  <2>4. Committed = 1 .. len
    <3>1. 1 .. len \subseteq Committed
      BY <2>2, <2>3 DEF Committed
    <3>2. ASSUME NEW i \in Committed PROVE i \in 1 .. len
      <4>1. i \in Items /\ worker[i] # "unborn"
        BY DEF Committed
      <4>. QED
        BY <2>2, <4>1 DEF Spawning, Items, TypeOK
    <3>. QED
      BY <3>1, <3>2
  <2>5. \A i \in 1 .. len : worker[i] = "done" /\ err[i] = NoError
    BY <2>1, <2>3, <2>4 DEF ErrorsAreFaithful
  <2>6. Emitted = Collected
    BY <2>4 DEF Emitted, Collected
  <2>7. PreserveOrder => ret.list = Compact(InList(val))
    <3>1. PreserveOrder => \A i \in 1 .. len : slots[i] = val[i]
      BY <2>2, <2>4 DEF ResultsInv
    <3>2. PreserveOrder => InList(slots) = InList(val)
      BY <3>1 DEF InList
    <3>. QED
      BY <3>2 DEF AnswerInv
  <2>8. ~PreserveOrder => IsPermutationOf(ret.list, Emitted)
    BY <2>6 DEF AnswerInv, ResultsInv
  <2>. QED
    BY <2>5, <2>7, <2>8 DEF SuccessIsComplete
<1>. QED
  BY <1>1, Inductive, PTL

\* Together: what the pipeline is told of a foreach's elements is true.
THEOREM AnswersFaithful == Spec => []AnswerIsFaithful
  BY ErrorsReported, SuccessComplete, PTL DEF AnswerIsFaithful

-----------------------------------------------------------------------------
(***************************************************************************)
(* A foreach step implements one parallel map, whatever the length of the  *)
(* list, the concurrency and the sub-pipeline: every step of Foreach is a  *)
(* step of ForeachAbs, seen through the outcomes recorded so far, or one   *)
(* that ForeachAbs does not see.                                           *)
(***************************************************************************)

\* The four places of the calling goroutine and the phases they belong to.
LEMMA PhaseOf ==
  ASSUME TypeOK
  PROVE  /\ main = "start" => absPhase = "start"
         /\ main \in {"loop", "wait"} => absPhase = "running"
         /\ main = "returned" => absPhase = "answered"
  BY DEF absPhase, TypeOK

\* A step that leaves what is committed and decides nothing else is not seen.
LEMMA Unseen ==
  ASSUME UNCHANGED <<spec, len, ctxDone, ret>>,
         absPhase' = absPhase,
         Committed' = Committed,
         \A j \in Committed : val'[j] = val[j] /\ err'[j] = err[j]
  PROVE  UNCHANGED Abs!vars
<1>1. \A i \in Items : outcomeOf(i)' = outcomeOf(i)
  BY DEF outcomeOf
<1>2. absOutcome' = absOutcome
  BY <1>1 DEF absOutcome
<1>. QED
  BY <1>2 DEF Abs!vars, absPhase, absOutcome

-----------------------------------------------------------------------------
\* The call that is about to start is the abstract one about to start.
LEMMA InitRefines == Init => Abs!Init
<1> SUFFICES ASSUME Init PROVE Abs!Init
  OBVIOUS
<1>1. absPhase = "start"
  BY DEF Init, absPhase
<1>2. \A i \in Items : outcomeOf(i) = "pending"
  BY DEF Init, outcomeOf, Committed
<1>3. absOutcome = [i \in Abs!Items |-> "pending"]
  BY <1>2 DEF absOutcome, Items, Abs!Items
<1>4. ret = Abs!Unanswered
  BY DEF Init, Pending, NoError, Abs!Unanswered
<1>. QED
  BY <1>1, <1>3, <1>4 DEF Init, Abs!Init

\* Reading the list begins the map, or skips it.
LEMMA StartRefines ==
  ASSUME TypeOK, StartList \/ StartMissing
  PROVE  Abs!Begin \/ Abs!Skip
<1>1. worker' = worker /\ err' = err /\ val' = val /\ spec' = spec /\ ctxDone' = ctxDone
  BY DEF StartList, StartMissing, locals
<1>2. absOutcome' = absOutcome
  BY <1>1 DEF absOutcome, outcomeOf, Committed
<1>3. CASE StartList
  <2>1. absPhase = "start" /\ absPhase' = "running"
    BY <1>3 DEF StartList, absPhase
  <2>. QED
    BY <1>1, <1>2, <1>3, <2>1 DEF StartList, Abs!Begin
<1>4. CASE StartMissing
  <2>1. absPhase = "start" /\ absPhase' = "answered"
    BY <1>4 DEF StartMissing, absPhase
  <2>2. ret' = [err |-> IF spec.skipMissing THEN 0 ELSE -2, list |-> <<>>]
    BY <1>4 DEF StartMissing, OnMissingSkip, NoError, Missing
  <2>3. len' = len
    BY <1>4 DEF StartMissing
  <2>. QED
    BY <1>1, <1>2, <2>1, <2>2, <2>3 DEF Abs!Skip
<1>. QED
  BY <1>3, <1>4

\* An element whose goroutine exists is one of the list's, and the call is on.
LEMMA LiveElement ==
  ASSUME IInv, NEW i \in Items, worker[i] \in LiveStates
  PROVE  i \in 1 .. len /\ absPhase = "running"
<1> USE DEF IInv
<1>1. ~(i >= next) /\ next <= len + 1
  BY DEF Spawning, LiveStates
<1>2. i \in 1 .. len
  BY <1>1, ForeachAssumption DEF TypeOK, Items
<1>3. main # "start"
  BY <1>1 DEF Spawning, Items
<1>4. main # "returned"
  BY DEF NoWorkerOutlivesCall, Live, LiveStates
<1>. QED
  BY <1>2, <1>3, <1>4 DEF absPhase

\* Recording an outcome decides the element, and only that one.
LEMMA RecordRefines ==
  ASSUME IInv, NEW i \in Items, RecordCanceled(i) \/ Commit(i)
  PROVE  Abs!Decide(i)
<1> USE DEF IInv
<1>1. Worker(i)
  BY DEF Worker
<1>2. /\ i \notin Committed /\ Committed' = Committed \cup {i}
      /\ val' = val /\ err' = err
  BY <1>1, CommittedMoves
<1>3. /\ worker[i] \in LiveStates
      /\ UNCHANGED <<main, len, next, ctxDone, ret>> /\ spec' = spec
  BY <1>1, WorkerMoves, SpecKept DEF Next
<1>4. i \in 1 .. len /\ absPhase = "running" /\ absPhase' = absPhase
  BY <1>3, LiveElement DEF absPhase
<1>5. absOutcome[i] = "pending"
  BY <1>2 DEF absOutcome, outcomeOf
<1>6. \A j \in Items : j # i => outcomeOf(j)' = outcomeOf(j)
  BY <1>2 DEF outcomeOf
<1>7. PICK o : o = outcomeOf(i)'
  OBVIOUS
<1>8. o \in Abs!Outcome \ {"pending"} /\ (o = "canceled" => ctxDone)
  BY <1>2, <1>7 DEF outcomeOf, Abs!Outcome, Outcomes
<1>9. absOutcome' = [absOutcome EXCEPT ![i] = o]
  BY <1>6, <1>7 DEF absOutcome
<1>10. i <= len
  BY <1>4, ForeachAssumption DEF TypeOK
<1>11. UNCHANGED <<spec, absPhase, len, ctxDone, ret>>
  BY <1>3, <1>4
<1>. QED
  BY <1>4, <1>5, <1>8, <1>9, <1>10, <1>11, Zenon DEF Abs!Decide

\* What is left for wg.Wait to find when no goroutine failed: every element of
\* the list is decided, and its value is where the list is made from.
LEMMA AllDecided ==
  ASSUME IInv, main = "wait", wg = 0
  PROVE  /\ Committed \subseteq 1 .. len
         /\ firstErr = NoError =>
              /\ Committed = 1 .. len
              /\ \A j \in 1 .. len : j \in Items /\ err[j] = NoError
<1> USE DEF IInv
<1>1. IsFiniteSet(Live) /\ Cardinality(Live) = 0
  BY ElementsFinite DEF Counting, Live
<1>2. Live = {}
  BY <1>1, FS_EmptySet
<1>3. ASSUME NEW j \in Committed PROVE j \in 1 .. len
  <2>1. j \in Items /\ ~(j >= next)
    BY DEF Committed, Spawning
  <2>. QED
    BY <2>1, ForeachAssumption DEF Spawning, Items, TypeOK
<1>4. ASSUME firstErr = NoError, NEW j \in 1 .. len
      PROVE  j \in Committed /\ j \in Items /\ err[j] = NoError
  <2>1. j \in Items
    BY ForeachAssumption DEF TypeOK, Items
  <2>2. worker[j] # "unborn"
    BY <1>4, <2>1, ForeachAssumption DEF Spawning, TypeOK, Items
  <2>3. worker[j] = "done"
    BY <1>2, <2>1, <2>2 DEF Live
  <2>4. j \in Committed
    BY <2>1, <2>3 DEF Committed
  <2>. QED
    BY <1>4, <2>1, <2>4 DEF ErrorsAreFaithful
<1>. QED
  BY <1>3, <1>4

\* The ordered loop's list is the abstract one...
LEMMA OrderedList ==
  ASSUME IInv, main = "wait", wg = 0, firstErr = NoError, PreserveOrder
  PROVE  Compact(InList(slots)) = Abs!InOrder
<1> USE DEF IInv
<1>1. ASSUME NEW j \in 1 .. len PROVE slots[j] = Abs!Entry(j)
  <2>1. j \in Items /\ j \in Committed /\ err[j] = NoError
    BY AllDecided
  <2>2. slots[j] = val[j] /\ val[j] \in {Nil, j}
    BY <2>1 DEF ResultsInv, Outcomes
  <2>3. absOutcome[j] = IF val[j] = Nil THEN "nil" ELSE "value"
    BY <2>1 DEF absOutcome, outcomeOf, NoError, Canceled
  <2>. QED
    BY <2>2, <2>3 DEF Abs!Entry, Nil
<1>2. InList(slots) = [j \in 1 .. len |-> Abs!Entry(j)]
  BY <1>1 DEF InList
<1>. QED
  BY <1>2 DEF Compact, Abs!InOrder, Nil

\* ...and the other loop's is one of the orders the abstract call may choose.
LEMMA UnorderedList ==
  ASSUME IInv, main = "wait", wg = 0, firstErr = NoError, ~PreserveOrder
  PROVE  appended \in Abs!Orders(Abs!Valued)
<1> USE DEF IInv
<1>1. Committed = 1 .. len /\ \A j \in 1 .. len : j \in Items /\ err[j] = NoError
  BY AllDecided
<1>2. \A j \in 1 .. len : absOutcome[j] = IF val[j] = Nil THEN "nil" ELSE "value"
  BY <1>1 DEF absOutcome, outcomeOf, NoError, Canceled
<1>3. Abs!Valued = Collected
  BY <1>1, <1>2 DEF Abs!Valued, Collected
<1>4. /\ Len(appended) = Cardinality(Collected)
      /\ {appended[k] : k \in 1 .. Len(appended)} = Collected
  BY DEF ResultsInv, IsPermutationOf
<1>5. appended \in [1 .. Len(appended) -> Items]
  BY LenProperties DEF TypeOK
<1>6. appended \in [1 .. Len(appended) -> Collected] /\ DOMAIN appended = 1 .. Len(appended)
  BY <1>4, <1>5
<1>7. Abs!Cardinality(Collected) = Cardinality(Collected)
  BY DEF Abs!Cardinality, Cardinality
<1>. QED
  BY <1>3, <1>4, <1>6, <1>7 DEF Abs!Orders

\* wg.Wait returning answers the abstract call, with the list or with an error.
LEMMA AnswerRefines ==
  ASSUME IInv, WaitReturns
  PROVE  Abs!AnswerList \/ Abs!AnswerError
<1> USE DEF IInv
<1>1. /\ main = "wait" /\ wg = 0 /\ main' = "returned"
      /\ UNCHANGED <<spec, len, worker, val, err, ctxDone>>
  BY DEF WaitReturns, locals
<1>2. absPhase = "running" /\ absPhase' = "answered"
  BY <1>1 DEF absPhase
<1>3. absOutcome' = absOutcome
  BY <1>1 DEF absOutcome, outcomeOf, Committed
<1>4. CASE firstErr = NoError
  <2>1. \A j \in 1 .. len : absOutcome[j] \in {"nil", "value"}
    <3>1. \A j \in 1 .. len : j \in Items /\ j \in Committed /\ err[j] = NoError
      BY <1>1, <1>4, AllDecided
    <3>. QED
      BY <3>1 DEF absOutcome, outcomeOf, NoError, Canceled
  <2>2. \E s \in IF spec.preserveOrder THEN {Abs!InOrder} ELSE Abs!Orders(Abs!Valued) :
          ret' = [err |-> 0, list |-> s]
    <3>1. ret' = [err |-> 0, list |-> IF PreserveOrder THEN Compact(InList(slots))
                                                       ELSE appended]
      BY <1>4 DEF WaitReturns, NoError
    <3>. QED
      BY <1>1, <1>4, <3>1, OrderedList, UnorderedList DEF PreserveOrder
  <2>. QED
    BY <1>1, <1>2, <1>3, <2>1, <2>2 DEF Abs!AnswerList
<1>5. CASE firstErr # NoError
  <2>1. PICK j \in Committed : err[j] = firstErr
    BY <1>5 DEF ErrorsAreFaithful
  <2>2. j \in Items /\ j \in 1 .. len /\ err[j] \in {Canceled, j}
    BY <1>1, <1>5, <2>1, AllDecided DEF Committed, Outcomes
  <2>3. absOutcome[j] = IF err[j] = Canceled THEN "canceled" ELSE "failed"
    BY <1>5, <2>1, <2>2 DEF absOutcome, outcomeOf
  <2>4. ret' = [err |-> err[j], list |-> <<>>]
    BY <1>5, <2>1 DEF WaitReturns
  <2>5. ret' = [err |-> IF absOutcome[j] = "failed" THEN j ELSE -1, list |-> <<>>]
    BY <2>2, <2>3, <2>4 DEF Canceled
  <2>. QED
    BY <1>1, <1>2, <1>3, <2>2, <2>3, <2>5 DEF Abs!AnswerError
<1>. QED
  BY <1>4, <1>5

\* Every step is a step of the abstract call, or not seen by it.
LEMMA StepRefines == IInv /\ [Next]_vars => [Abs!Next]_(Abs!vars)
<1> SUFFICES ASSUME IInv, [Next]_vars PROVE [Abs!Next]_(Abs!vars)
  OBVIOUS
<1> USE DEF IInv
<1>0. spec' = spec
  BY SpecKept
<1>1. CASE StartList \/ StartMissing
  BY <1>1, StartRefines DEF Abs!Next
<1>2. CASE Spawn
  <2>1. next \in Items /\ Goto(next, "unborn", "select")
    BY <1>2, SpawnMoves
  <2>2. Committed' = Committed
    BY <2>1, SpawnCommitted
  <2>. QED
    BY <1>0, <1>2, <2>2, Unseen DEF Spawn, locals, absPhase
<1>3. CASE LeaveLoop
  <2>1. Committed' = Committed
    BY <1>3 DEF LeaveLoop, Committed
  <2>. QED
    BY <1>0, <1>3, <2>1, Unseen DEF LeaveLoop, locals, absPhase
<1>4. CASE WaitReturns
  BY <1>4, AnswerRefines DEF Abs!Next
<1>5. ASSUME NEW i \in Items, Worker(i) PROVE [Abs!Next]_(Abs!vars)
  <2>1. CASE RecordCanceled(i) \/ Commit(i)
    BY <2>1, RecordRefines DEF Abs!Next, Items, Abs!Items
  <2>2. CASE ~(RecordCanceled(i) \/ Commit(i))
    BY <1>0, <1>5, <2>2, Unseen, WorkerMoves, CommittedMoves DEF absPhase
  <2>. QED
    BY <2>1, <2>2
<1>6. CASE Cancel
  <2>1. absOutcome' = absOutcome /\ absPhase' = absPhase
    BY <1>6 DEF Cancel, locals, absOutcome, absPhase, outcomeOf, Committed
  <2>2. absPhase # "answered"
    BY <1>6 DEF Cancel, absPhase
  <2>. QED
    BY <1>0, <1>6, <2>1, <2>2 DEF Cancel, Abs!Cancel, Abs!Next
<1>7. CASE UNCHANGED vars
  <2>1. absPhase' = absPhase /\ Committed' = Committed
    BY <1>7 DEF vars, absPhase, Committed
  <2>. QED
    BY <1>7, <2>1, Unseen DEF vars
<1>. QED
  BY <1>1, <1>2, <1>3, <1>4, <1>5, <1>6, <1>7 DEF Next, Main, Returned

\* Seen from the pipeline around it (foreach.go:18-50) a foreach step is one
\* parallel map: each element gets its outcome once, and the answer is all of
\* the values or the error of an element that failed.
THEOREM ForeachImplementsMap == Spec => ImplementsAbs
<1>1. Spec => []IInv
  BY Inductive
<1>2. IInv /\ [Next]_vars => [Abs!Next]_(Abs!vars)
  BY StepRefines
<1>. QED
  BY <1>1, <1>2, InitRefines, PTL DEF Spec, ImplementsAbs, Abs!Spec
=============================================================================
