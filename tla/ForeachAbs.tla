----------------------------- MODULE ForeachAbs -----------------------------
(***************************************************************************)
(* What a foreach step promises the pipeline around it, with no goroutine, *)
(* semaphore or mutex in sight: every element gets an outcome of its own,  *)
(* once, and the step answers either with all the values or with the error *)
(* of an element that failed.                                              *)
(***************************************************************************)
EXTENDS Integers, Sequences, FiniteSets

CONSTANTS N, Specs

Items == 1 .. N

\* The outcome of element i: nothing yet, no value, the value (for which i
\* stands), its error, or the cancellation.
Outcome == {"pending", "nil", "value", "failed", "canceled"}

VARIABLES spec, phase, len, outcome, ctxDone, answer

vars == <<spec, phase, len, outcome, ctxDone, answer>>

Unanswered == [err |-> 0, list |-> <<>>]

Init ==
  /\ spec \in Specs
  /\ phase = "start"
  /\ len = 0
  /\ outcome = [i \in Items |-> "pending"]
  /\ ctxDone = FALSE
  /\ answer = Unanswered

Begin ==
  /\ phase = "start"
  /\ phase' = "running"
  /\ len' \in 0 .. N
  /\ UNCHANGED <<spec, outcome, ctxDone, answer>>

Skip ==
  /\ phase = "start"
  /\ phase' = "answered"
  /\ answer' = [err |-> IF spec.skipMissing THEN 0 ELSE -2, list |-> <<>>]
  /\ UNCHANGED <<spec, len, outcome, ctxDone>>

Decide(i) ==
  /\ phase = "running"
  /\ i <= len
  /\ outcome[i] = "pending"
  /\ \E o \in Outcome \ {"pending"} :
       /\ o = "canceled" => ctxDone
       /\ outcome' = [outcome EXCEPT ![i] = o]
  /\ UNCHANGED <<spec, phase, len, ctxDone, answer>>

Valued == {i \in 1 .. len : outcome[i] = "value"}

\* What element i leaves in the list: itself, or nothing.
Entry(i) == IF outcome[i] = "value" THEN i ELSE 0

InOrder == SelectSeq([i \in 1 .. len |-> Entry(i)], LAMBDA v : v # 0)

Orders(S) == {s \in [1 .. Cardinality(S) -> S] : {s[k] : k \in DOMAIN s} = S}

AnswerList ==
  /\ phase = "running"
  /\ \A i \in 1 .. len : outcome[i] \in {"nil", "value"}
  /\ phase' = "answered"
  /\ \E s \in IF spec.preserveOrder THEN {InOrder} ELSE Orders(Valued) :
       answer' = [err |-> 0, list |-> s]
  /\ UNCHANGED <<spec, len, outcome, ctxDone>>

AnswerError ==
  /\ phase = "running"
  /\ \E i \in 1 .. len :
       /\ outcome[i] \in {"failed", "canceled"}
       /\ answer' = [err |-> IF outcome[i] = "failed" THEN i ELSE -1, list |-> <<>>]
  /\ phase' = "answered"
  /\ UNCHANGED <<spec, len, outcome, ctxDone>>

Cancel ==
  /\ ~ctxDone
  /\ phase # "answered"
  /\ ctxDone' = TRUE
  /\ UNCHANGED <<spec, phase, len, outcome, answer>>

Next ==
  \/ Begin \/ Skip \/ AnswerList \/ AnswerError \/ Cancel
  \/ \E i \in Items : Decide(i)

Spec == Init /\ [][Next]_vars
=============================================================================
