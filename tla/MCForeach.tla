----------------------------- MODULE MCForeach -----------------------------
(* Instances of Foreach for TLC. *)
EXTENDS Foreach

\* A call, the emit, and a step after it that is never reached.
CallEmit == <<"call", "emit", "call">>

\* Two at a time in list order; and as they come with a configured count of 0,
\* which has to be raised to 1, and onMissing left at its default.
MCSpecs ==
  { [given |-> TRUE, concurrency |-> 2, preserveOrder |-> TRUE,
     skipMissing |-> TRUE],
    [given |-> TRUE, concurrency |-> 0, preserveOrder |-> FALSE,
     skipMissing |-> FALSE] }
=============================================================================
