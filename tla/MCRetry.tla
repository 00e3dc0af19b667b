------------------------------ MODULE MCRetry ------------------------------
(* Retry policies for TLC; a time unit is as long as the shortest backoff. *)
EXTENDS Retry

BuiltIn ==
  [maxRetries |-> 0, initialBackoff |-> 1, maxBackoff |-> 3, multiplier |-> 2,
   jitter |-> 0, maxElapsedTime |-> 6, methods |-> {"GET", "PUT"},
   networkErrors |-> TRUE, statusCodes |-> {503}, respectRetryAfter |-> TRUE]

AllUnset == [field \in DOMAIN BuiltIn |-> Unset]

\* A policy with defaults, one that waits longer, overflows when it grows and
\* jitters, one that overflows when it jitters, one that allows writes but not
\* network errors, one without retries, and some that do not compile.
Policies ==
  { [AllUnset EXCEPT !.maxRetries = 2, !.multiplier = 0],
    [AllUnset EXCEPT !.maxRetries = 2, !.initialBackoff = 2, !.maxBackoff = 4,
                     !.multiplier = 8, !.jitter = 5, !.maxElapsedTime = 12],
    [AllUnset EXCEPT !.maxRetries = 1, !.initialBackoff = 12, !.maxBackoff = 12,
                     !.jitter = 5, !.maxElapsedTime = 14, !.respectRetryAfter = FALSE],
    [AllUnset EXCEPT !.maxRetries = 1, !.methods = {"POST"}, !.networkErrors = FALSE,
                     !.respectRetryAfter = FALSE],
    [AllUnset EXCEPT !.jitter = 10],
    [AllUnset EXCEPT !.maxRetries = 1, !.initialBackoff = 4],
    [AllUnset EXCEPT !.jitter = 11],
    [AllUnset EXCEPT !.maxRetries = -1],
    [AllUnset EXCEPT !.maxRetries = 1, !.methods = {"GET", ""}],
    [AllUnset EXCEPT !.maxRetries = 1, !.statusCodes = {503, 600}] }

Header(k, v) == [kind |-> k, value |-> v]

\* Within the caps, above them, wrapping to a negative wait (-14) and to none, a
\* date to come and one that has passed.
Headers ==
  {Unset, Header("seconds", 1), Header("seconds", 4), Header("seconds", 9),
   Header("seconds", 16), Header("date", 4), Header("date", 0)}

\* On amd64.
LeastDuration == -16
=============================================================================
