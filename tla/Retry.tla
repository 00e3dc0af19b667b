------------------------------- MODULE Retry -------------------------------
(***************************************************************************)
(* One request of an http step under a retry policy: the policy compiled   *)
(* at startup and the request loop of doResilientUpstreamRequest           *)
(* (templates/client.templ).  Time is counted in units; statuses, methods  *)
(* and policy names stand for themselves.  The upstream may answer, break  *)
(* off or keep silent, and the caller may cancel, at any moment.           *)
(*                                                                         *)
(* NamedUpstreamHTTPClient.Call is the loop's only caller.  It builds its  *)
(* requests over a string, so a body can always be read again.             *)
(***************************************************************************)
EXTENDS Integers

CONSTANTS
  Configs,     \* retry policies as configured; Unset where a field is not given
  Defaults,    \* builtinRetryConfig
  Names,       \* policy names an http step may use: "" and some others
  Registered,  \* the name the configured policy has
  Methods,     \* methods an http step may use
  Statuses,    \* response statuses of the upstream
  RetryAfters, \* Retry-After headers that parse, and Unset for any other
  Unset,       \* absent
  Second,      \* a second in units of time
  MaxDuration, \* largest time.Duration
  Overflown,   \* what the build makes of a float too large for a time.Duration
  Horizon      \* bound on the clock

\* Fields of a policy that are numbers or durations.
Numeric == {"maxRetries", "initialBackoff", "maxBackoff", "multiplier", "jitter",
            "maxElapsedTime"}

ASSUME RetryAssumption ==
  /\ Numeric \subseteq DOMAIN Defaults
  /\ \A f \in Numeric : Defaults[f] \in Int
  /\ \A c \in Configs, f \in Numeric : c[f] \in Int \cup {Unset}
  /\ MaxDuration \in Nat /\ Horizon \in Nat
  /\ Registered \in Names \ {""}
  /\ Unset \notin Int /\ Unset \notin BOOLEAN
  /\ Second \in Nat
  /\ Overflown \in {-MaxDuration - 1, MaxDuration}
  /\ RetryAfters \subseteq [kind : {"seconds", "date"}, value : Nat] \cup {Unset}

(***************************************************************************)
(* Policies.                                                               *)
(***************************************************************************)
orDefault(c, field) == IF c[field] = Unset THEN Defaults[field] ELSE c[field]

\* max_retries and jitter have no default: absent is zero.
orZero(v) == IF v = Unset THEN 0 ELSE v

\* A multiplier of zero is taken for an absent one.
mergeRetryConfig(c) ==
  [field \in DOMAIN Defaults |->
     IF field \in {"maxRetries", "jitter"} THEN orZero(c[field])
     ELSE IF field = "multiplier" /\ c[field] = 0 THEN Defaults[field]
     ELSE orDefault(c, field)]

\* jitter is in tenths here.
Compiles(p) ==
  /\ p.maxRetries >= 0
  /\ p.multiplier >= 1
  /\ p.jitter \in 0 .. 10
  /\ p.initialBackoff > 0
  /\ p.maxBackoff >= p.initialBackoff
  /\ p.maxElapsedTime > 0
  /\ "" \notin p.methods
  /\ p.statusCodes \subseteq 100 .. 599

\* ConfigureHTTPMiddleware compiles the built-in policy first.
ASSUME DefaultsCompile == Compiles(mergeRetryConfig(Defaults))

\* The policy a step's name stands for; NoPolicy if nothing is registered.
NoPolicy == [maxRetries |-> Unset]

retry(name, p) ==
  IF name = "" THEN mergeRetryConfig(Defaults)
  ELSE IF name = Registered THEN p ELSE NoPolicy

methodAllowed(p, m) == m \in p.methods

\* Checked when the tool is registered.
ValidateHTTPMiddleware(name, method, p) ==
  LET policy == retry(name, p)
  IN  /\ policy # NoPolicy
      /\ policy.maxRetries = 0 \/ methodAllowed(policy, method) \/ name = ""

\* time.Duration of a float: amd64 gives the least duration for one that is too
\* large, arm64 the largest.
FromFloat(x) ==
  IF x > MaxDuration THEN Overflown ELSE IF x < -MaxDuration - 1 THEN -MaxDuration - 1 ELSE x

\* An integer product wraps around.
Wrapped(x) == ((x + MaxDuration + 1) % (2 * (MaxDuration + 1))) - (MaxDuration + 1)

\* time.Duration(float64(delay) * multiplier)
Scale(p, d) == FromFloat(d * p.multiplier)

\* Mutant: overflow is not noticed.
GrownUnchecked(p, attempt) ==
  LET delay[i \in 1 .. attempt] ==
        IF i = 1 THEN p.initialBackoff
        ELSE LET next == Scale(p, delay[i - 1])
             IN  IF next >= p.maxBackoff THEN p.maxBackoff ELSE next
  IN  delay[attempt]

Grown(p, attempt) ==
  LET delay[i \in 1 .. attempt] ==
        IF i = 1 THEN p.initialBackoff
        ELSE LET next == Scale(p, delay[i - 1])
             IN  IF next >= p.maxBackoff \/ next < delay[i - 1]
                   THEN p.maxBackoff ELSE next
  IN  delay[attempt]

Cap(p, d) == IF d > p.maxBackoff THEN p.maxBackoff ELSE d

\* The conversion cuts off what is less than one unit.
Tenths(n) == IF n >= 0 THEN n \div 10 ELSE -((-n) \div 10)

Jittered(p, d) == {FromFloat(Tenths(d * f)) : f \in 10 - p.jitter .. 10 + p.jitter}

\* A number of seconds is multiplied as an integer; a date that has passed asks
\* for no wait, one too far away for the longest.
parseRetryAfter(header, time) ==
  IF header.kind = "seconds" THEN Wrapped(header.value * Second)
  ELSE IF header.value <= time THEN 0
  ELSE IF header.value - time > MaxDuration THEN MaxDuration ELSE header.value - time

\* Mutant: what the upstream asks for is not capped.
AskedUncapped(p, attempt, after) ==
  IF p.respectRetryAfter /\ after # Unset THEN Jittered(p, after)
  ELSE {Cap(p, d) : d \in Jittered(p, Cap(p, Grown(p, attempt)))}

\* after is what the response's Retry-After stands for, Unset without one.
backoff(p, attempt, after) ==
  LET delay == IF p.respectRetryAfter /\ after # Unset THEN after ELSE Grown(p, attempt)
  IN  {Cap(p, d) : d \in Jittered(p, Cap(p, delay))}

(***************************************************************************)
(* A call.                                                                 *)
(***************************************************************************)
VARIABLES
  policy,    \* the configured policy, merged and compiled
  name,      \* policy name of the step
  method,    \* method of the step
  pc,        \* where the call is
  limited,   \* the policy's loop runs, under retryCtx
  now,       \* the clock
  deadline,  \* of retryCtx
  retries,   \* loop counter
  sent,      \* requests that went out
  body,      \* what is left of the current request's body
  got,       \* body the upstream received with each request
  resp, err, \* outcome of the current attempt
  delay,     \* time left to wait
  ctxDone,   \* the caller has cancelled
  ret        \* what the call returned

attempt == <<resp, err>>
step == <<policy, name, method>>
vars == <<policy, name, method, pc, limited, now, deadline, retries, sent,
          body, got, resp, err, delay, ctxDone, ret>>

NoResp == [attempt |-> 0, status |-> Unset, after |-> Unset]
NoErr == "none"
Pending == [resp |-> NoResp, err |-> "pending"]

Init ==
  /\ \E c \in Configs : policy = mergeRetryConfig(c) /\ Compiles(policy)
  /\ name \in Names
  /\ method \in Methods
  /\ ValidateHTTPMiddleware(name, method, policy)
  /\ pc = "start"
  /\ limited = FALSE
  /\ now = 0
  /\ deadline = 0
  /\ retries = 0
  /\ sent = 0
  /\ body = "whole"
  /\ got = {}
  /\ resp = NoResp
  /\ err = NoErr
  /\ delay = 0
  /\ ctxDone = FALSE
  /\ ret = Pending

P == retry(name, policy)

Expired == ctxDone \/ (limited /\ now >= deadline)

Return(r, e) ==
  /\ pc' = "done"
  /\ ret' = [resp |-> r, err |-> e]

\* Mutant: the deadline lies in the past.
StartBackwards ==
  /\ pc = "start"
  /\ limited' = (P.maxRetries # 0)
  /\ deadline' = now - P.maxElapsedTime
  /\ pc' = "send"
  /\ UNCHANGED <<step, now, retries, sent, body, got, attempt, delay, ctxDone, ret>>

\* doResilientUpstreamRequest looks the policy up again.  Without retries, or
\* for a method the unnamed policy does not allow, the request is sent once and
\* no budget applies.
Start ==
  /\ pc = "start"
  /\ IF P = NoPolicy \/ (P.maxRetries # 0 /\ ~methodAllowed(P, method) /\ name # "")
       THEN Return(NoResp, "refused") /\ UNCHANGED <<limited, deadline>>
       ELSE /\ limited' = (P.maxRetries # 0 /\ methodAllowed(P, method))
            /\ deadline' = IF limited' THEN now + P.maxElapsedTime ELSE deadline
            /\ pc' = "send"
            /\ UNCHANGED ret
  /\ UNCHANGED <<step, now, retries, sent, body, got, attempt, delay, ctxDone>>

\* A request of an expired context does not leave.
Send ==
  /\ pc = "send"
  /\ ~Expired
  /\ sent' = sent + 1
  /\ got' = got \cup {body}
  /\ body' = "spent"
  /\ pc' = "inflight"
  /\ UNCHANGED <<step, limited, now, deadline, retries, attempt, delay, ctxDone, ret>>

\* What a response with that status gives the loop; its body has been read.
Outcome(r, e) ==
  /\ resp' = r
  /\ err' = e
  /\ pc' = "decide"
  /\ UNCHANGED <<step, limited, now, deadline, retries, sent, body, got, delay,
                 ctxDone, ret>>

Respond ==
  /\ pc = "inflight"
  /\ \E s \in Statuses, a \in RetryAfters :
       Outcome([attempt |-> sent, status |-> s, after |-> a], NoErr)

\* Mutant: a response that breaks off leaves the earlier one in place.
KeepResponse == pc = "inflight" /\ Outcome(resp, "network")

\* No connection, a request timeout, or a response that breaks off.
NetworkError == pc = "inflight" /\ Outcome(NoResp, "network")

\* Mutant: the request is bound to the caller's context, not to the budget.
CallerError == pc \in {"send", "inflight"} /\ ctxDone /\ Outcome(NoResp, "ctx")

CtxError == pc \in {"send", "inflight"} /\ Expired /\ Outcome(NoResp, "ctx")

retryable ==
  IF err # NoErr THEN P.networkErrors ELSE resp.status \in P.statusCodes

\* Mutant: one retry too many.
GiveUpLate == ~limited \/ ~retryable \/ retries > P.maxRetries \/ Expired

GiveUp == ~limited \/ ~retryable \/ retries >= P.maxRetries \/ Expired

After ==
  IF err = NoErr /\ resp.after # Unset THEN parseRetryAfter(resp.after, now) ELSE Unset

ReturnOutcome ==
  /\ pc = "decide"
  /\ GiveUp \/ \E d \in backoff(P, retries + 1, After) : deadline - now <= d
  /\ Return(resp, err)
  /\ UNCHANGED <<step, limited, now, deadline, retries, sent, body, got, attempt,
                 delay, ctxDone>>

\* Mutant: the request is sent again as it is.
AgainUncloned ==
  /\ pc = "decide"
  /\ ~GiveUp
  /\ \E d \in backoff(P, retries + 1, After) : deadline - now > d /\ delay' = d
  /\ pc' = "wait"
  /\ UNCHANGED <<step, limited, now, deadline, retries, sent, body, got, attempt, ctxDone, ret>>

\* cloneRequestForRetry reads the body anew; the response is discarded.
Again ==
  /\ pc = "decide"
  /\ ~GiveUp
  /\ \E d \in backoff(P, retries + 1, After) : deadline - now > d /\ delay' = d
  /\ body' = "whole"
  /\ pc' = "wait"
  /\ UNCHANGED <<step, limited, now, deadline, retries, sent, got, attempt, ctxDone, ret>>

\* A timer set for a negative time goes off at once.
WaitOver ==
  /\ pc = "wait"
  /\ delay <= 0
  /\ retries' = retries + 1
  /\ pc' = "send"
  /\ UNCHANGED <<step, limited, now, deadline, sent, body, got, attempt, delay,
                 ctxDone, ret>>

WaitCanceled ==
  /\ pc = "wait"
  /\ Expired
  /\ Return(NoResp, "ctx")
  /\ UNCHANGED <<step, limited, now, deadline, retries, sent, body, got, attempt,
                 delay, ctxDone>>

Cancel ==
  /\ pc # "done"
  /\ ~ctxDone
  /\ ctxDone' = TRUE
  /\ UNCHANGED <<step, pc, limited, now, deadline, retries, sent, body, got,
                 attempt, delay, ret>>

\* Timers go off on time: the deadline and the wait are not overrun.
Tick ==
  /\ pc \notin {"start", "done"}
  /\ now < Horizon
  /\ ~(pc \in {"inflight", "wait"} /\ Expired)
  /\ ~(pc = "wait" /\ delay <= 0)
  /\ now' = now + 1
  /\ delay' = IF pc = "wait" THEN delay - 1 ELSE delay
  /\ UNCHANGED <<step, pc, limited, deadline, retries, sent, body, got, attempt,
                 ctxDone, ret>>

Returned == pc = "done" /\ UNCHANGED vars

Local ==
  \/ Start \/ Send \/ CtxError \/ ReturnOutcome \/ Again
  \/ WaitOver \/ WaitCanceled

Next == Local \/ Respond \/ NetworkError \/ Cancel \/ Tick \/ Returned

\* The goroutine is scheduled and the clock advances; the upstream owes nothing.
Fairness == WF_vars(Local) /\ WF_vars(Tick)

Spec == Init /\ [][Next]_vars

FairSpec == Spec /\ Fairness

-----------------------------------------------------------------------------
TypeOK ==
  /\ Compiles(policy)
  /\ name \in Names /\ method \in Methods
  /\ pc \in {"start", "send", "inflight", "decide", "wait", "done"}
  /\ limited \in BOOLEAN /\ ctxDone \in BOOLEAN
  /\ now \in 0 .. Horizon
  /\ deadline \in Nat
  /\ retries \in Nat /\ sent \in Nat
  /\ body \in {"whole", "spent"}
  /\ err \in {NoErr, "network", "ctx"}
  /\ resp.attempt \in 0 .. sent
  /\ ret.err \in {NoErr, "network", "ctx", "refused", "pending"}

\* A request is sent again only if the policy's allowlist, which keeps
\* write-oriented requests from being repeated (types.go:51-52), has its method,
\* and no more often than max_retries says, whatever fails in which order and
\* whichever policy is named.
RepeatsAreAllowed ==
  sent > 1 => method \in P.methods /\ sent <= P.maxRetries + 1

\* client.templ:450-452: what the call answers is the response to the last
\* request sent, never one left over from an earlier attempt, and it answers
\* with a response exactly when it reports no error.
AnswerIsLatest ==
  pc = "done" =>
    /\ (ret.err = NoErr) <=> (ret.resp # NoResp)
    /\ ret.resp # NoResp => ret.resp.attempt = sent

\* Every request carries the whole body, though sending one uses it up.
WholeBodyEveryTime == got \subseteq {"whole"}

\* No attempt lives on what an earlier one left: neither the request it sends
\* nor the answer it gives.
AttemptsStandAlone == AnswerIsLatest /\ WholeBodyEveryTime

\* More than a time.Duration holds: the seconds a Retry-After asks for, or
\* max_backoff once jitter has stretched it.
TooLong ==
  \/ /\ err = NoErr /\ P.respectRetryAfter
     /\ resp.after # Unset /\ resp.after.kind = "seconds"
     /\ resp.after.value * Second > MaxDuration
  \/ P.maxBackoff * (10 + P.jitter) > 10 * MaxDuration

\* A wait is begun only if it ends before the budget does, and it is never
\* longer than max_backoff, whatever the Retry-After, the jitter and the
\* overflow of the multiplication (client.templ:506-532).  It is negative, and
\* the request repeated at once, only after a Retry-After of more seconds than
\* a time.Duration holds, or under a max_backoff that jitter stretches past one.
WaitFits ==
  pc = "wait" =>
    /\ delay <= P.maxBackoff /\ (delay < 0 => TooLong)
    /\ limited /\ now + delay < deadline

\* client.templ:461-469: a call that may be repeated is not given up early.  If
\* it ends with an outcome the policy retries while its caller is still there,
\* every retry has been made, or what is left of the budget is no more than
\* max_backoff: neither a Retry-After nor jitter makes it give up sooner.
RetriesAreMade ==
  pc = "done" /\ limited /\ ~ctxDone /\ retryable =>
    sent = P.maxRetries + 1 \/ deadline - now <= P.maxBackoff

\* Under a budget the call ends though the upstream may stay silent for ever.
BudgetedCallsEnd == limited ~> pc = "done"
=============================================================================
