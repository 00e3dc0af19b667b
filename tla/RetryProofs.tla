---------------------------- MODULE RetryProofs ----------------------------
(***************************************************************************)
(* Safety of a request under a retry policy, for every policy that         *)
(* compiles, every upstream and every clock.                               *)
(***************************************************************************)
EXTENDS Retry, TLAPS

-----------------------------------------------------------------------------
(* Backoff.  Grown is a recursive function over 1 .. n.  That there is such *)
(* a function, and that it stays between 1 and max_backoff, is shown for    *)
(* one n after the other, as the loop counter advances.                     *)

Typed(p) == \A f \in Numeric : p[f] \in Int

\* seq is the sequence of delays backoff computes up to attempt n.
Grows(p, seq, n) ==
  seq = [i \in 1 .. n |->
           IF i = 1 THEN p.initialBackoff
           ELSE LET next == Scale(p, seq[i - 1])
                IN  IF next >= p.maxBackoff \/ next < seq[i - 1]
                      THEN p.maxBackoff ELSE next]

WellGrown(p, n) ==
  /\ \E seq : Grows(p, seq, n)
  /\ \A seq : Grows(p, seq, n) => seq[n] \in 1 .. p.maxBackoff

-----------------------------------------------------------------------------
(* The inductive invariant.                                                 *)

PolicyInv ==
  /\ Typed(policy) /\ Compiles(policy)
  /\ Typed(P) /\ Compiles(P)

\* The loop runs only for what the policy allows, and counts what it sends.
LoopInv ==
  /\ limited => method \in P.methods /\ retries <= P.maxRetries
  /\ ~limited => retries = 0
  /\ pc = "start" => ~limited /\ sent = 0
  /\ pc = "send" => sent = retries
  /\ pc \in {"inflight", "wait"} => sent = retries + 1
  /\ pc = "decide" => sent = retries + 1 \/ (sent = retries /\ Expired)
  /\ sent <= retries + 1
  /\ pc = "wait" => retries < P.maxRetries

\* A request that has not left has its whole body.
BodyInv ==
  /\ WholeBodyEveryTime
  /\ pc \in {"start", "send", "wait"} => body = "whole"

\* Once an attempt is over its outcome is the outcome of the last request.
OutcomeInv ==
  /\ resp \in [attempt : Nat, status : Statuses \cup {Unset}, after : RetryAfters \cup {Unset}]
  /\ pc = "decide" =>
       /\ (err = NoErr) <=> (resp # NoResp)
       /\ resp # NoResp => resp.attempt = sent
  /\ AnswerIsLatest

IInv ==
  /\ TypeOK
  /\ PolicyInv
  /\ WellGrown(P, retries + 1)
  /\ LoopInv
  /\ BodyInv
  /\ OutcomeInv
  /\ delay \in Int
  /\ WaitFits
  /\ RetriesAreMade

-----------------------------------------------------------------------------
\* Merging leaves numbers, whatever is left out of a configuration.
LEMMA MergedTyped ==
  ASSUME NEW c, \A f \in Numeric : c[f] \in Int \cup {Unset}
  PROVE  Typed(mergeRetryConfig(c))
<1> SUFFICES ASSUME NEW f \in Numeric PROVE mergeRetryConfig(c)[f] \in Int
  BY DEF Typed
<1>1. f \in DOMAIN Defaults /\ Defaults[f] \in Int
  BY RetryAssumption
<1>2. orZero(c[f]) \in Int /\ orDefault(c, f) \in Int
  BY <1>1 DEF orZero, orDefault
<1>. QED
  BY <1>1, <1>2 DEF mergeRetryConfig

\* The numbers of a policy that compiles.
LEMMA CompiledBounds ==
  ASSUME NEW p, Typed(p), Compiles(p)
  PROVE  /\ p.maxRetries \in Nat
         /\ p.multiplier \in Int /\ p.multiplier >= 1
         /\ p.jitter \in 0 .. 10
         /\ p.initialBackoff \in Int /\ p.initialBackoff >= 1
         /\ p.maxBackoff \in Int /\ p.maxBackoff >= p.initialBackoff
         /\ p.maxElapsedTime \in Int /\ p.maxElapsedTime >= 1
<1>1. /\ p.maxRetries \in Int /\ p.multiplier \in Int /\ p.initialBackoff \in Int
      /\ p.maxBackoff \in Int /\ p.maxElapsedTime \in Int
  BY DEF Typed, Numeric
<1>2. /\ p.maxRetries >= 0 /\ p.multiplier >= 1 /\ p.jitter \in 0 .. 10 /\ p.initialBackoff > 0
      /\ p.maxBackoff >= p.initialBackoff /\ p.maxElapsedTime > 0
  BY Zenon DEF Compiles
<1>. QED
  BY <1>1, <1>2

\* A float becomes a duration, the same if it is one already.
LEMMA FloatConverted ==
  ASSUME NEW x \in Int
  PROVE  /\ FromFloat(x) \in Int
         /\ FromFloat(x) < 0 => x < 0 \/ x > MaxDuration
<1>1. MaxDuration \in Nat /\ Overflown \in {-MaxDuration - 1, MaxDuration}
  BY Zenon, RetryAssumption
<1>. QED
  BY <1>1 DEF FromFloat

\* A product wraps around only if it is too large.
LEMMA ProductWrapped ==
  ASSUME NEW x \in Nat
  PROVE  /\ Wrapped(x) \in Int
         /\ Wrapped(x) < 0 => x > MaxDuration
<1>. DEFINE half == MaxDuration + 1
<1>1. half \in Nat /\ half > 0 /\ MaxDuration = half - 1
  <2>1. MaxDuration \in Nat
    BY Zenon, RetryAssumption
  <2>. QED
    BY <2>1
<1>2. Wrapped(x) = ((x + half) % (2 * half)) - half
  BY <1>1 DEF Wrapped
<1>. HIDE DEF half
<1>3. (x + half) % (2 * half) \in Int
  BY <1>1
<1>4. x < half => (x + half) % (2 * half) = x + half
  BY <1>1
<1>. QED
  BY <1>1, <1>2, <1>3, <1>4

\* What a Retry-After asks for is negative only if it asks for more seconds
\* than a duration holds.
LEMMA AskedFor ==
  ASSUME NEW header \in RetryAfters, header # Unset, NEW time \in Int
  PROVE  /\ parseRetryAfter(header, time) \in Int
         /\ parseRetryAfter(header, time) < 0 =>
              header.kind = "seconds" /\ header.value * Second > MaxDuration
<1>1. /\ Second \in Nat /\ MaxDuration \in Nat
      /\ RetryAfters \subseteq [kind : {"seconds", "date"}, value : Nat] \cup {Unset}
  BY Zenon, RetryAssumption
<1>2. header.value \in Nat
  BY <1>1
<1>3. header.value * Second \in Nat
  BY <1>1, <1>2
<1>4. CASE header.kind = "seconds"
  BY <1>3, <1>4, ProductWrapped DEF parseRetryAfter
<1>5. CASE header.kind # "seconds"
  BY <1>1, <1>2, <1>5 DEF parseRetryAfter
<1>. QED
  BY <1>4, <1>5

\* One multiplication, wrapped or not, leaves a delay that is positive and within
\* max_backoff: growth stops at the cap, and a wrapped product is noticed.
LEMMA GrowthStep ==
  ASSUME NEW p, Typed(p), Compiles(p), NEW d \in 1 .. p.maxBackoff
  PROVE  (LET next == Scale(p, d)
          IN  IF next >= p.maxBackoff \/ next < d THEN p.maxBackoff ELSE next)
            \in 1 .. p.maxBackoff
<1>1. p.multiplier \in Int /\ p.maxBackoff \in Int
  BY CompiledBounds
<1>2. d * p.multiplier \in Int
  BY <1>1
<1>3. Scale(p, d) \in Int
  BY <1>2, FloatConverted DEF Scale
<1>. QED
  BY <1>1, <1>3

\* What Grown returns is the last element of such a sequence.
LEMMA GrownIsLast ==
  ASSUME NEW p, NEW n \in Nat, WellGrown(p, n)
  PROVE  Grown(p, n) \in 1 .. p.maxBackoff
<1>. DEFINE seq == CHOOSE seq : Grows(p, seq, n)
<1>1. Grows(p, seq, n)
  BY DEF WellGrown
<1>2. Grown(p, n) = seq[n]
  BY DEF Grown, Grows
<1>. HIDE DEF seq
<1>. QED
  BY <1>1, <1>2 DEF WellGrown

\* The first wait is initial_backoff.
LEMMA GrownFirst == ASSUME NEW p, Typed(p), Compiles(p) PROVE WellGrown(p, 1)
<1>1. p.initialBackoff \in 1 .. p.maxBackoff
  BY CompiledBounds
<1>2. Grows(p, [i \in 1 .. 1 |-> p.initialBackoff], 1)
  BY DEF Grows
<1>3. \A seq : Grows(p, seq, 1) => seq[1] \in 1 .. p.maxBackoff
  BY <1>1 DEF Grows
<1>. QED
  BY <1>2, <1>3 DEF WellGrown

\* Each wait follows from the one before it.
LEMMA GrownNext ==
  ASSUME NEW p, Typed(p), Compiles(p), NEW n \in Nat \ {0}, WellGrown(p, n)
  PROVE  WellGrown(p, n + 1)
<1>. DEFINE grow(d) == LET next == Scale(p, d)
                       IN  IF next >= p.maxBackoff \/ next < d THEN p.maxBackoff ELSE next
<1>1. \A d \in 1 .. p.maxBackoff : grow(d) \in 1 .. p.maxBackoff
  BY GrowthStep
<1>2. \A seq, m : Grows(p, seq, m)
        <=> seq = [i \in 1 .. m |-> IF i = 1 THEN p.initialBackoff ELSE grow(seq[i - 1])]
  BY DEF Grows
<1>. HIDE DEF grow
<1>3. PICK short : Grows(p, short, n)
  BY DEF WellGrown
<1>4. \E seq : Grows(p, seq, n + 1)
  <2>. DEFINE long == [i \in 1 .. n + 1 |-> IF i = n + 1 THEN grow(short[n]) ELSE short[i]]
  <2>1. \A i \in 1 .. n + 1 : long[i] = IF i = 1 THEN p.initialBackoff ELSE grow(long[i - 1])
    <3>1. \A i \in 1 .. n : short[i] = IF i = 1 THEN p.initialBackoff ELSE grow(short[i - 1])
      BY <1>2, <1>3
    <3>. QED
      BY <3>1
  <2>2. long = [i \in 1 .. n + 1 |-> IF i = 1 THEN p.initialBackoff ELSE grow(long[i - 1])]
    BY <2>1
  <2>. HIDE DEF long
  <2>. QED
    BY <1>2, <2>2
<1>5. ASSUME NEW seq, Grows(p, seq, n + 1) PROVE seq[n + 1] \in 1 .. p.maxBackoff
  <2>. DEFINE front == [i \in 1 .. n |-> seq[i]]
  <2>1. seq = [i \in 1 .. n + 1 |-> IF i = 1 THEN p.initialBackoff ELSE grow(seq[i - 1])]
    BY <1>2, <1>5
  <2>2. \A i \in 1 .. n + 1 : seq[i] = IF i = 1 THEN p.initialBackoff ELSE grow(seq[i - 1])
    BY <2>1
  <2>3. front = [i \in 1 .. n |-> IF i = 1 THEN p.initialBackoff ELSE grow(front[i - 1])]
    BY <2>2
  <2>4. front[n] \in 1 .. p.maxBackoff
    BY <1>2, <2>3 DEF WellGrown
  <2>5. seq[n + 1] = grow(seq[n])
    BY <2>2
  <2>. QED
    BY <1>1, <2>4, <2>5
<1>. QED
  BY <1>4, <1>5 DEF WellGrown

\* A wait is never longer than max_backoff, whatever the upstream asks for and
\* the jitter makes of it, and negative only if one of the two overflows.
LEMMA BackoffBounds ==
  ASSUME NEW p, Typed(p), Compiles(p), NEW n \in Nat, WellGrown(p, n),
         NEW after \in Int \cup {Unset}, NEW d \in backoff(p, n, after)
  PROVE  /\ d \in Int /\ d <= p.maxBackoff
         /\ d < 0 => \/ p.respectRetryAfter /\ after # Unset /\ after < 0
                     \/ p.maxBackoff * (10 + p.jitter) > 10 * MaxDuration
<1>. DEFINE asked == IF p.respectRetryAfter /\ after # Unset THEN after ELSE Grown(p, n)
            c == Cap(p, asked)
<1>1. p.maxBackoff \in Nat /\ p.jitter \in 0 .. 10
  BY CompiledBounds
<1>2. /\ asked \in Int
      /\ asked < 0 => p.respectRetryAfter /\ after # Unset /\ after < 0
  <2>1. Grown(p, n) \in 1 .. p.maxBackoff
    BY GrownIsLast
  <2>. QED
    BY <1>1, <2>1
<1>3. PICK x \in Jittered(p, c) : d = Cap(p, x)
  BY DEF backoff
<1>. HIDE DEF asked
<1>4. c \in Int /\ c <= p.maxBackoff /\ (c < 0 => asked < 0)
  BY <1>1, <1>2 DEF Cap
<1>. HIDE DEF c
<1>5. PICK f \in 10 - p.jitter .. 10 + p.jitter : x = FromFloat(Tenths(c * f))
  BY <1>3 DEF Jittered
<1>6. f \in 0 .. 10 + p.jitter /\ c * f \in Int
  BY <1>1, <1>4, <1>5
<1>7. Tenths(c * f) \in Int
  BY <1>6 DEF Tenths
<1>8. x \in Int /\ (x < 0 => Tenths(c * f) < 0 \/ Tenths(c * f) > MaxDuration)
  BY <1>5, <1>7, FloatConverted
<1>9. d \in Int /\ d <= p.maxBackoff /\ (d < 0 => x < 0)
  BY <1>1, <1>3, <1>8 DEF Cap
<1>10. ASSUME c >= 0
       PROVE  c * f \in Nat /\ c * f <= p.maxBackoff * (10 + p.jitter)
  <2>1. c * f >= 0
    BY <1>4, <1>6, <1>10
  <2>2. c * f <= c * (10 + p.jitter)
    BY <1>1, <1>4, <1>6, <1>10
  <2>3. c * (10 + p.jitter) <= p.maxBackoff * (10 + p.jitter)
    BY <1>1, <1>4, <1>10
  <2>4. p.maxBackoff * (10 + p.jitter) \in Int /\ c * (10 + p.jitter) \in Int
    BY <1>1, <1>4
  <2>. QED
    BY <1>6, <2>1, <2>2, <2>3, <2>4
<1>11. ASSUME c >= 0, x < 0
       PROVE  p.maxBackoff * (10 + p.jitter) > 10 * MaxDuration
  <2>1. MaxDuration \in Nat
    BY Zenon, RetryAssumption
  <2>2. Tenths(c * f) = (c * f) \div 10 /\ c * f \in Nat
    BY <1>10, <1>11 DEF Tenths
  <2>3. (c * f) \div 10 > MaxDuration
    BY <1>8, <1>11, <2>1, <2>2
  <2>4. c * f > 10 * MaxDuration
    BY <2>1, <2>2, <2>3
  <2>5. p.maxBackoff * (10 + p.jitter) \in Int
    BY <1>1
  <2>. QED
    BY <1>6, <1>10, <1>11, <2>1, <2>4, <2>5
<1>. QED
  BY <1>2, <1>4, <1>8, <1>9, <1>11

-----------------------------------------------------------------------------
\* A call starts with nothing sent, under a policy that compiled.
LEMMA InitEstablishes == Init => IInv
<1> SUFFICES ASSUME Init PROVE IInv
  OBVIOUS
<1>1. PolicyInv
  <2>1. PICK c \in Configs : policy = mergeRetryConfig(c) /\ Compiles(policy)
    BY DEF Init
  <2>2. Typed(policy)
    BY <2>1, MergedTyped, RetryAssumption
  <2>3. Typed(mergeRetryConfig(Defaults)) /\ Compiles(mergeRetryConfig(Defaults))
    BY MergedTyped, RetryAssumption, DefaultsCompile
  <2>4. P # NoPolicy
    BY DEF Init, ValidateHTTPMiddleware, P
  <2>. QED
    BY <2>1, <2>2, <2>3, <2>4 DEF PolicyInv, P, retry
<1>2. WellGrown(P, retries + 1)
  <2>1. retries + 1 = 1
    BY DEF Init
  <2>. QED
    BY <1>1, <2>1, GrownFirst DEF PolicyInv
<1>3. Horizon \in Nat
  BY Zenon, RetryAssumption
<1>4. TypeOK
  <2>1. Compiles(policy)
    BY <1>1 DEF PolicyInv
  <2>2. resp.attempt = 0 /\ ret.err = "pending" /\ err = NoErr
    BY DEF Init, NoResp, Pending
  <2>3. /\ name \in Names /\ method \in Methods /\ pc = "start"
        /\ limited = FALSE /\ ctxDone = FALSE /\ body = "whole"
        /\ now = 0 /\ deadline = 0 /\ retries = 0 /\ sent = 0
    BY DEF Init
  <2>4. now \in 0 .. Horizon /\ deadline \in Nat /\ retries \in Nat /\ sent \in Nat
        /\ resp.attempt \in 0 .. sent
    BY <1>3, <2>2, <2>3
  <2>5. limited \in BOOLEAN /\ ctxDone \in BOOLEAN
    BY <2>3
  <2>6. ret.err \in {NoErr, "network", "ctx", "refused", "pending"} /\ err \in {NoErr, "network", "ctx"}
    BY <2>2
  <2>. QED
    BY ONLY <2>1, <2>3, <2>4, <2>5, <2>6 DEF TypeOK
<1>5. LoopInv /\ BodyInv /\ OutcomeInv /\ delay \in Int /\ WaitFits /\ RetriesAreMade
  BY DEF Init, LoopInv, BodyInv, WholeBodyEveryTime, OutcomeInv, AnswerIsLatest, WaitFits, RetriesAreMade,
         NoResp
<1>. QED
  BY <1>1, <1>2, <1>4, <1>5 DEF IInv

\* A call keeps its policy, name and method.
LEMMA PolicyKept ==
  ASSUME PolicyInv, UNCHANGED step
  PROVE  PolicyInv' /\ P' = P
<1>1. policy' = policy /\ name' = name
  BY DEF step
<1>2. P' = P
  BY <1>1 DEF P
<1>. QED
  BY <1>1, <1>2 DEF PolicyInv

\* The counter advances when a wait is over, and the growth of the waits with it.
LEMMA GrowthKept ==
  ASSUME IInv, UNCHANGED step, retries' \in {retries, retries + 1}
  PROVE  WellGrown(P, retries + 1)'
<1>1. P' = P /\ Typed(P) /\ Compiles(P) /\ retries \in Nat
  BY PolicyKept DEF IInv, PolicyInv, TypeOK
<1>2. WellGrown(P, retries + 1) /\ WellGrown(P, retries + 1 + 1)
  BY <1>1, GrownNext DEF IInv
<1>. QED
  BY <1>1, <1>2

\* What every step of a call leaves as it was.
LEMMA Frame ==
  ASSUME IInv, UNCHANGED step, retries' \in {retries, retries + 1}
  PROVE  /\ P' = P /\ PolicyInv' /\ WellGrown(P, retries + 1)'
         /\ Compiles(policy)' /\ name' \in Names /\ method' \in Methods /\ method' = method
         /\ retries' \in Nat
<1>1. P' = P /\ PolicyInv'
  BY PolicyKept DEF IInv
<1>2. WellGrown(P, retries + 1)'
  BY GrowthKept
<1>3. Compiles(policy)'
  BY <1>1 DEF PolicyInv
<1>4. name' \in Names /\ method' \in Methods /\ method' = method /\ retries' \in Nat
  BY DEF IInv, TypeOK, step
<1>. QED
  BY <1>1, <1>2, <1>3, <1>4

\* The loop is entered for an allowed method only, with its budget ahead.
LEMMA StartKeeps == ASSUME IInv, Start PROVE IInv'
<1>1. /\ P' = P /\ PolicyInv' /\ WellGrown(P, retries + 1)'
      /\ Compiles(policy)' /\ name' \in Names /\ method' \in Methods /\ method' = method
      /\ retries' \in Nat
  BY Frame DEF Start
<1>2. P.maxElapsedTime \in Nat /\ P.maxRetries \in Nat
  <2>1. Typed(P) /\ Compiles(P)
    BY DEF IInv, PolicyInv
  <2>. QED
    BY <2>1, CompiledBounds
<1>3. /\ UNCHANGED <<now, retries, sent, body, got, resp, err, delay, ctxDone>>
      /\ pc = "start" /\ limited = FALSE /\ sent = 0 /\ retries = 0 /\ body = "whole"
  BY DEF Start, attempt, IInv, LoopInv, TypeOK, BodyInv
<1>4. \/ /\ pc' = "send" /\ ret' = ret
         /\ limited' = (P.maxRetries # 0 /\ method \in P.methods)
         /\ deadline' = IF limited' THEN now + P.maxElapsedTime ELSE deadline
      \/ /\ pc' = "done" /\ ret' = [resp |-> NoResp, err |-> "refused"]
         /\ UNCHANGED <<limited, deadline>>
  BY DEF Start, Return, methodAllowed
<1>5. limited' \in BOOLEAN /\ (limited' => method \in P.methods)
  BY <1>3, <1>4
<1>6. now \in Nat /\ deadline \in Nat
  BY DEF IInv, TypeOK
<1>7. deadline' \in Nat
  BY <1>2, <1>4, <1>6
<1>8. TypeOK'
  BY <1>1, <1>3, <1>4, <1>5, <1>7 DEF IInv, TypeOK
<1>9. LoopInv'
  BY <1>1, <1>2, <1>3, <1>4, <1>5 DEF LoopInv
<1>10. BodyInv'
  BY <1>3, <1>4 DEF IInv, BodyInv, WholeBodyEveryTime
<1>11. OutcomeInv' /\ delay' \in Int /\ WaitFits' /\ RetriesAreMade'
  BY <1>3, <1>4 DEF IInv, OutcomeInv, AnswerIsLatest, WaitFits, RetriesAreMade, NoErr
<1>. QED
  BY <1>1, <1>8, <1>9, <1>10, <1>11 DEF IInv

\* A request goes out with the body it was made with.
LEMMA SendKeeps == ASSUME IInv, Send PROVE IInv'
<1> USE DEF IInv, Send
<1>1. /\ P' = P /\ PolicyInv' /\ WellGrown(P, retries + 1)'
      /\ Compiles(policy)' /\ name' \in Names /\ method' \in Methods /\ method' = method
      /\ retries' \in Nat
  BY Frame
<1>2. TypeOK'
  BY <1>1 DEF TypeOK, attempt
<1>3. LoopInv'
  BY <1>1 DEF LoopInv, TypeOK
<1>4. BodyInv' /\ OutcomeInv' /\ delay' \in Int /\ WaitFits' /\ RetriesAreMade'
  BY DEF BodyInv, WholeBodyEveryTime, OutcomeInv, AnswerIsLatest, WaitFits, RetriesAreMade, attempt
<1>. QED
  BY <1>1, <1>2, <1>3, <1>4

\* An outcome is a response to the request in flight, or none and an error.
LEMMA OutcomeKeeps ==
  ASSUME IInv, NEW r, NEW e, pc \in {"send", "inflight"}, Outcome(r, e),
         \/ /\ pc = "inflight" /\ e = NoErr
            /\ \E s \in Statuses, a \in RetryAfters :
                 r = [attempt |-> sent, status |-> s, after |-> a]
         \/ r = NoResp /\ e \in {"network", "ctx"} /\ (pc = "send" => Expired)
  PROVE  IInv'
<1> USE DEF IInv, Outcome
<1>1. /\ P' = P /\ PolicyInv' /\ WellGrown(P, retries + 1)'
      /\ Compiles(policy)' /\ name' \in Names /\ method' \in Methods /\ method' = method
      /\ retries' \in Nat
  BY Frame
<1>2. /\ r \in [attempt : Nat, status : Statuses \cup {Unset}, after : RetryAfters \cup {Unset}]
      /\ (e = NoErr) <=> (r # NoResp)
      /\ r # NoResp => r.attempt = sent
      /\ r.attempt \in 0 .. sent
      /\ e \in {NoErr, "network", "ctx"}
  BY DEF NoResp, NoErr, TypeOK, LoopInv
<1>3. TypeOK'
  BY <1>1, <1>2 DEF TypeOK
<1>4. LoopInv'
  BY <1>1 DEF LoopInv, TypeOK, Expired
<1>5. BodyInv' /\ OutcomeInv' /\ delay' \in Int /\ WaitFits' /\ RetriesAreMade'
  BY <1>2 DEF BodyInv, WholeBodyEveryTime, OutcomeInv, AnswerIsLatest, WaitFits, RetriesAreMade
<1>. QED
  BY <1>1, <1>3, <1>4, <1>5

\* A Retry-After is read against the clock, where there is one.
LEMMA AfterTyped ==
  ASSUME IInv
  PROVE  /\ After \in Int \cup {Unset}
         /\ P.respectRetryAfter /\ After # Unset /\ After < 0 => TooLong
<1>1. now \in Int
  BY DEF IInv, TypeOK
<1>2. CASE err = NoErr /\ resp.after # Unset
  <2>1. resp.after \in RetryAfters
    BY <1>2 DEF IInv, OutcomeInv
  <2>. QED
    BY <1>1, <1>2, <2>1, AskedFor DEF After, TooLong
<1>3. CASE ~(err = NoErr /\ resp.after # Unset)
  BY <1>3 DEF After
<1>. QED
  BY <1>2, <1>3

\* What the wait would be after the attempt that is over.
LEMMA NextWait ==
  ASSUME IInv, NEW d \in backoff(P, retries + 1, After)
  PROVE  d \in Int /\ d <= P.maxBackoff /\ (d < 0 => TooLong)
<1>1. Typed(P) /\ Compiles(P) /\ WellGrown(P, retries + 1) /\ retries + 1 \in Nat
  BY DEF IInv, PolicyInv, TypeOK
<1>2. /\ d \in Int /\ d <= P.maxBackoff
      /\ d < 0 => \/ P.respectRetryAfter /\ After # Unset /\ After < 0
                  \/ P.maxBackoff * (10 + P.jitter) > 10 * MaxDuration
  BY <1>1, AfterTyped, BackoffBounds
<1>. QED
  BY <1>2, AfterTyped DEF TooLong

\* The last outcome is what the call answers, and it is given up early only for
\* a wait the budget does not allow.
LEMMA ReturnKeeps == ASSUME IInv, ReturnOutcome \/ WaitCanceled PROVE IInv'
<1>1. /\ UNCHANGED <<step, limited, now, deadline, retries, sent, body, got, attempt, delay, ctxDone>>
      /\ pc' = "done"
      /\ \/ pc = "decide" /\ ret' = [resp |-> resp, err |-> err]
         \/ ret' = [resp |-> NoResp, err |-> "ctx"]
  BY DEF ReturnOutcome, WaitCanceled, Return
<1>2. /\ P' = P /\ PolicyInv' /\ WellGrown(P, retries + 1)'
      /\ Compiles(policy)' /\ name' \in Names /\ method' \in Methods /\ method' = method
      /\ retries' \in Nat
  BY <1>1, Frame
<1>3. ret'.err \in {NoErr, "network", "ctx", "refused", "pending"}
  BY <1>1 DEF IInv, TypeOK
<1>4. TypeOK'
  BY <1>1, <1>2, <1>3 DEF IInv, TypeOK, attempt
<1>5. LoopInv'
  BY <1>1, <1>2 DEF IInv, LoopInv, TypeOK
<1>6. BodyInv' /\ OutcomeInv' /\ delay' \in Int /\ WaitFits'
  BY <1>1 DEF IInv, BodyInv, WholeBodyEveryTime, OutcomeInv, AnswerIsLatest, WaitFits, attempt, NoErr
<1>7. RetriesAreMade'
  <2> SUFFICES ASSUME limited, ~ctxDone, retryable
               PROVE  sent = P.maxRetries + 1 \/ deadline - now <= P.maxBackoff
    BY <1>1, <1>2, Zenon DEF RetriesAreMade, retryable, attempt
  <2>1. /\ P.maxRetries \in Nat /\ P.maxBackoff \in Nat
        /\ now \in Int /\ deadline \in Int /\ sent \in Int /\ retries \in Int
    BY CompiledBounds DEF IInv, PolicyInv, TypeOK
  <2>2. CASE Expired
    BY <2>1, <2>2 DEF Expired
  <2>3. CASE \E d \in backoff(P, retries + 1, After) : deadline - now <= d
    BY <2>1, <2>3, NextWait
  <2>4. CASE ~Expired /\ pc = "decide" /\ GiveUp
    <3>1. retries >= P.maxRetries
      BY <2>4, Zenon DEF GiveUp
    <3>2. sent = retries + 1 /\ retries <= P.maxRetries
      BY <2>4 DEF IInv, LoopInv
    <3>. QED
      BY <2>1, <3>1, <3>2
  <2>. QED
    BY <2>2, <2>3, <2>4 DEF ReturnOutcome, WaitCanceled
<1>. QED
  BY <1>2, <1>4, <1>5, <1>6, <1>7 DEF IInv

\* The loop goes round again only with a retry left, and for a wait that ends
\* before the budget does.
LEMMA AgainKeeps == ASSUME IInv, Again PROVE IInv'
<1>1. /\ P' = P /\ PolicyInv' /\ WellGrown(P, retries + 1)'
      /\ Compiles(policy)' /\ name' \in Names /\ method' \in Methods /\ method' = method
      /\ retries' \in Nat
  BY Frame DEF Again
<1>2. /\ UNCHANGED <<limited, now, deadline, retries, sent, got, resp, err, ctxDone, ret>>
      /\ pc = "decide" /\ pc' = "wait" /\ body' = "whole"
  BY DEF Again, attempt
<1>3. PICK d \in backoff(P, retries + 1, After) : deadline - now > d /\ delay' = d
  BY DEF Again
<1>6. delay' \in Int /\ delay' <= P.maxBackoff /\ (delay' < 0 => TooLong)
  BY <1>3, NextWait
<1>12. P.maxBackoff \in Int /\ P.maxRetries \in Nat
  BY CompiledBounds DEF IInv, PolicyInv
<1>13. TooLong' = TooLong
  BY <1>1, <1>2 DEF TooLong
<1>7. limited /\ retries < P.maxRetries
  BY <1>12 DEF Again, GiveUp, IInv, TypeOK
<1>8. TypeOK'
  BY <1>1, <1>2 DEF IInv, TypeOK
<1>14. sent = retries + 1
  <2>1. ~Expired
    BY Zenon DEF Again, GiveUp
  <2>. QED
    BY <1>2, <2>1 DEF IInv, LoopInv
<1>9. LoopInv'
  BY <1>1, <1>2, <1>7, <1>14 DEF IInv, LoopInv
<1>10. BodyInv' /\ OutcomeInv'
  BY <1>2 DEF IInv, BodyInv, WholeBodyEveryTime, OutcomeInv, AnswerIsLatest
<1>11. delay' \in Int /\ WaitFits' /\ RetriesAreMade'
  BY <1>1, <1>2, <1>3, <1>6, <1>7, <1>12, <1>13 DEF IInv, TypeOK, WaitFits, RetriesAreMade
<1>. QED
  BY <1>1, <1>8, <1>9, <1>10, <1>11 DEF IInv

\* The wait is over: one more of the retries the policy allows.
LEMMA WaitOverKeeps == ASSUME IInv, WaitOver PROVE IInv'
<1>1. /\ P' = P /\ PolicyInv' /\ WellGrown(P, retries + 1)'
      /\ Compiles(policy)' /\ name' \in Names /\ method' \in Methods /\ method' = method
      /\ retries' \in Nat
  BY Frame DEF WaitOver
<1>2. /\ UNCHANGED <<limited, now, deadline, sent, body, got, resp, err, delay, ctxDone, ret>>
      /\ pc = "wait" /\ pc' = "send" /\ retries' = retries + 1
  BY DEF WaitOver, attempt
<1>3. P.maxRetries \in Nat
  BY CompiledBounds DEF IInv, PolicyInv
<1>4. TypeOK'
  BY <1>1, <1>2 DEF IInv, TypeOK
<1>5. LoopInv'
  BY <1>1, <1>2, <1>3 DEF IInv, LoopInv, WaitFits, TypeOK
<1>6. BodyInv' /\ OutcomeInv' /\ delay' \in Int /\ WaitFits' /\ RetriesAreMade'
  BY <1>2 DEF IInv, BodyInv, WholeBodyEveryTime, OutcomeInv, AnswerIsLatest, WaitFits, RetriesAreMade
<1>. QED
  BY <1>1, <1>4, <1>5, <1>6 DEF IInv

\* The caller may cancel, and time passes; a wait gets shorter as it does.
LEMMA OutsideKeeps == ASSUME IInv, Cancel \/ Tick PROVE IInv'
<1>1. /\ UNCHANGED <<step, pc, limited, deadline, retries, sent, body, got, resp, err, ret>>
      /\ \/ now' = now /\ delay' = delay /\ ctxDone' = TRUE
         \/ /\ now' = now + 1 /\ now < Horizon /\ ctxDone' = ctxDone
            /\ IF pc = "wait" THEN ~(delay <= 0) /\ delay' = delay - 1 ELSE delay' = delay
      /\ pc # "done"
  BY DEF Cancel, Tick, attempt
<1>2. /\ P' = P /\ PolicyInv' /\ WellGrown(P, retries + 1)'
      /\ Compiles(policy)' /\ name' \in Names /\ method' \in Methods /\ method' = method
      /\ retries' \in Nat
  BY <1>1, Frame
<1>3. now' \in 0 .. Horizon /\ ctxDone' \in BOOLEAN /\ delay' \in Int
  <2>1. Horizon \in Nat
    BY Zenon, RetryAssumption
  <2>2. now' \in 0 .. Horizon /\ delay' \in Int
    BY <1>1, <2>1 DEF IInv, TypeOK
  <2>3. ctxDone' \in BOOLEAN
    BY <1>1, Zenon DEF IInv, TypeOK
  <2>. QED
    BY <2>2, <2>3
<1>4. TypeOK'
  BY <1>1, <1>2, <1>3 DEF IInv, TypeOK
<1>5. BodyInv' /\ OutcomeInv' /\ RetriesAreMade'
  BY <1>1, <1>2 DEF IInv, BodyInv, WholeBodyEveryTime, OutcomeInv, AnswerIsLatest, RetriesAreMade
<1>7. LoopInv'
  <2>1. Expired => Expired'
    <3>1. now \in Int /\ deadline \in Int /\ now' >= now
      BY <1>1 DEF IInv, TypeOK
    <3>. QED
      BY <1>1, <1>3, <3>1 DEF Expired
  <2>. QED
    BY <1>1, <1>2, <2>1 DEF IInv, LoopInv
<1>6. WaitFits'
  <2>1. P.maxBackoff \in Int /\ now \in Int /\ deadline \in Int /\ delay \in Int
    BY CompiledBounds DEF IInv, PolicyInv, TypeOK
  <2>2. pc = "wait" => now' + delay' = now + delay /\ (delay' < 0 => delay < 0) /\ delay' <= delay
    BY <1>1, <2>1
  <2>3. pc' = pc /\ deadline' = deadline /\ P' = P /\ TooLong' = TooLong
    BY <1>1, <1>2 DEF TooLong
  <2>4. pc = "wait" => delay <= P.maxBackoff /\ now + delay < deadline /\ (delay < 0 => TooLong)
    BY DEF IInv, WaitFits
  <2>5. pc = "wait" => limited'
    BY <1>1, Zenon DEF IInv, WaitFits
  <2>6. now' \in Int /\ delay' \in Int
    BY <1>3
  <2>7. ASSUME pc = "wait"
        PROVE  delay' <= P.maxBackoff /\ now' + delay' < deadline /\ (delay' < 0 => TooLong)
    <3>1. delay' <= P.maxBackoff
      BY <2>1, <2>2, <2>4, <2>6, <2>7
    <3>2. now' + delay' < deadline
      BY <2>1, <2>2, <2>4, <2>6, <2>7
    <3>3. delay' < 0 => TooLong
      BY Zenon, <2>2, <2>4, <2>7
    <3>. QED
      BY <3>1, <3>2, <3>3
  <2>. QED
    BY <2>3, <2>5, <2>7 DEF WaitFits
<1>. QED
  BY <1>2, <1>3, <1>4, <1>5, <1>6, <1>7 DEF IInv

\* Every step keeps the inductive invariant.
LEMMA StepKeeps == ASSUME IInv, [Next]_vars PROVE IInv'
<1>1. CASE UNCHANGED vars
  <2>1. /\ P' = P /\ PolicyInv' /\ WellGrown(P, retries + 1)'
        /\ Compiles(policy)'
    BY <1>1, Frame DEF vars, step
  <2>. QED
    BY <1>1, <2>1 DEF vars, IInv, TypeOK, LoopInv, Expired, BodyInv, WholeBodyEveryTime, OutcomeInv,
                      AnswerIsLatest, WaitFits, TooLong, RetriesAreMade, retryable
<1>2. CASE Respond
  <2>1. PICK s \in Statuses, a \in RetryAfters :
          Outcome([attempt |-> sent, status |-> s, after |-> a], NoErr)
    BY <1>2 DEF Respond
  <2>2. pc = "inflight"
    BY <1>2 DEF Respond
  <2>. QED
    BY <2>1, <2>2, OutcomeKeeps
<1>4. CASE NetworkError
  <2>1. pc = "inflight" /\ Outcome(NoResp, "network")
    BY <1>4 DEF NetworkError
  <2>. QED
    BY <2>1, OutcomeKeeps
<1>5. CASE CtxError
  <2>1. pc \in {"send", "inflight"} /\ Expired /\ Outcome(NoResp, "ctx")
    BY <1>5 DEF CtxError
  <2>. QED
    BY <2>1, OutcomeKeeps
<1>3. CASE Returned
  BY <1>1, <1>3 DEF Returned
<1>. QED
  BY <1>1, <1>2, <1>3, <1>4, <1>5, StartKeeps, SendKeeps, ReturnKeeps, AgainKeeps, WaitOverKeeps,
     OutsideKeeps DEF Next, Local

\* The inductive invariant holds of every call.
LEMMA Inductive == Spec => []IInv
BY InitEstablishes, StepKeeps, PTL DEF Spec

-----------------------------------------------------------------------------
\* The loop's variables keep their types, for policies of any numbers.
THEOREM TypeCorrect == Spec => []TypeOK
<1>1. IInv => TypeOK
  BY DEF IInv
<1>. QED
  BY <1>1, Inductive, PTL

\* The allowlist and max_retries bound what goes out: no sequence of failures,
\* cancellations and delays sends a request more often than the policy allows.
THEOREM RepeatsBounded == Spec => []RepeatsAreAllowed
<1>1. IInv => RepeatsAreAllowed
  <2> SUFFICES ASSUME IInv, sent > 1 PROVE method \in P.methods /\ sent <= P.maxRetries + 1
    BY DEF RepeatsAreAllowed
  <2>1. P.maxRetries \in Nat
    BY CompiledBounds DEF IInv, PolicyInv
  <2>2. limited
    BY DEF IInv, LoopInv, TypeOK
  <2>. QED
    BY <2>1, <2>2 DEF IInv, LoopInv, TypeOK
<1>. QED
  BY <1>1, Inductive, PTL

\* No attempt lives on an earlier one's body or response, however many there are.
THEOREM AttemptsIndependent == Spec => []AttemptsStandAlone
<1>1. IInv => AttemptsStandAlone
  BY DEF IInv, BodyInv, OutcomeInv, AttemptsStandAlone
<1>. QED
  BY <1>1, Inductive, PTL

\* Every wait is within max_backoff and within the budget, for every policy that
\* compiles; no growth makes it negative, only a Retry-After or a jitter that
\* exceeds what a duration holds.
THEOREM WaitsFit == Spec => []WaitFits
<1>1. IInv => WaitFits
  BY DEF IInv
<1>. QED
  BY <1>1, Inductive, PTL

\* A call is given up before its retries are made only when what is left of the
\* budget is no longer than the longest wait.
THEOREM RetriesMade == Spec => []RetriesAreMade
<1>1. IInv => RetriesAreMade
  BY DEF IInv
<1>. QED
  BY <1>1, Inductive, PTL
=============================================================================
