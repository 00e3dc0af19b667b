----------------------------- MODULE OIDCProofs -----------------------------
(***************************************************************************)
(* Safety of the token manager for every number of calls and upstreams,    *)
(* every lifetime a provider may give, and every clock.                    *)
(***************************************************************************)
EXTENDS OIDC, TLAPS

-----------------------------------------------------------------------------
(* The inductive invariant.  What a cached token promises depends on how   *)
(* old its response can be, and that on who holds the mutex.               *)

ReplyType == [id : 1 .. issued, life : Lifetimes, at : since .. now]

\* The response in flight is the holder's, and the latest token issued.
ReplyInv ==
  /\ mu \in Actors \cup {None}
  /\ reply \in ReplyType \cup {None}
  /\ \A a \in Actors : pc[a] = "reply" <=> mu = a /\ reply # None
  /\ reply # None => mu # None /\ reply.id = issued

\* Nobody holds the mutex longer than a request may take.
HoldIsShort == mu # None => now - since <= Timeout

\* The cached token is older than any other that is on its way, and it is taken
\* to live no longer than its lifetime and one request from when it was issued.
CacheInv ==
  token # None =>
    /\ token.id <= issued
    /\ reply # None => token.id < reply.id
    /\ token.expires <= token.at + Timeout + expiresIn(token.life)

AnswersType ==
  got \in [Callers -> [how : {"pending", "none", "static", "oidc", "cached", "fetched", "failed"},
                       id : 1 .. issued \cup {None}]]

IInv ==
  /\ TypeOK
  /\ nextTick \in Nat
  /\ AnswersType
  /\ ReplyInv
  /\ HoldIsShort
  /\ CacheInv
  /\ FetchesAreNeeded

-----------------------------------------------------------------------------
(* What the proofs need to know of lifetimes and tokens.                    *)

\* A lifetime is a number, and a positive one is taken as it is.
LEMMA LifeType ==
  ASSUME NEW life \in Lifetimes
  PROVE  expiresIn(life) \in Nat /\ (life > 0 => expiresIn(life) = life)
BY OIDCAssumption DEF expiresIn

\* A token that is not usable does not become usable by waiting.
LEMMA UsableWearsOff ==
  ASSUME TypeOK, now' = now + 1, token' = token, usable(token)'
  PROVE  usable(token)
BY OIDCAssumption DEF TypeOK, TokenType, usable

\* Once a token number has been issued it stays issued.
LEMMA IssuedGrows ==
  ASSUME TypeOK, issued' \in Nat, issued <= issued'
  PROVE  /\ TokenType \subseteq TokenType'
         /\ 1 .. issued \subseteq 1 .. issued'
BY DEF TypeOK, TokenType

-----------------------------------------------------------------------------
\* The manager starts with the mutex free and no token.
LEMMA InitEstablishes == Init => IInv
<1> SUFFICES ASSUME Init PROVE IInv
  OBVIOUS
<1> USE OIDCAssumption DEF Init
<1>1. TypeOK /\ nextTick \in Nat
  <2>1. /\ pc \in [Actors -> {"off", "idle", "lock", "discover", "token", "reply",
                             "select", "cut", "done"}]
        /\ \A a \in Actors : ~Fetching(a)
    BY DEF Actors, Fetching
  <2>2. \A a \in Actors : mu # a
    BY DEF Actors
  <2>3. now \in 0 .. Horizon /\ since \in 0 .. now /\ issued \in Nat /\ nextTick \in Nat
    OBVIOUS
  <2>4. /\ server \in {"starting", "serving", "stopping", "stopped"}
        /\ token = None /\ visible = {None} /\ reply = None /\ ticker = FALSE
    OBVIOUS
  <2>. QED
    BY ONLY <2>1, <2>2, <2>3, <2>4 DEF TypeOK
<1>2. AnswersType /\ ReplyInv /\ HoldIsShort /\ CacheInv
  BY DEF AnswersType, Nothing, ReplyInv, HoldIsShort, CacheInv, Actors
<1>3. FetchesAreNeeded
  BY DEF FetchesAreNeeded, Fetching, Actors
<1>. QED
  BY <1>1, <1>2, <1>3 DEF IInv

\* A call finds out which credential it carries, or joins those that wait.
LEMMA GetKeeps == ASSUME IInv, NEW c \in Callers, GetUpstreamToken(c) PROVE IInv'
<1> USE OIDCAssumption DEF IInv, GetUpstreamToken, clocks, cache, request
<1>. DEFINE s == source(UpstreamOf[c])
<1>1. s.kind \in {"none", "static", "oidc"}
  BY DEF source
<1>2. c \in Actors /\ c # Manager /\ pc[c] = "idle"
  BY DEF Actors
<1>3. pc' \in {[pc EXCEPT ![c] = "lock"], [pc EXCEPT ![c] = "done"]}
  BY DEF Give
<1>4. \A a \in Actors : Fetching(a)' <=> Fetching(a)
  BY <1>2, <1>3 DEF TypeOK, Fetching
<1>5. TypeOK' /\ nextTick' \in Nat
  BY <1>2, <1>3, <1>4 DEF TypeOK, TokenType, Fetching
<1>6. AnswersType'
  BY <1>1 DEF AnswersType, Give
<1>7. ReplyInv' /\ HoldIsShort' /\ CacheInv'
  BY <1>2, <1>3 DEF ReplyInv, HoldIsShort, CacheInv, ReplyType, TypeOK
<1>8. FetchesAreNeeded'
  BY <1>2, <1>4 DEF FetchesAreNeeded, usable, Actors
<1>. QED
  BY <1>5, <1>6, <1>7, <1>8

\* Whoever gets the mutex looks at the token again before it goes to fetch one.
LEMMA LockKeeps == ASSUME IInv, NEW a \in Actors, Lock(a) PROVE IInv'
<1> USE OIDCAssumption DEF IInv, Lock, clocks, Endpoint
<1>1. CASE a # Manager /\ usable(token)
  <2> USE <1>1 DEF Give
  <2>1. a \in Callers /\ token # None
    BY DEF Actors, usable
  <2>2. \A b \in Actors : Fetching(b)' <=> Fetching(b)
    BY DEF TypeOK, Fetching
  <2>3. TypeOK' /\ nextTick' \in Nat
    BY <2>2 DEF TypeOK, TokenType, Fetching
  <2>4. token.id \in 1 .. issued
    BY <2>1 DEF TypeOK, TokenType
  <2>5. AnswersType'
    BY <2>1, <2>4 DEF AnswersType
  <2>6. ReplyInv' /\ HoldIsShort' /\ CacheInv'
    BY DEF ReplyInv, HoldIsShort, CacheInv, ReplyType, TypeOK
  <2>7. FetchesAreNeeded'
    BY <2>2 DEF FetchesAreNeeded, usable, Actors
  <2>. QED
    BY <2>3, <2>5, <2>6, <2>7
<1>2. CASE ~(a # Manager /\ usable(token))
  <2> USE <1>2
  <2>1. /\ \A b \in Actors : ~Fetching(b)
        /\ Fetching(a)' /\ \A b \in Actors \ {a} : ~Fetching(b)'
    <3>1. \A b \in Actors : ~Fetching(b)
      BY DEF TypeOK, Actors
    <3>2. pc'[a] \in {"discover", "token"} /\ \A b \in Actors \ {a} : pc'[b] = pc[b]
      BY DEF TypeOK
    <3>. QED
      BY <3>1, <3>2 DEF Fetching
  <2>2. reply = None
    BY DEF ReplyInv
  <2>3. TypeOK' /\ nextTick' \in Nat
    BY <2>1, <2>2 DEF TypeOK, TokenType
  <2>4. AnswersType'
    BY DEF AnswersType
  <2>5. ReplyInv'
    BY <2>1, <2>2 DEF ReplyInv, TypeOK
  <2>6. HoldIsShort' /\ CacheInv'
    BY <2>2 DEF HoldIsShort, CacheInv, TypeOK
  <2>7. FetchesAreNeeded'
    BY <2>1 DEF FetchesAreNeeded, usable, Actors
  <2>. QED
    BY <2>3, <2>4, <2>5, <2>6, <2>7
<1>. QED
  BY <1>1, <1>2

\* The endpoint has been looked up; the request for the token begins.
LEMMA DiscoveredKeeps == ASSUME IInv, NEW a \in Actors, Discovered(a) PROVE IInv'
<1> USE OIDCAssumption DEF IInv, Discovered, clocks, cache
<1>1. mu = a /\ reply = None
  BY DEF TypeOK, Fetching, ReplyInv
<1>2. \A b \in Actors : Fetching(b)' <=> Fetching(b)
  BY DEF TypeOK, Fetching
<1>3. TypeOK' /\ nextTick' \in Nat
  BY <1>1, <1>2 DEF TypeOK, TokenType
<1>4. AnswersType'
  BY DEF AnswersType
<1>5. ReplyInv' /\ HoldIsShort' /\ CacheInv'
  BY <1>1 DEF ReplyInv, HoldIsShort, CacheInv, TypeOK
<1>6. FetchesAreNeeded'
  BY <1>2 DEF FetchesAreNeeded, usable, Actors
<1>. QED
  BY <1>3, <1>4, <1>5, <1>6

\* The provider issues a token, later than any before; its response is under way.
LEMMA IssueKeeps == ASSUME IInv, NEW a \in Actors, Issue(a) PROVE IInv'
<1> USE OIDCAssumption DEF IInv, Issue, clocks, cache
<1>1. mu = a /\ reply = None
  BY DEF TypeOK, Fetching, ReplyInv
<1>2. \A b \in Actors : Fetching(b)' <=> Fetching(b)
  BY DEF TypeOK, Fetching
<1>3. PICK life \in Lifetimes : reply' = [id |-> issued', life |-> life, at |-> now]
  OBVIOUS
<1>4. issued' = issued + 1 /\ issued' \in Nat
  BY DEF TypeOK
<1>5. TokenType \subseteq TokenType' /\ 1 .. issued \subseteq 1 .. issued'
  BY <1>4, IssuedGrows DEF TypeOK
<1>6. reply' \in ReplyType' /\ reply'.id = issued' /\ reply' # None
  BY <1>3, <1>4 DEF ReplyType, TypeOK
<1>7. pc'[a] = "reply" /\ \A b \in Actors \ {a} : pc'[b] = pc[b] /\ pc[b] # "reply"
  BY <1>1 DEF TypeOK, ReplyInv
<1>8. TypeOK' /\ nextTick' \in Nat
  BY <1>2, <1>4, <1>5, <1>7 DEF TypeOK
<1>9. AnswersType'
  BY <1>5 DEF AnswersType
<1>10. ReplyInv'
  <2>1. \A b \in Actors : (pc'[b] = "reply" <=> b = a) /\ (mu' = b <=> b = a)
    BY <1>1, <1>7
  <2>. QED
    BY <1>1, <1>6, <2>1 DEF ReplyInv, Actors
<1>11. HoldIsShort'
  BY DEF HoldIsShort
<1>12. CacheInv'
  BY <1>1, <1>4, <1>6 DEF CacheInv, TypeOK, TokenType
<1>13. FetchesAreNeeded'
  BY <1>2 DEF FetchesAreNeeded, usable, Actors
<1>. QED
  BY <1>8, <1>9, <1>10, <1>11, <1>12, <1>13

\* When the holder unlocks, whether it is a call or the manager and with whatever
\* outcome, nobody is fetching any more.
LEMMA UnlockFrees ==
  ASSUME TypeOK, AnswersType, ReplyInv, nextTick \in Nat,
         NEW a \in Actors, Fetching(a), NEW how \in {"fetched", "failed"}, NEW t,
         t = None \/ t.id \in 1 .. issued, Unlock(a, how, t), issued' = issued
  PROVE  /\ mu' = None /\ since' = 0 /\ \A b \in Actors : ~Fetching(b)'
         /\ \A b \in Actors : pc'[b] # "reply"
         /\ pc' \in [Actors -> {"off", "idle", "lock", "discover", "token", "reply",
                                "select", "cut", "done"}]
         /\ server' \in {"starting", "serving", "stopping", "stopped"}
         /\ nextTick' \in Nat
         /\ AnswersType'
<1> USE OIDCAssumption DEF Unlock
<1>1. \A b \in Actors \ {a} : ~Fetching(b)
  BY DEF TypeOK
<1>2. /\ pc'[a] \in {"done", "select"} /\ \A b \in Actors \ {a} : pc'[b] = pc[b]
      /\ pc' \in [Actors -> {"off", "idle", "lock", "discover", "token", "reply",
                             "select", "cut", "done"}]
  BY DEF TypeOK, Give
<1>3. \A b \in Actors : ~Fetching(b)' /\ pc'[b] # "reply"
  BY <1>1, <1>2 DEF Fetching
<1>4. server' \in {"starting", "serving", "stopping", "stopped"} /\ nextTick' \in Nat
  BY DEF TypeOK
<1>5. AnswersType'
  <2>1. a # Manager => a \in Callers
    BY DEF Actors
  <2>. QED
    BY <2>1 DEF AnswersType, Give
<1>. QED
  BY <1>2, <1>3, <1>4, <1>5

\* The response arrives in time and becomes the cached token.
LEMMA ArriveKeeps == ASSUME IInv, NEW a \in Actors, Arrive(a) PROVE IInv'
<1> USE OIDCAssumption DEF IInv, Arrive
<1>. DEFINE t == [id |-> reply.id, life |-> reply.life, at |-> reply.at,
                  expires |-> now + expiresIn(reply.life)]
<1>1. Fetching(a) /\ mu = a /\ reply \in ReplyType /\ reply.id = issued
  BY DEF TypeOK, Fetching, ReplyInv
<1>2. t \in TokenType /\ t.id = issued
  BY <1>1, LifeType DEF ReplyType, TokenType, TypeOK
<1>3. /\ mu' = None /\ since' = 0 /\ \A b \in Actors : ~Fetching(b)'
      /\ \A b \in Actors : pc'[b] # "reply"
      /\ pc' \in [Actors -> {"off", "idle", "lock", "discover", "token", "reply",
                             "select", "cut", "done"}]
      /\ server' \in {"starting", "serving", "stopping", "stopped"}
      /\ nextTick' \in Nat
      /\ AnswersType'
  BY <1>1, <1>2, UnlockFrees DEF TokenType
<1>4. TokenType' = TokenType
  BY DEF TokenType
<1>5. token' \in visible' /\ visible' \subseteq TokenType \cup {None}
  BY <1>2 DEF TypeOK
<1>6. TypeOK'
  <2>1. \A b \in Actors : mu' # b
    BY <1>3 DEF Actors
  <2>. QED
    BY <1>2, <1>3, <1>4, <1>5, <2>1 DEF TypeOK
<1>7. ReplyInv' /\ HoldIsShort'
  BY <1>3 DEF ReplyInv, HoldIsShort
<1>8. CacheInv'
  <2>1. now <= reply.at + Timeout /\ reply.at \in Nat /\ reply.life \in Lifetimes
    BY <1>1 DEF HoldIsShort, ReplyType, TypeOK, Actors
  <2>2. t.expires <= t.at + Timeout + expiresIn(t.life)
    BY <2>1, LifeType DEF TypeOK
  <2>. QED
    BY <1>2, <2>2 DEF CacheInv, TypeOK, expiresIn
<1>9. FetchesAreNeeded'
  BY <1>3 DEF FetchesAreNeeded, Actors
<1>. QED
  BY <1>3, <1>6, <1>7, <1>8, <1>9

\* A fetch that fails leaves the token as it is.
LEMMA FetchFailsKeeps == ASSUME IInv, NEW a \in Actors, FetchFails(a) PROVE IInv'
<1> USE OIDCAssumption DEF IInv, FetchFails, cache
<1>1. Fetching(a)
  BY DEF Fetching
<1>2. /\ mu' = None /\ since' = 0 /\ \A b \in Actors : ~Fetching(b)'
      /\ \A b \in Actors : pc'[b] # "reply"
      /\ pc' \in [Actors -> {"off", "idle", "lock", "discover", "token", "reply",
                             "select", "cut", "done"}]
      /\ server' \in {"starting", "serving", "stopping", "stopped"}
      /\ nextTick' \in Nat
      /\ AnswersType'
  <2>1. token = None \/ token.id \in 1 .. issued
    BY DEF TypeOK, TokenType
  <2>. QED
    BY <1>1, <2>1, UnlockFrees
<1>3. TypeOK'
  <2>1. \A b \in Actors : mu' # b
    BY <1>2 DEF Actors
  <2>. QED
    BY <1>2, <2>1 DEF TypeOK, TokenType
<1>4. ReplyInv' /\ HoldIsShort' /\ CacheInv'
  BY <1>2 DEF ReplyInv, HoldIsShort, CacheInv, expiresIn
<1>5. FetchesAreNeeded'
  BY <1>2 DEF FetchesAreNeeded, Actors
<1>. QED
  BY <1>2, <1>3, <1>4, <1>5

\* refreshLoop's own steps, and the start of a shutdown, leave the mutex and
\* the token alone.
LEMMA LoopKeeps == ASSUME IInv, OnTick \/ OnStop \/ ShutdownOIDC PROVE IInv'
<1> USE OIDCAssumption DEF IInv, cache, request
<1>1. /\ UNCHANGED <<now, nextTick, token, visible, mu, since, reply, issued, got>>
      /\ ticker' \in BOOLEAN
      /\ server' \in {"starting", "serving", "stopping", "stopped"}
  BY DEF OnTick, OnStop, ShutdownOIDC, clocks, TypeOK
<1>2. /\ pc' \in [Actors -> {"off", "idle", "lock", "discover", "token", "reply",
                             "select", "cut", "done"}]
      /\ \A a \in Actors : (Fetching(a)' <=> Fetching(a)) /\ (pc'[a] = "reply" <=> pc[a] = "reply")
  <2>1. pc' = pc \/ (pc[Manager] = "select" /\ \E x \in {"lock", "done"} : pc' = [pc EXCEPT ![Manager] = x])
    BY DEF OnTick, OnStop, ShutdownOIDC
  <2>. QED
    BY <2>1 DEF TypeOK, Fetching, Actors
<1>3. TypeOK'
  BY <1>1, <1>2 DEF TypeOK, TokenType
<1>4. AnswersType' /\ HoldIsShort' /\ CacheInv'
  BY <1>1 DEF AnswersType, HoldIsShort, CacheInv, expiresIn
<1>5. ReplyInv'
  BY <1>1, <1>2 DEF ReplyInv, ReplyType
<1>6. FetchesAreNeeded'
  BY <1>1, <1>2 DEF FetchesAreNeeded, usable, Actors
<1>. QED
  BY <1>1, <1>3, <1>4, <1>5, <1>6

\* The process goes, with whatever was running.
LEMMA ExitKeeps == ASSUME IInv, Exit PROVE IInv'
<1> USE OIDCAssumption DEF IInv, Exit, cache, clocks
<1>1. /\ pc' \in [Actors -> {"off", "idle", "lock", "discover", "token", "reply",
                             "select", "cut", "done"}]
      /\ \A a \in Actors : ~Fetching(a)' /\ pc'[a] # "reply" /\ mu' # a
  BY DEF TypeOK, Fetching, Actors
<1>2. TypeOK'
  BY <1>1 DEF TypeOK, TokenType
<1>3. AnswersType' /\ ReplyInv' /\ HoldIsShort' /\ CacheInv'
  BY <1>1 DEF AnswersType, ReplyInv, HoldIsShort, CacheInv, expiresIn
<1>4. FetchesAreNeeded'
  BY <1>1 DEF FetchesAreNeeded, Actors
<1>. QED
  BY <1>2, <1>3, <1>4

\* Time passes: a token only wears off, and a request in flight is still short.
LEMMA TickKeeps == ASSUME IInv, Tick PROVE IInv'
<1> USE OIDCAssumption DEF IInv, Tick, cache, request
<1>1. now' = now + 1 /\ now' \in 0 .. Horizon /\ nextTick' \in Nat /\ ticker' \in BOOLEAN
  <2>1. Period \in Nat /\ Horizon \in Nat
    OBVIOUS
  <2>2. nextTick' = nextTick \/ nextTick' = nextTick + Period
    OBVIOUS
  <2>3. nextTick' \in Nat
    BY <2>1, <2>2
  <2>4. ticker' = TRUE \/ ticker' = ticker
    OBVIOUS
  <2>5. ticker' \in BOOLEAN
    BY <2>4, Zenon DEF TypeOK
  <2>. QED
    BY <2>1, <2>3, <2>5 DEF TypeOK
<1>2. \A a \in Actors : Fetching(a)' <=> Fetching(a)
  BY DEF Fetching
<1>3. TypeOK'
  BY <1>1, <1>2 DEF TypeOK, TokenType
<1>4. AnswersType' /\ CacheInv'
  BY DEF AnswersType, CacheInv, expiresIn
<1>5. ReplyInv'
  BY <1>1 DEF ReplyInv, ReplyType, TypeOK
<1>6. HoldIsShort'
  BY <1>1 DEF HoldIsShort, TypeOK
<1>7. FetchesAreNeeded'
  BY <1>1, <1>2, UsableWearsOff DEF FetchesAreNeeded, Actors
<1>. QED
  BY <1>1, <1>3, <1>4, <1>5, <1>6, <1>7

\* Every step keeps the inductive invariant.
LEMMA StepKeeps == ASSUME IInv, [Next]_vars PROVE IInv'
<1>1. CASE UNCHANGED vars
  BY <1>1 DEF vars, IInv, TypeOK, TokenType, Fetching, AnswersType, ReplyInv, ReplyType,
              HoldIsShort, CacheInv, expiresIn, FetchesAreNeeded, usable
<1>2. CASE Next
  BY <1>2, GetKeeps, LockKeeps, DiscoveredKeeps, IssueKeeps, ArriveKeeps, FetchFailsKeeps,
     LoopKeeps, ExitKeeps, TickKeeps DEF Next, Fetch
<1>. QED
  BY <1>1, <1>2

\* The inductive invariant holds of every behaviour of the manager.
LEMMA Inductive == Spec => []IInv
BY InitEstablishes, StepKeeps, PTL DEF Spec

-----------------------------------------------------------------------------
\* Mutual exclusion included: whoever is at the provider holds the mutex, and
\* what refreshLoop may read without it has the form of a token.
THEOREM TypeCorrect == Spec => []TypeOK
<1>1. IInv => TypeOK
  BY DEF IInv
<1>. QED
  BY <1>1, Inductive, PTL

\* getToken looks again under the mutex: however many calls found the token
\* about to expire, a call goes to the provider only while it still is.
THEOREM NoNeedlessFetch == Spec => []FetchesAreNeeded
<1>1. IInv => FetchesAreNeeded
  BY DEF IInv
<1>. QED
  BY <1>1, Inductive, PTL

\* The margin of getToken is enough for every lifetime and every delay of the
\* response: a token taken from the cache has not expired at the provider.
THEOREM CachedIsGood == Spec => CachedTokenIsGood
<1>. DEFINE A == \A c \in Callers :
                   got[c] # got'[c] /\ got'[c].how = "cached" /\ token.life > 0
                     => now < token.at + token.life
<1>1. ASSUME IInv, [Next]_vars PROVE A
  <2> SUFFICES ASSUME NEW c \in Callers, got[c] # got'[c], got'[c].how = "cached",
                      token.life > 0
               PROVE  now < token.at + token.life
    OBVIOUS
  <2> USE <1>1, OIDCAssumption DEF IInv
  <2>1. PICK b \in Actors : Lock(b) \/ (b \in Callers /\ GetUpstreamToken(b))
                            \/ Arrive(b) \/ FetchFails(b)
    BY DEF Next, vars, Fetch, Discovered, Issue, OnTick, OnStop, ShutdownOIDC, Exit,
                Tick, Actors
  <2>2. ~(b \in Callers /\ GetUpstreamToken(b))
    <3>1. b \in Callers => source(UpstreamOf[b]).kind \in {"none", "static", "oidc"}
      BY DEF source
    <3>. QED
      BY <3>1 DEF GetUpstreamToken, Give, AnswersType
  <2>3. ~Arrive(b) /\ ~FetchFails(b)
    BY DEF Arrive, FetchFails, Unlock, Give, AnswersType
  <2>4. usable(token)
    BY <2>1, <2>2, <2>3 DEF Lock
  <2>5. token \in TokenType /\ token.expires <= token.at + Timeout + expiresIn(token.life)
    BY <2>4 DEF usable, CacheInv, TypeOK
  <2>6. expiresIn(token.life) = token.life
    BY <2>5, LifeType DEF TokenType
  <2>. QED
    BY <2>4, <2>5, <2>6 DEF usable, TokenType, TypeOK
<1>. QED
  BY <1>1, Inductive, PTL DEF Spec, CachedTokenIsGood

\* A failed refresh never loses the token and a slow one never puts an earlier
\* token in place of a later one.
THEOREM TokenNeverGoesBack == Spec => TokensAdvance
<1>1. ASSUME IInv, [Next]_vars, token # None PROVE token' # None /\ token'.id >= token.id
  <2> USE <1>1, OIDCAssumption DEF IInv
  <2>1. CASE UNCHANGED token
    BY <1>1, <2>1 DEF TypeOK, TokenType
  <2>2. CASE \E a \in Actors : Arrive(a)
    <3>1. PICK a \in Actors : Arrive(a)
      BY <2>2
    <3>2. reply \in ReplyType /\ token.id < reply.id /\ token.id \in Nat
      BY <1>1, <3>1 DEF Arrive, ReplyInv, CacheInv, TypeOK, TokenType
    <3>3. token' = [id |-> reply.id, life |-> reply.life, at |-> reply.at,
                    expires |-> now + expiresIn(reply.life)]
      BY <3>1 DEF Arrive
    <3>4. token' \in [id : Nat, life : Nat, at : Nat, expires : Nat]
      BY <3>2, <3>3, LifeType DEF ReplyType, TypeOK
    <3>. QED
      BY <3>2, <3>3, <3>4 DEF ReplyType
  <2>. QED
    BY <1>1, <2>1, <2>2 DEF Next, vars, cache, GetUpstreamToken, Lock, Fetch, Discovered, Issue, FetchFails,
                   OnTick, OnStop, ShutdownOIDC, Exit, Tick
<1>. QED
  BY <1>1, Inductive, PTL DEF Spec, TokensAdvance
=============================================================================
