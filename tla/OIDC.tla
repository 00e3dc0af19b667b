-------------------------------- MODULE OIDC --------------------------------
(***************************************************************************)
(* The access token of a generated server's upstreams (templates/          *)
(* auth.templ): tool calls take it from a cache they fill when it is about *)
(* to expire, a goroutine refreshes it in the background, and both fetch   *)
(* under one mutex.  The provider may issue a token whose response is lost;*)
(* a request is given up after the HTTP client's timeout.                  *)
(*                                                                         *)
(* Time is counted in units of that timeout.                               *)
(***************************************************************************)
EXTENDS Integers, FiniteSets

CONSTANTS
  Callers,    \* tool calls that ask for a token
  Manager,    \* the goroutine that runs InitOIDC and then refreshLoop
  Auth,       \* how each configured upstream authenticates
  UpstreamOf, \* upstream of each caller's call
  Discovery,  \* the token endpoint is looked up first
  Lifetimes,  \* values of expires_in; 0 stands for a missing one
  Timeout,    \* http.Client.Timeout
  Margin,     \* a caller does not take a token that expires this soon
  LoopMargin, \* refreshLoop refreshes a token that expires this soon
  Period,     \* of the ticker
  DefaultLife,\* lifetime of a token without expires_in
  None,
  Horizon     \* bound on the clock

ASSUME OIDCAssumption ==
  /\ Manager \notin Callers
  /\ None \notin Callers \cup {Manager}
  /\ None \notin [id : Nat, life : Nat, at : Nat]
  /\ None \notin [id : Nat, life : Nat, at : Nat, expires : Nat]
  /\ Auth \in [DOMAIN Auth -> {"none", "static", "oidc"}]
  /\ "default" \in DOMAIN Auth
  /\ UpstreamOf \in [Callers -> DOMAIN Auth]
  /\ Lifetimes \subseteq Nat
  /\ {Timeout, Margin, LoopMargin, Period, DefaultLife, Horizon} \subseteq Nat \ {0}
  /\ Timeout <= Margin

Actors == Callers \cup {Manager}

VARIABLES
  now,      \* the clock
  server,   \* progress of main
  token,    \* oidcManager.token
  visible,  \* tokens refreshLoop may find there, as it reads without the mutex
  mu,       \* who holds the mutex
  pc,       \* where each actor is
  since,    \* when the request in flight was sent, 0 if there is none
  reply,    \* the response in flight
  issued,   \* number of tokens the provider has issued
  ticker,   \* a tick waits in the ticker's channel
  nextTick, \* when the ticker fires next
  got       \* what each caller was given

clocks == <<now, ticker, nextTick>>
cache == <<token, visible>>
request == <<since, reply, issued>>
vars == <<now, server, token, visible, mu, pc, since, reply, issued, ticker, nextTick, got>>

Nothing == [how |-> "pending", id |-> None]

\* Without OIDC on the default upstream there is no manager at all.
Init ==
  /\ now = 0
  /\ server = IF Auth["default"] = "oidc" THEN "starting" ELSE "serving"
  /\ token = None
  /\ visible = {None}
  /\ mu = None
  /\ pc = [a \in Actors |-> IF a # Manager THEN "idle"
                            ELSE IF Auth["default"] = "oidc" THEN "lock" ELSE "off"]
  /\ since = 0
  /\ reply = None
  /\ issued = 0
  /\ ticker = FALSE
  /\ nextTick = 0
  /\ got = [c \in Callers |-> Nothing]

(***************************************************************************)
(* Which token a call carries.                                             *)
(***************************************************************************)

\* Only the kind is looked at: there is one manager, the default upstream's.
source(u) ==
  IF Auth[u] # "none" THEN [kind |-> Auth[u], of |-> u]
  ELSE [kind |-> Auth["default"], of |-> "default"]

Give(c, how, t) ==
  /\ pc' = [pc EXCEPT ![c] = "done"]
  /\ got' = [got EXCEPT ![c] = [how |-> how, id |-> IF t = None THEN None ELSE t.id]]

GetUpstreamToken(c) ==
  LET s == source(UpstreamOf[c])
  IN  /\ pc[c] = "idle"
      /\ server \in {"serving", "stopping"}
      /\ IF s.kind = "oidc" /\ pc[Manager] # "off"
           THEN pc' = [pc EXCEPT ![c] = "lock"] /\ UNCHANGED got
           ELSE Give(c, s.kind, None)
      /\ UNCHANGED <<clocks, server, cache, mu, request>>

(***************************************************************************)
(* refreshLocked, for whoever holds the mutex.                             *)
(***************************************************************************)
\* Mutant: a token is good until the moment it expires.
usableNow(t) == t # None /\ now < t.expires

usable(t) == t # None /\ now + Margin < t.expires

Endpoint == IF Discovery THEN "discover" ELSE "token"

\* Mutant: the caller looks before it has the mutex, and fetches all the same.
LockAndFetch(a) ==
  /\ pc[a] = "lock"
  /\ mu = None
  /\ mu' = a
  /\ since' = now
  /\ pc' = [pc EXCEPT ![a] = Endpoint]
  /\ visible' = IF a = Manager THEN {token} ELSE visible
  /\ UNCHANGED <<clocks, server, token, reply, issued, got>>

\* A caller that finds a usable token has it and lets the mutex go again.
Lock(a) ==
  /\ pc[a] = "lock"
  /\ mu = None
  /\ IF a # Manager /\ usable(token)
       THEN Give(a, "cached", token) /\ UNCHANGED <<mu, since>>
       ELSE /\ mu' = a
            /\ since' = now
            /\ pc' = [pc EXCEPT ![a] = Endpoint]
            /\ UNCHANGED got
  /\ visible' = IF a = Manager THEN {token} ELSE visible
  /\ UNCHANGED <<clocks, server, token, reply, issued>>

Discovered(a) ==
  /\ pc[a] = "discover"
  /\ since' = now
  /\ pc' = [pc EXCEPT ![a] = "token"]
  /\ UNCHANGED <<clocks, server, cache, mu, reply, issued, got>>

Issue(a) ==
  /\ pc[a] = "token"
  /\ issued' = issued + 1
  /\ \E life \in Lifetimes : reply' = [id |-> issued', life |-> life, at |-> now]
  /\ pc' = [pc EXCEPT ![a] = "reply"]
  /\ UNCHANGED <<clocks, server, cache, mu, since, got>>

\* The manager's first refresh is InitOIDC's: then the server goes on and the
\* loop starts, whether a token came or not.
Unlock(a, how, t) ==
  /\ mu' = None
  /\ since' = 0
  /\ IF a # Manager
       THEN Give(a, how, t) /\ UNCHANGED <<server, nextTick>>
       ELSE /\ pc' = [pc EXCEPT ![a] = "select"]
            /\ IF server = "starting"
                 THEN server' = "serving" /\ nextTick' = now + Period
                 ELSE UNCHANGED <<server, nextTick>>
            /\ UNCHANGED got

\* A missing, zero or negative expires_in counts as an hour.
expiresIn(life) == IF life <= 0 THEN DefaultLife ELSE life

Arrive(a) ==
  LET t == [id |-> reply.id, life |-> reply.life, at |-> reply.at,
            expires |-> now + expiresIn(reply.life)]
  IN  /\ pc[a] = "reply"
      /\ token' = t
      /\ visible' = IF a = Manager THEN {t} ELSE visible \cup {t}
      /\ Unlock(a, "fetched", t)
      /\ reply' = None
      /\ UNCHANGED <<now, ticker, issued>>

\* Mutant: an error path forgets the mutex.
FailLocked(a) ==
  /\ pc[a] \in {"discover", "token", "reply"}
  /\ reply' = None
  /\ pc' = [pc EXCEPT ![a] = IF a = Manager THEN "select" ELSE "done"]
  /\ server' = IF server = "starting" THEN "serving" ELSE server
  /\ UNCHANGED <<clocks, cache, mu, since, issued, got>>

\* Mutant: a failed refresh drops the token.
FailAndDrop(a) ==
  /\ pc[a] \in {"discover", "token", "reply"}
  /\ token' = None
  /\ visible' = {None}
  /\ reply' = None
  /\ Unlock(a, "failed", None)
  /\ UNCHANGED <<now, ticker, issued>>

\* No secret file, no endpoint, a bad status or body, a lost response, a
\* timeout: the token stays as it is, and a caller is given it.
FetchFails(a) ==
  /\ pc[a] \in {"discover", "token", "reply"}
  /\ reply' = None
  /\ Unlock(a, "failed", token)
  /\ UNCHANGED <<now, ticker, cache, issued>>

Fetch(a) == Discovered(a) \/ Issue(a) \/ Arrive(a) \/ FetchFails(a)

(***************************************************************************)
(* refreshLoop and ShutdownOIDC.                                           *)
(***************************************************************************)
Fresh(t) == t # None /\ now + LoopMargin <= t.expires

\* The loop reads m.token without the mutex.  A token stored since it last held
\* the mutex may be seen or not, or be seen before its fields are.
MayRefresh == Cardinality(visible) > 1 \/ \E t \in visible : ~Fresh(t)

MaySkip == \E t \in visible : Fresh(t)

OnTick ==
  /\ pc[Manager] = "select"
  /\ ticker
  /\ ticker' = FALSE
  /\ \/ MayRefresh /\ pc' = [pc EXCEPT ![Manager] = "lock"]
     \/ MaySkip /\ UNCHANGED pc
  /\ UNCHANGED <<now, nextTick, server, cache, mu, request, got>>

\* Mutant: the loop looks only at its ticker.
OnStopNever ==
  /\ pc[Manager] = "select"
  /\ ticker /\ server = "stopping"
  /\ pc' = [pc EXCEPT ![Manager] = "done"]
  /\ UNCHANGED <<clocks, server, cache, mu, request, got>>

\* stopCh is closed; if a tick is waiting as well, select takes either.
OnStop ==
  /\ pc[Manager] = "select"
  /\ server = "stopping"
  /\ pc' = [pc EXCEPT ![Manager] = "done"]
  /\ UNCHANGED <<clocks, server, cache, mu, request, got>>

ShutdownOIDC ==
  /\ server = "serving"
  /\ server' = "stopping"
  /\ UNCHANGED <<clocks, cache, mu, pc, request, got>>

\* doneCh is closed, or there is no manager; the process goes and takes the
\* calls that are still running with it.
Exit ==
  /\ server = "stopping"
  /\ pc[Manager] \in {"done", "off"}
  /\ server' = "stopped"
  /\ pc' = [a \in Actors |->
       IF pc[a] \in {"lock", "discover", "token", "reply"} THEN "cut" ELSE pc[a]]
  /\ mu' = None
  /\ since' = 0
  /\ reply' = None
  /\ UNCHANGED <<clocks, cache, issued, got>>

\* A request does not outlive the client's timeout.
Tick ==
  /\ now < Horizon
  /\ server # "stopped"
  /\ mu # None => now - since < Timeout
  /\ now' = now + 1
  /\ IF nextTick = now' /\ pc[Manager] \notin {"off", "done"}
       THEN ticker' = TRUE /\ nextTick' = nextTick + Period
       ELSE UNCHANGED <<ticker, nextTick>>
  /\ UNCHANGED <<server, cache, mu, pc, request, got>>

Next ==
  \/ \E c \in Callers : GetUpstreamToken(c)
  \/ \E a \in Actors : Lock(a) \/ Fetch(a)
  \/ OnTick \/ OnStop \/ ShutdownOIDC \/ Exit \/ Tick

\* A request ends, by the client's timeout at the latest; a free mutex is given
\* to a goroutine that waits for it; goroutines are scheduled.
Progress == (\E a \in Actors : Lock(a) \/ Fetch(a)) \/ OnTick \/ OnStop \/ Exit

Fairness == WF_vars(Progress)

Spec == Init /\ [][Next]_vars

FairSpec == Spec /\ Fairness

-----------------------------------------------------------------------------
TokenType ==
  [id : 1 .. issued, life : Lifetimes, at : Nat, expires : Nat]

Fetching(a) == pc[a] \in {"discover", "token", "reply"}

TypeOK ==
  /\ now \in 0 .. Horizon /\ since \in 0 .. now /\ issued \in Nat
  /\ server \in {"starting", "serving", "stopping", "stopped"}
  /\ token \in TokenType \cup {None}
  /\ token \in visible /\ visible \subseteq TokenType \cup {None}
  /\ pc \in [Actors -> {"off", "idle", "lock", "discover", "token", "reply",
                        "select", "cut", "done"}]
  /\ reply # None => \E a \in Actors : pc[a] = "reply"
  /\ \A a \in Actors : Fetching(a) <=> mu = a
  /\ ticker \in BOOLEAN

\* A caller asks the provider only while there is no usable token, however many
\* callers found the token wanting at the same time: whoever gets the mutex
\* second finds the token the first one fetched.
FetchesAreNeeded == \A c \in Callers : Fetching(c) => ~usable(token)

\* A token from the cache is good at the provider too, though its lifetime is
\* counted from when the response arrived and not from when it was issued: the
\* margin makes up for the longest request.
CachedTokenIsGood ==
  [][\A c \in Callers :
       got[c] # got'[c] /\ got'[c].how = "cached" /\ token.life > 0
         => now < token.at + token.life]_vars

\* Once there is a token there always is one, and it is never replaced by one
\* that was issued earlier.
TokensAdvance == [][token # None => token' # None /\ token'.id >= token.id]_vars

\* A call gets its token, or none, though the provider may never answer.
CallsReturn == \A c \in Callers : pc[c] = "lock" ~> pc[c] \in {"done", "cut"}

\* Shutdown waits for the loop, which may be waiting for the mutex behind calls
\* whose requests hang; it ends all the same.
ShutdownEnds == server = "stopping" ~> server = "stopped"

\* Nobody hangs on the mutex or on the provider, neither a call nor shutdown,
\* and neither because of the other.
NobodyHangs == CallsReturn /\ ShutdownEnds

(***************************************************************************)
(* What comments say, and the code does not do.                            *)
(***************************************************************************)

\* config.templ:532-533: only an upstream that has no authentication of its own
\* gets the default upstream's token.
NamedCredentialIsOwn ==
  \A c \in Callers :
    got[c].id # None => Auth[UpstreamOf[c]] = "none" \/ UpstreamOf[c] = "default"
=============================================================================
