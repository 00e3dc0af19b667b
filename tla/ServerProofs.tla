---------------------------- MODULE ServerProofs ----------------------------
(***************************************************************************)
(* A process of a generated server, for any configuration that loading can *)
(* give, any tools, number of requests and grace period: which tools it    *)
(* offers, and that it cuts no request before its time.  And for the       *)
(* configurations that Config gives: that the environment changes in them  *)
(* what it names and nothing else, for any settings and any variables.     *)
(*                                                                         *)
(* The walks of Config recur over intervals, so that they exist is proved, *)
(* by the least length that has no walk; then what is found along a second *)
(* path after the first has been set, segment by segment; and then what    *)
(* the variables have done, one after the other.                           *)
(***************************************************************************)
EXTENDS ConfiguredServer, WellFoundedInduction, TLAPS

-----------------------------------------------------------------------------
(* The inductive invariant.                                                *)

ServerSet == {Servers[i] : i \in DOMAIN Servers}

\* Where no listener has been started yet, or none ever is.
Early == {"load", "configured", "expose", "virtual", "registered", "auth", "stdio",
          "list", "list virtual", "listed", "call", "called"}

ConnType == [server : ServerSet, kind : {"call", "stream"}, state : {"open", "done", "cut"}]

\* A server that takes no requests any more.
Closed(s) == listener[s] \in {"off", "closed"}

\* Shutting down goes through the servers, and leaves each without requests.
ShutdownInv ==
  /\ conns \in [Conns -> ConnType \cup {None}]
  /\ main \in Early => \A s \in ServerSet : listener[s] = "off"
  /\ main \in {"mcp", "mgmt", "pprof", "deferred"} => signal /\ Closed("mcp")
  /\ main \in {"mgmt", "pprof", "deferred"} => Drained("mcp") /\ Closed("mgmt")
  /\ main \in {"pprof", "deferred"} => Drained("mgmt") /\ Closed("pprof")
  /\ main = "deferred" => Drained("pprof")

\* The generated tools that a configuration offers.
NativeTools(c) == Owned({n \in Registry : Offered(n, c)}, "native")

\* What is decided before the tools are all known.
ConfigInv ==
  /\ main = "load" => cfg = ZeroConfig
  /\ main \in {"load", "configured"} => file = start.file
  /\ main \in {"configured", "expose", "virtual", "call", "list", "list virtual"} =>
       cfg \in Readings(start.file)
  /\ main = "virtual" => ~Conflict(cfg) /\ tools = NativeTools(cfg)
  /\ main = "list virtual" => \E f \in Versions : \E c \in Readings(f) : tools = NativeTools(c)

IInv == TypeOK /\ ShutdownInv /\ ConfigInv /\ ToolsAreAsConfigured /\ GraceIsGiven

-----------------------------------------------------------------------------
LEMMA ServerFacts ==
  /\ ServerSet = {"mcp", "mgmt", "pprof"} /\ Len(Servers) = 3 /\ DOMAIN Servers = {1, 2, 3}
  /\ Servers[1] = "mcp" /\ Servers[2] = "mgmt" /\ Servers[3] = "pprof"
<1>1. Len(Servers) = 3 /\ DOMAIN Servers = 1 .. 3
      /\ Servers[1] = "mcp" /\ Servers[2] = "mgmt" /\ Servers[3] = "pprof"
  BY DEF Servers
<1>2. DOMAIN Servers = {1, 2, 3}
  BY <1>1
<1> QED
  BY <1>1, <1>2 DEF ServerSet

LEMMA ZeroFacts == IsConfig(ZeroConfig) /\ ExposeAll(ZeroConfig)
BY DEF IsConfig, ZeroConfig, ConfigOf, Struct, ExposeAll, Expose, Pointer

\* An open request is at a server that has been started.
LEMMA NoneOpen ==
  ASSUME IInv, main \in Early
  PROVE  \A c \in Conns : ~Open(c)
<1> SUFFICES ASSUME NEW c \in Conns, Open(c) PROVE FALSE
  OBVIOUS
<1>1. conns[c] \in ConnType
  BY DEF IInv, ShutdownInv, Open
<1>2. conns[c].server \in ServerSet
  BY <1>1 DEF ConnType
<1>3. listener[conns[c].server] = "off"
  BY <1>2 DEF IInv, ShutdownInv
<1>4. listener[conns[c].server] \in {"open", "closed"}
  BY DEF IInv, TypeOK
<1> QED
  BY <1>3, <1>4

\* The versions of the file that there have been only become more, and say what
\* they said.
LEMMA ReadingsStay ==
  ASSUME TypeOK, start' = start, file' \in {file, start.edited}
  PROVE  /\ Versions \subseteq Versions'
         /\ \A f : Readings(f)' = Readings(f)
BY DEF TypeOK, Versions, Readings

\* A process that ends leaves no request open, and cuts none in time unless for
\* an error.
LEMMA ExitKeeps ==
  ASSUME IInv, NEW code \in {0, 1, 2, 143}, Exit(code), exit = None,
         code = 1 \/ \A c \in Conns : ~Open(c),
         UNCHANGED <<start, file, signal, grace>>, IsConfig(cfg'),
         \A t \in tools' : t.owner = "native" => t.name \in Registry
  PROVE  IInv'
<1>1. main' = "gone" /\ exit' = code /\ listener' = listener /\ exit' # None
  BY ServerAssumption DEF Exit
<1>2. conns' = [c \in Conns |-> IF Open(c) THEN [conns[c] EXCEPT !.state = "cut"] ELSE conns[c]]
  BY DEF Exit
<1>3. \A c \in Conns : conns[c] \in ConnType \cup {None} /\ (Open(c) => conns[c] \in ConnType)
  BY DEF IInv, ShutdownInv, Open
<1>4. ASSUME NEW c \in Conns, Open(c)
      PROVE  conns'[c] \in ConnType /\ conns'[c].state = "cut"
  BY <1>2, <1>3, <1>4 DEF ConnType
<1>5. ASSUME NEW c \in Conns, ~Open(c)
      PROVE  conns'[c] = conns[c]
  BY <1>2, <1>5
<1>6. conns' \in [Conns -> ConnType \cup {None}]
  BY <1>2, <1>3, <1>4, <1>5
<1>7. \A c \in Conns : ~Open(c)'
  BY <1>4, <1>5 DEF Open
<1>8. TypeOK'
  <2>1. main' \in Places
    BY <1>1 DEF Places
  <2>2. exit' \in {None, 0, 1, 2, 143} /\ (exit' = None <=> main' # "gone")
    BY <1>1
  <2> QED
    BY <1>1, <1>7, <2>1, <2>2 DEF IInv, TypeOK
<1>9. ShutdownInv' /\ ConfigInv' /\ ToolsAreAsConfigured'
  BY <1>1, <1>6 DEF ShutdownInv, ConfigInv, ToolsAreAsConfigured, Early
<1>10. GraceIsGiven'
  <2> SUFFICES ASSUME NEW c \in Conns, (conns[c] # None /\ conns[c].state = "cut")'
               PROVE  exit' = 1 \/ (signal /\ grace = 0)'
    BY DEF GraceIsGiven
  <2>1. CASE Open(c)
    BY <1>1, <2>1
  <2>2. CASE ~Open(c)
    <3>1. conns[c] # None /\ conns[c].state = "cut"
      BY <1>5, <2>2
    <3>2. exit = 1 \/ (signal /\ grace = 0)
      BY <3>1 DEF IInv, GraceIsGiven
    <3>3. exit # 1
      BY ServerAssumption
    <3> QED
      BY <3>2, <3>3
  <2> QED
    BY <2>1, <2>2
<1> QED
  BY <1>8, <1>9, <1>10 DEF IInv

\* The main goroutine goes on before anything is served.
LEMMA GotoKeeps ==
  ASSUME IInv, NEW place \in Early, Goto(place), main \in Early,
         UNCHANGED <<start, file, signal, grace>>, IsConfig(cfg'),
         \A t \in tools' : t.owner = "native" => t.name \in Registry
  PROVE  TypeOK' /\ ShutdownInv' /\ GraceIsGiven'
<1>1. main' = place /\ UNCHANGED <<conns, exit, listener>> /\ main' # "gone" /\ main # "gone"
  BY DEF Goto, Early
<1>2. TypeOK'
  BY <1>1 DEF IInv, TypeOK, Open, Places, Early
<1>3. ShutdownInv'
  BY <1>1 DEF IInv, ShutdownInv, Early
<1>4. GraceIsGiven'
  BY <1>1 DEF IInv, GraceIsGiven
<1> QED
  BY <1>2, <1>3, <1>4

\* What loading the configuration can give.
LEMMA LoadedFacts ==
  ASSUME TypeOK, NEW c \in Loaded(file, start.environ)
  PROVE  /\ c \in {Panicked, Failed} \/ IsConfig(c)
         /\ c # Panicked => (IF c = Failed THEN ZeroConfig ELSE c) \in Readings(file)
         /\ file \in Versions
BY ServerAssumption DEF TypeOK, Readings, Versions

LEMMA EarlyFacts ==
  ASSUME IInv, main \in Early
  PROVE  /\ exit = None /\ main # "gone" /\ TypeOK /\ IsConfig(cfg)
         /\ \A c \in Conns : ~Open(c)
         /\ \A t \in tools : t.owner = "native" => t.name \in Registry
BY NoneOpen DEF IInv, TypeOK, Early

LEMMA LoadKeeps == ASSUME IInv, Load PROVE IInv'
<1>1. main = "load" /\ main \in Early /\ UNCHANGED <<start, file, tools, signal, grace>>
  BY DEF Load, Early
<1>2. PICK c \in Loaded(file, start.environ) :
        /\ cfg' = IF c \in {Panicked, Failed} THEN cfg ELSE c
        /\ IF c = Panicked THEN Exit(2) ELSE Goto("configured")
  BY DEF Load
<1>3. IsConfig(cfg')
  BY <1>1, <1>2, LoadedFacts, EarlyFacts
<1>4. CASE c = Panicked
  BY <1>1, <1>2, <1>3, <1>4, EarlyFacts, ExitKeeps
<1>5. CASE c # Panicked
  <2>1. Goto("configured") /\ "configured" \in Early /\ main' = "configured"
    BY <1>2, <1>5 DEF Goto, Early
  <2>2. TypeOK' /\ ShutdownInv' /\ GraceIsGiven'
    BY <1>1, <1>3, <2>1, EarlyFacts, GotoKeeps
  <2>3. cfg = ZeroConfig
    BY <1>1 DEF IInv, ConfigInv
  <2>4. cfg' = IF c = Failed THEN ZeroConfig ELSE c
    BY <1>2, <1>5, <2>3
  <2>5. cfg' \in Readings(file) /\ file \in Versions
    BY <1>1, <1>5, <2>4, LoadedFacts, EarlyFacts
  <2>6. file = start.file /\ file' = start'.file
    BY <1>1 DEF IInv, ConfigInv
  <2>7. cfg' \in Readings(start.file)'
    BY <1>1, <2>5, <2>6, EarlyFacts, ReadingsStay
  <2> QED
    BY <2>1, <2>2, <2>6, <2>7 DEF IInv, ConfigInv, ToolsAreAsConfigured
<1> QED
  BY <1>4, <1>5

LEMMA ConfigureKeeps == ASSUME IInv, ConfigureHTTPMiddleware PROVE IInv'
<1>1. main = "configured" /\ main \in Early /\ UNCHANGED <<start, file, cfg, tools, signal, grace>>
  BY DEF ConfigureHTTPMiddleware, Early
<1>2. CASE ~PoliciesCompile(cfg)
  <2>1. Exit(1)
    BY <1>2 DEF ConfigureHTTPMiddleware
  <2> QED
    BY <1>1, <2>1, EarlyFacts, ExitKeeps
<1>3. CASE PoliciesCompile(cfg)
  <2>1. start.transport \in {"http", "stdio", "cli"}
    BY ServerAssumption, EarlyFacts, <1>1 DEF TypeOK
  <2>2. PICK place \in {"expose", "list", "call"} : Goto(place)
    BY <1>3, <2>1 DEF ConfigureHTTPMiddleware
  <2>3. main' = place /\ place \in Early
    BY <2>2 DEF Goto, Early
  <2>4. TypeOK' /\ ShutdownInv' /\ GraceIsGiven'
    BY <1>1, <2>2, <2>3, EarlyFacts, GotoKeeps
  <2>5. cfg \in Readings(start.file)
    BY <1>1 DEF IInv, ConfigInv
  <2>6. cfg' \in Readings(start.file)'
    BY <1>1, <2>5, EarlyFacts, ReadingsStay
  <2> QED
    BY <2>3, <2>4, <2>6 DEF IInv, ConfigInv, ToolsAreAsConfigured
<1> QED
  BY <1>2, <1>3

-----------------------------------------------------------------------------
(* Which tools there are.                                                  *)

\* Registering, listing and calling decide by the rule of the documentation.
LEMMA SameRule ==
  ASSUME NEW c
  PROVE  /\ Registry \cap resolveEnabledTools(c) = {n \in Registry : Offered(n, c)}
         /\ Registry \cap cliEnabledTools(c) = {n \in Registry : Offered(n, c)}
BY DEF resolveEnabledTools, cliEnabledTools, Offered

LEMMA OwnedFacts ==
  ASSUME NEW names, NEW owner
  PROVE  /\ {t.name : t \in Owned(names, owner)} = names
         /\ \A t \in Owned(names, owner) : t.name \in names /\ t.owner = owner
<1>1. \A t \in Owned(names, owner) : t.name \in names /\ t.owner = owner
  BY DEF Owned
<1>2. \A n \in names : \E t \in Owned(names, owner) : t.name = n
  <2> TAKE n \in names
  <2>1. [name |-> n, owner |-> owner] \in Owned(names, owner)
    BY DEF Owned
  <2> QED
    BY <2>1
<1> QED
  BY <1>1, <1>2

LEMMA RegisterNativeKeeps == ASSUME IInv, RegisterNative PROVE IInv'
<1>1. main = "expose" /\ main \in Early /\ UNCHANGED <<start, file, cfg, signal, grace>>
  BY DEF RegisterNative, Early
<1>2. CASE Conflict(cfg)
  <2>1. Exit(1) /\ UNCHANGED tools
    BY <1>2 DEF RegisterNative
  <2> QED
    BY <1>1, <2>1, EarlyFacts, ExitKeeps
<1>3. CASE ~Conflict(cfg)
  <2>1. Goto("virtual") /\ tools' = Owned(Registry \cap resolveEnabledTools(cfg), "native")
    BY <1>3 DEF RegisterNative
  <2>2. main' = "virtual" /\ "virtual" \in Early
    BY <2>1 DEF Goto, Early
  <2>3. tools' = NativeTools(cfg)
    BY <2>1, SameRule DEF NativeTools
  <2>4. \A t \in tools' : t.owner = "native" => t.name \in Registry
    BY <2>3 DEF NativeTools, Owned
  <2>5. TypeOK' /\ ShutdownInv' /\ GraceIsGiven'
    BY <1>1, <2>1, <2>2, <2>4, EarlyFacts, GotoKeeps
  <2>6. cfg \in Readings(start.file)
    BY <1>1 DEF IInv, ConfigInv
  <2>7. cfg' \in Readings(start.file)'
    BY <1>1, <2>6, EarlyFacts, ReadingsStay
  <2>8. ConfigInv'
    BY <1>1, <1>3, <2>2, <2>3, <2>7 DEF ConfigInv, NativeTools
  <2> QED
    BY <2>2, <2>5, <2>8 DEF IInv, ToolsAreAsConfigured
<1> QED
  BY <1>2, <1>3

LEMMA RegisterVirtualKeeps == ASSUME IInv, RegisterVirtual PROVE IInv'
<1> DEFINE vt == virtualTools(file, cfg)
           native == {n \in Registry : Offered(n, cfg)}
<1>1. /\ main = "virtual" /\ main \in Early /\ UNCHANGED <<start, file, cfg, signal, grace>>
      /\ tools' = {t \in tools : t.name \notin vt} \cup Owned(vt, "virtual") /\ Goto("registered")
  BY DEF RegisterVirtual, Early
<1>2. main' = "registered" /\ "registered" \in Early
  BY <1>1 DEF Goto, Early
<1>3. cfg \in Readings(start.file) /\ ~Conflict(cfg) /\ tools = NativeTools(cfg)
  BY <1>1 DEF IInv, ConfigInv
<1>4. \A t \in tools' : t.owner = "native" => t.name \in Registry
  BY <1>1, EarlyFacts DEF Owned
<1>5. TypeOK' /\ ShutdownInv' /\ GraceIsGiven'
  BY <1>1, <1>2, <1>4, EarlyFacts, GotoKeeps
<1>6. Names' = native \cup vt
  <2>1. tools = Owned(native, "native")
    BY <1>3 DEF NativeTools
  <2> HIDE DEF vt, native
  <2>2. Names' = {t.name : t \in tools'}
    BY DEF Names
  <2>3. \A t \in tools' : t.name \in native \cup vt
    BY <1>1, <2>1, OwnedFacts
  <2>4. ASSUME NEW n \in vt
        PROVE  n \in {t.name : t \in tools'}
    <3>1. PICK t \in Owned(vt, "virtual") : t.name = n
      BY OwnedFacts
    <3> QED
      BY <1>1, <3>1
  <2>5. ASSUME NEW n \in native, n \notin vt
        PROVE  n \in {t.name : t \in tools'}
    <3>1. PICK t \in tools : t.name = n
      BY <2>1, OwnedFacts
    <3> QED
      BY <1>1, <2>5, <3>1
  <2> QED
    BY <2>2, <2>3, <2>4, <2>5
<1>7. start'.file \in Versions' /\ file \in Versions' /\ cfg \in Readings(start.file)'
  BY <1>1, <1>3, EarlyFacts, ReadingsStay DEF Versions
<1>8. ToolsAreAsConfigured'
  BY <1>1, <1>2, <1>3, <1>6, <1>7 DEF ToolsAreAsConfigured
<1> QED
  BY <1>2, <1>5, <1>8 DEF IInv, ConfigInv

LEMMA ListNativeKeeps == ASSUME IInv, ListNative PROVE IInv'
<1>1. main = "list" /\ main \in Early /\ UNCHANGED <<start, file, cfg, signal, grace>>
  BY DEF ListNative, Early
<1>2. PICK c \in Loaded(file, start.environ) :
        IF c = Panicked THEN Exit(2) /\ UNCHANGED tools
        ELSE /\ tools' = Owned(IF c = Failed THEN Registry
                               ELSE Registry \cap cliEnabledTools(c), "native")
             /\ Goto("list virtual")
  BY DEF ListNative
<1>3. CASE c = Panicked
  BY <1>1, <1>2, <1>3, EarlyFacts, ExitKeeps
<1>4. CASE c # Panicked
  <2> DEFINE d == IF c = Failed THEN ZeroConfig ELSE c
  <2>1. Goto("list virtual") /\ "list virtual" \in Early /\ main' = "list virtual"
    BY <1>2, <1>4 DEF Goto, Early
  <2>2. tools' = NativeTools(d)
    <3>1. CASE c = Failed
      <4>1. {n \in Registry : Offered(n, ZeroConfig)} = Registry
        BY ZeroFacts DEF Offered
      <4> QED
        BY <1>2, <1>4, <3>1, <4>1 DEF NativeTools
    <3>2. CASE c # Failed
      BY <1>2, <1>4, <3>2, SameRule DEF NativeTools
    <3> QED
      BY <3>1, <3>2
  <2>3. d \in Readings(file) /\ file \in Versions
    BY <1>1, <1>4, LoadedFacts, EarlyFacts
  <2> HIDE DEF d
  <2>4. \A t \in tools' : t.owner = "native" => t.name \in Registry
    BY <2>2 DEF NativeTools, Owned
  <2>5. TypeOK' /\ ShutdownInv' /\ GraceIsGiven'
    BY <1>1, <2>1, <2>4, EarlyFacts, GotoKeeps
  <2>6. ConfigInv'
    <3>1. PICK g \in Versions' : d \in Readings(g)'
      BY <1>1, <2>3, EarlyFacts, ReadingsStay
    <3>2. \E f \in Versions' : \E x \in Readings(f)' : tools' = NativeTools(x)
      BY <2>2, <3>1
    <3>3. (\E f \in Versions : \E x \in Readings(f) : tools = NativeTools(x))'
      BY <3>2 DEF NativeTools
    <3>4. cfg \in Readings(start.file)
      BY <1>1 DEF IInv, ConfigInv
    <3>5. cfg' \in Readings(start.file)'
      BY <1>1, <3>4, EarlyFacts, ReadingsStay
    <3> QED
      BY <2>1, <3>3, <3>5 DEF ConfigInv
  <2> QED
    BY <2>1, <2>5, <2>6 DEF IInv, ToolsAreAsConfigured
<1> QED
  BY <1>3, <1>4

LEMMA ListVirtualKeeps == ASSUME IInv, ListVirtual PROVE IInv'
<1>1. /\ main = "list virtual" /\ main \in Early /\ UNCHANGED <<start, file, cfg, signal, grace>>
      /\ tools' = tools \cup Owned(virtualTools(file, cfg), "virtual") /\ Goto("listed")
  BY DEF ListVirtual, Early
<1>2. main' = "listed" /\ "listed" \in Early
  BY <1>1 DEF Goto, Early
<1>0. PICK f \in Versions : \E c \in Readings(f) : tools = NativeTools(c)
  BY <1>1 DEF IInv, ConfigInv
<1>3. PICK c \in Readings(f) : tools = NativeTools(c)
  BY <1>0
<1> DEFINE vt == virtualTools(file, cfg)
           native == {n \in Registry : Offered(n, c)}
<1>4. \A t \in tools' : t.owner = "native" => t.name \in Registry
  BY <1>1, EarlyFacts, OwnedFacts
<1>5. TypeOK' /\ ShutdownInv' /\ GraceIsGiven'
  BY <1>1, <1>2, <1>4, EarlyFacts, GotoKeeps
<1>6. Names' = native \cup vt
  <2>1. tools = Owned(native, "native")
    BY <1>3 DEF NativeTools
  <2> HIDE DEF vt, native
  <2>2. Names' = {t.name : t \in tools'}
    BY DEF Names
  <2>3. \A t \in tools' : t.name \in native \cup vt
    BY <1>1, <2>1, OwnedFacts DEF vt
  <2>4. ASSUME NEW n \in vt
        PROVE  n \in {t.name : t \in tools'}
    <3>1. PICK t \in Owned(vt, "virtual") : t.name = n
      BY OwnedFacts
    <3> QED
      BY <1>1, <3>1 DEF vt
  <2>5. ASSUME NEW n \in native
        PROVE  n \in {t.name : t \in tools'}
    <3>1. PICK t \in tools : t.name = n
      BY <2>1, OwnedFacts
    <3> QED
      BY <1>1, <3>1
  <2> QED
    BY <2>2, <2>3, <2>4, <2>5
<1>7. f \in Versions' /\ file \in Versions' /\ c \in Readings(f)'
  BY <1>1, <1>3, EarlyFacts, ReadingsStay DEF Versions
<1>8. cfg \in Readings(start.file)'
  BY <1>1, EarlyFacts, ReadingsStay DEF IInv, ConfigInv
<1>9. ToolsAreAsConfigured'
  BY <1>1, <1>2, <1>6, <1>7, <1>8 DEF ToolsAreAsConfigured
<1> QED
  BY <1>2, <1>5, <1>9 DEF IInv, ConfigInv

LEMMA CallNativeKeeps == ASSUME IInv, CallNative PROVE IInv'
<1>1. /\ main = "call" /\ main \in Early /\ start.tool \in Registry
      /\ UNCHANGED <<start, file, signal, grace>>
  BY DEF CallNative, Early
<1>2. PICK c \in Loaded(file, start.environ) :
        /\ cfg' = IF c \in {Panicked, Failed} THEN cfg ELSE c
        /\ tools' = IF c # Panicked /\ (c = Failed \/ start.tool \in cliEnabledTools(c))
                    THEN Owned({start.tool}, "native") ELSE {}
        /\ IF c = Panicked THEN Exit(2) ELSE Goto("called")
  BY DEF CallNative
<1>3. IsConfig(cfg')
  BY <1>1, <1>2, LoadedFacts, EarlyFacts
<1>4. \A t \in tools' : t.owner = "native" => t.name \in Registry
  BY <1>1, <1>2, OwnedFacts
<1>5. CASE c = Panicked
  BY <1>1, <1>2, <1>3, <1>4, <1>5, EarlyFacts, ExitKeeps
<1>6. CASE c # Panicked
  <2> DEFINE d == IF c = Failed THEN ZeroConfig ELSE c
             native == {n \in Registry : Offered(n, d)}
  <2>1. Goto("called") /\ "called" \in Early /\ main' = "called"
    BY <1>2, <1>6 DEF Goto, Early
  <2>2. TypeOK' /\ ShutdownInv' /\ GraceIsGiven'
    BY <1>1, <1>3, <1>4, <2>1, EarlyFacts, GotoKeeps
  <2>3. d \in Readings(file) /\ file \in Versions
    BY <1>1, <1>6, LoadedFacts, EarlyFacts
  <2>4. c = Failed \/ start.tool \in cliEnabledTools(c) <=> start.tool \in native
    BY <1>1, SameRule, ZeroFacts DEF Offered
  <2> HIDE DEF d, native
  <2>5. Names' = {start.tool} \cap native
    <3>1. CASE start.tool \in native
      BY <1>2, <1>6, <2>4, <3>1, OwnedFacts DEF Names
    <3>2. CASE start.tool \notin native
      BY <1>2, <1>6, <2>4, <3>2 DEF Names
    <3> QED
      BY <3>1, <3>2
  <2>6. PICK f \in Versions' : d \in Readings(f)'
    BY <1>1, <2>3, EarlyFacts, ReadingsStay
  <2>9. cfg \in Readings(start.file)'
    BY <1>1, EarlyFacts, ReadingsStay DEF IInv, ConfigInv
  <2>10. file \in Versions'
    BY <1>1 DEF Versions
  <2>7. ASSUME NEW vt
        PROVE  Names' = {start'.tool} \cap (native \cup (vt \ Registry))
    BY <1>1, <2>5
  <2>8. ToolsAreAsConfigured'
    <3>1. \A vt : Names' = {start'.tool} \cap ({n \in Registry : Offered(n, d)}
                                               \cup (vt \ Registry))
      BY <2>7 DEF native
    <3> QED
      BY <2>1, <2>6, <2>9, <2>10, <3>1 DEF ToolsAreAsConfigured
  <2> QED
    BY <2>1, <2>2, <2>8 DEF IInv, ConfigInv
<1> QED
  BY <1>5, <1>6

LEMMA CallVirtualKeeps == ASSUME IInv, CallVirtual PROVE IInv'
<1>1. /\ main = "call" /\ main \in Early /\ start.tool \notin Registry
      /\ UNCHANGED <<start, file, cfg, signal, grace>>
      /\ tools' = Owned({start.tool} \cap virtualTools(file, cfg), "virtual") /\ Goto("called")
  BY DEF CallVirtual, Early
<1>2. main' = "called" /\ "called" \in Early
  BY <1>1 DEF Goto, Early
<1>3. \A t \in tools' : t.owner = "native" => t.name \in Registry
  BY <1>1, OwnedFacts
<1>4. TypeOK' /\ ShutdownInv' /\ GraceIsGiven'
  BY <1>1, <1>2, <1>3, EarlyFacts, GotoKeeps
<1>5. cfg \in Readings(start.file)
  BY <1>1 DEF IInv, ConfigInv
<1>6. start'.file \in Versions' /\ file \in Versions' /\ cfg \in Readings(start.file)'
  BY <1>1, <1>5, EarlyFacts, ReadingsStay DEF Versions
<1>7. Names' = {start.tool} \cap virtualTools(file, cfg)
  BY <1>1, OwnedFacts DEF Names
<1>8. Names' = {start.tool} \cap ({n \in Registry : Offered(n, cfg)}
                                   \cup (virtualTools(file, cfg) \ Registry))
  BY <1>1, <1>7
<1>9. ToolsAreAsConfigured'
  BY <1>1, <1>2, <1>6, <1>8 DEF ToolsAreAsConfigured
<1> QED
  BY <1>2, <1>4, <1>9 DEF IInv, ConfigInv

LEMMA EndCommandKeeps == ASSUME IInv, EndCommand PROVE IInv'
<1>1. main \in Early /\ UNCHANGED <<start, file, cfg, tools, signal, grace>>
  BY DEF EndCommand, Early
<1>2. PICK code \in {0, 1} : Exit(code)
  BY DEF EndCommand
<1> QED
  BY <1>1, <1>2, EarlyFacts, ExitKeeps

LEMMA ServeStdioKeeps == ASSUME IInv, ServeStdio PROVE IInv'
<1>1. main \in Early /\ UNCHANGED <<start, file, cfg, tools, signal, grace>>
  BY DEF ServeStdio, Early
<1>2. CASE Goto("stdio")
  <2>1. main' = "stdio" /\ "stdio" \in Early
    BY <1>2 DEF Goto, Early
  <2>2. TypeOK' /\ ShutdownInv' /\ GraceIsGiven'
    BY <1>1, <1>2, <2>1, EarlyFacts, GotoKeeps
  <2> QED
    BY <2>1, <2>2 DEF IInv, ConfigInv, ToolsAreAsConfigured
<1>3. CASE \E code \in {0, 1} : Exit(code)
  BY <1>1, <1>3, EarlyFacts, ExitKeeps
<1> QED
  BY <1>2, <1>3 DEF ServeStdio

-----------------------------------------------------------------------------
(* Serving and shutting down.                                              *)

\* A step that changes none of what they are about.
LEMMA ToolsStay ==
  ASSUME IInv, UNCHANGED <<start, file, main, cfg, tools>>
  PROVE  ConfigInv' /\ ToolsAreAsConfigured'
<1>1. ConfigInv'
  BY DEF IInv, ConfigInv, Readings, Versions, NativeTools
<1>2. Names' = Names /\ Versions' = Versions
  BY DEF Names, Versions
<1>3. \A f : Readings(f)' = Readings(f)
  BY DEF Readings
<1>4. ToolsAreAsConfigured'
  BY <1>2, <1>3 DEF IInv, ToolsAreAsConfigured
<1> QED
  BY <1>1, <1>4

\* Once it serves, what is decided at the start is over.
LEMMA ToolsAreOver ==
  ASSUME main' \in {"auth", "serving", "mcp", "mgmt", "pprof", "deferred", "gone"}
  PROVE  ConfigInv' /\ ToolsAreAsConfigured'
BY DEF ConfigInv, ToolsAreAsConfigured

LEMMA NotifyContextKeeps == ASSUME IInv, NotifyContext PROVE IInv'
<1>1. /\ main \in Early /\ UNCHANGED <<start, file, cfg, tools, signal, grace>>
      /\ Goto("auth") /\ "auth" \in Early /\ main' = "auth"
  BY DEF NotifyContext, Goto, Early
<1>2. TypeOK' /\ ShutdownInv' /\ GraceIsGiven'
  BY <1>1, EarlyFacts, GotoKeeps
<1> QED
  BY <1>1, <1>2, ToolsAreOver DEF IInv

LEMMA StartServersKeeps == ASSUME IInv, StartServers PROVE IInv'
<1>1. main = "auth" /\ main \in Early /\ UNCHANGED <<start, file, cfg, tools, signal, grace>>
  BY DEF StartServers, Early
<1>2. CASE Exit(1)
  BY <1>1, <1>2, EarlyFacts, ExitKeeps
<1>3. CASE /\ main' = "serving"
           /\ listener' = [s \in DOMAIN listener |-> IF Enabled(s, cfg) THEN "starting" ELSE "off"]
           /\ UNCHANGED <<conns, exit>>
  <2>1. listener' \in [ServerSet -> {"off", "starting", "open", "failed", "closed"}]
    BY <1>3 DEF IInv, TypeOK, ServerSet
  <2>2. \A c \in Conns : ~Open(c)'
    BY <1>1, <1>3, EarlyFacts DEF Open
  <2>3. TypeOK'
    BY <1>1, <1>3, <2>1, <2>2, EarlyFacts DEF TypeOK, Places, ServerSet
  <2>4. ShutdownInv'
    BY <1>3 DEF IInv, ShutdownInv, Early
  <2>5. GraceIsGiven'
    BY <1>1, <1>3 DEF IInv, GraceIsGiven
  <2> QED
    BY <1>3, <2>3, <2>4, <2>5, ToolsAreOver DEF IInv
<1> QED
  BY <1>2, <1>3 DEF StartServers

LEMMA ListenKeeps == ASSUME IInv, NEW s \in ServerSet, Listen(s) PROVE IInv'
<1>1. /\ exit = None /\ listener[s] = "starting"
      /\ UNCHANGED <<start, file, cfg, tools, signal, grace>>
  BY DEF Listen
<1>2. CASE Exit(1)
  BY <1>1, <1>2, ExitKeeps DEF IInv, TypeOK
<1>3. CASE \E state \in {"open", "failed"} : /\ listener' = [listener EXCEPT ![s] = state]
                                             /\ UNCHANGED <<main, conns, exit>>
  <2>1. PICK state \in {"open", "failed"} : /\ listener' = [listener EXCEPT ![s] = state]
                                            /\ UNCHANGED <<main, conns, exit>>
    BY <1>3
  <2>2. listener \in [ServerSet -> {"off", "starting", "open", "failed", "closed"}]
    BY DEF IInv, TypeOK, ServerSet
  <2>3. listener' \in [ServerSet -> {"off", "starting", "open", "failed", "closed"}]
    BY <2>1, <2>2
  <2>4. \A r \in ServerSet : listener[r] # "starting" => listener'[r] = listener[r]
    BY <1>1, <2>1, <2>2
  <2>5. \A c \in Conns : Open(c)' => Open(c) /\ listener'[conns[c].server] \in {"open", "closed"}
    <3>1. ASSUME NEW c \in Conns, Open(c)
          PROVE  conns[c].server \in ServerSet /\ listener[conns[c].server] \in {"open", "closed"}
      BY <3>1 DEF IInv, TypeOK, ShutdownInv, Open, ConnType
    <3>2. \A c \in Conns : Open(c)' = Open(c)
      BY <2>1 DEF Open
    <3> QED
      BY <2>4, <3>1, <3>2
  <2>6. TypeOK'
    BY <1>1, <2>1, <2>3, <2>5 DEF IInv, TypeOK, ServerSet
  <2>7. ShutdownInv'
    <3>1. \A r \in ServerSet : Closed(r) => Closed(r)'
      BY <2>4 DEF Closed
    <3>2. \A r \in ServerSet : Drained(r)' = Drained(r)
      BY <2>1 DEF Drained, Open
    <3>3. main \notin Early
      BY <1>1 DEF IInv, ShutdownInv
    <3> QED
      BY <1>1, <2>1, <3>1, <3>2, <3>3, ServerFacts DEF IInv, ShutdownInv
  <2>8. GraceIsGiven'
    BY <1>1, <2>1 DEF IInv, GraceIsGiven
  <2> QED
    BY <1>1, <2>1, <2>6, <2>7, <2>8, ToolsStay DEF IInv
<1> QED
  BY <1>2, <1>3 DEF Listen

LEMMA ConnectKeeps ==
  ASSUME IInv, NEW c \in Conns, NEW s \in ServerSet, NEW kind \in {"call", "stream"},
         Connect(c, s, kind)
  PROVE  IInv'
<1> DEFINE new == [server |-> s, kind |-> kind, state |-> "open"]
<1>1. /\ conns[c] = None /\ listener[s] = "open" /\ exit = None
      /\ conns' = [conns EXCEPT ![c] = new]
      /\ UNCHANGED <<start, file, main, cfg, tools, listener, signal, grace, exit>>
  BY DEF Connect
<1>2. conns \in [Conns -> ConnType \cup {None}] /\ new \in ConnType
  BY DEF IInv, ShutdownInv, ConnType
<1>3. conns' \in [Conns -> ConnType \cup {None}] /\ conns'[c] = new
  BY <1>1, <1>2
<1>4. \A d \in Conns : d # c => conns'[d] = conns[d]
  BY <1>1, <1>2
<1>5. \A d \in Conns : Open(d)' => (conns'[d].server = s \/ (Open(d) /\ conns'[d] = conns[d]))
  BY <1>3, <1>4 DEF Open
<1>6. TypeOK'
  <2>1. \A d \in Conns : Open(d)' => listener'[conns'[d].server] \in {"open", "closed"} /\ exit' = None
    BY <1>1, <1>5 DEF IInv, TypeOK
  <2> QED
    BY <1>1, <2>1 DEF IInv, TypeOK
<1>7. ShutdownInv'
  <2>1. \A r \in ServerSet : Drained(r) /\ r # s => Drained(r)'
    BY <1>5 DEF Drained
  <2>2. \A r \in ServerSet : Closed(r) => r # s
    BY <1>1 DEF Closed
  <2>3. \A r \in ServerSet : Closed(r)' = Closed(r)
    BY <1>1 DEF Closed
  <2> QED
    BY <1>1, <1>3, <2>1, <2>2, <2>3, ServerFacts DEF IInv, ShutdownInv
<1>8. GraceIsGiven'
  <2> SUFFICES ASSUME NEW d \in Conns, (conns[d] # None /\ conns[d].state = "cut")'
               PROVE  exit' = 1 \/ (signal /\ grace = 0)'
    BY DEF GraceIsGiven
  <2>1. d # c
    BY <1>3
  <2> QED
    BY <1>1, <1>4, <2>1 DEF IInv, GraceIsGiven
<1> QED
  BY <1>1, <1>6, <1>7, <1>8, ToolsStay DEF IInv

LEMMA FinishKeeps == ASSUME IInv, NEW c \in Conns, Finish(c) PROVE IInv'
<1>1. /\ Open(c) /\ conns' = [conns EXCEPT ![c].state = "done"]
      /\ UNCHANGED <<start, file, main, cfg, tools, listener, signal, grace, exit>>
  BY DEF Finish
<1>2. conns \in [Conns -> ConnType \cup {None}] /\ conns[c] \in ConnType
  BY <1>1 DEF IInv, ShutdownInv, Open
<1>3. conns'[c] \in ConnType /\ conns'[c].state = "done"
  BY <1>1, <1>2 DEF ConnType
<1>4. \A d \in Conns : d # c => conns'[d] = conns[d]
  BY <1>1, <1>2
<1>5. conns' \in [Conns -> ConnType \cup {None}]
  BY <1>1, <1>2, <1>3, <1>4
<1>6. \A d \in Conns : Open(d)' => Open(d) /\ conns'[d] = conns[d]
  BY <1>3, <1>4 DEF Open
<1>7. TypeOK'
  <2>1. \A d \in Conns : Open(d)' => listener'[conns'[d].server] \in {"open", "closed"} /\ exit' = None
    BY <1>1, <1>6 DEF IInv, TypeOK
  <2> QED
    BY <1>1, <2>1 DEF IInv, TypeOK
<1>8. ShutdownInv'
  <2>1. \A r \in ServerSet : Drained(r) => Drained(r)'
    BY <1>6 DEF Drained
  <2>2. \A r \in ServerSet : Closed(r)' = Closed(r)
    BY <1>1 DEF Closed
  <2> QED
    BY <1>1, <1>5, <2>1, <2>2, ServerFacts DEF IInv, ShutdownInv
<1>9. GraceIsGiven'
  <2> SUFFICES ASSUME NEW d \in Conns, (conns[d] # None /\ conns[d].state = "cut")'
               PROVE  exit' = 1 \/ (signal /\ grace = 0)'
    BY DEF GraceIsGiven
  <2>1. d # c
    BY <1>3
  <2> QED
    BY <1>1, <1>4, <2>1 DEF IInv, GraceIsGiven
<1> QED
  BY <1>1, <1>7, <1>8, <1>9, ToolsStay DEF IInv

LEMMA SignalKeeps == ASSUME IInv, Signal PROVE IInv'
<1>1. /\ start.transport = "http" /\ exit = None /\ ~signal
      /\ UNCHANGED <<start, file, cfg, tools, grace>>
  BY DEF Signal
<1>2. CASE main \in {"load", "configured", "expose", "virtual", "registered"}
  <2>1. Exit(143) /\ UNCHANGED signal /\ main \in Early
    BY <1>2 DEF Signal, Early
  <2> QED
    BY <1>1, <2>1, EarlyFacts, ExitKeeps
<1>3. CASE main \notin {"load", "configured", "expose", "virtual", "registered"}
  <2>1. signal' = TRUE /\ UNCHANGED <<main, conns, exit, listener>>
    BY <1>3 DEF Signal
  <2>2. \A c \in Conns : Open(c)' = Open(c)
    BY <2>1 DEF Open
  <2>3. TypeOK'
    BY <1>1, <2>1, <2>2 DEF IInv, TypeOK
  <2>4. ShutdownInv'
    BY <1>1, <2>1, <2>2 DEF IInv, ShutdownInv, Closed, Drained
  <2>5. GraceIsGiven'
    BY <1>1, <2>1 DEF IInv, GraceIsGiven
  <2> QED
    BY <1>1, <2>1, <2>3, <2>4, <2>5, ToolsStay DEF IInv
<1> QED
  BY <1>2, <1>3

\* A server that is closed keeps the requests it has.
LEMMA CloseFacts ==
  ASSUME IInv, NEW s \in ServerSet
  PROVE  /\ Close(s) \in [ServerSet -> {"off", "starting", "open", "failed", "closed"}]
         /\ Close(s)[s] \in {"off", "closed"}
         /\ \A r \in ServerSet : r # s => Close(s)[r] = listener[r]
         /\ \A r \in ServerSet : listener[r] \in {"open", "closed"} => Close(s)[r] \in {"open", "closed"}
<1>1. listener \in [ServerSet -> {"off", "starting", "open", "failed", "closed"}]
  BY DEF IInv, TypeOK, ServerSet
<1> QED
  BY <1>1 DEF Close

\* An open request is at a server that has been started and not failed.
LEMMA OpenFacts ==
  ASSUME IInv, NEW c \in Conns, Open(c)
  PROVE  /\ conns[c] \in ConnType /\ conns[c].server \in ServerSet
         /\ listener[conns[c].server] \in {"open", "closed"} /\ exit = None
BY DEF IInv, TypeOK, ShutdownInv, Open, ConnType

LEMMA BeginShutdownKeeps == ASSUME IInv, BeginShutdown PROVE IInv'
<1>1. /\ main = "serving" /\ signal /\ main' = "mcp" /\ listener' = Close("mcp")
      /\ UNCHANGED <<start, file, cfg, tools, conns, signal, grace, exit>>
  BY DEF BeginShutdown
<1>2. \A c \in Conns : Open(c)' = Open(c)
  BY <1>1 DEF Open
<1>3. TypeOK'
  <2>1. \A c \in Conns : Open(c)' => listener'[conns'[c].server] \in {"open", "closed"} /\ exit' = None
    BY <1>1, <1>2, OpenFacts, CloseFacts, ServerFacts
  <2>2. listener' \in [ServerSet -> {"off", "starting", "open", "failed", "closed"}]
    BY <1>1, CloseFacts, ServerFacts
  <2> QED
    BY <1>1, <2>1, <2>2, ServerFacts DEF IInv, TypeOK, Places, ServerSet
<1>4. ShutdownInv'
  <2>1. Closed("mcp")'
    BY <1>1, CloseFacts, ServerFacts DEF Closed
  <2> QED
    BY <1>1, <2>1 DEF IInv, ShutdownInv, Early
<1>5. GraceIsGiven'
  BY <1>1 DEF IInv, GraceIsGiven
<1> QED
  BY <1>1, <1>3, <1>4, <1>5, ToolsAreOver DEF IInv

\* When a server's time is over its requests are cut, and no other's.
LEMMA CutFacts ==
  ASSUME IInv, NEW s \in ServerSet, signal, Drained(s) \/ grace = 0,
         conns' = [c \in Conns |-> IF Open(c) /\ conns[c].server = s
                                   THEN [conns[c] EXCEPT !.state = "cut"] ELSE conns[c]],
         UNCHANGED <<signal, grace, exit>>
  PROVE  /\ conns' \in [Conns -> ConnType \cup {None}]
         /\ \A d \in Conns : Open(d)' => /\ Open(d) /\ conns'[d] = conns[d]
                                         /\ conns[d].server # s
         /\ GraceIsGiven'
<1>1. ASSUME NEW c \in Conns, Open(c), conns[c].server = s
      PROVE  conns'[c] \in ConnType /\ conns'[c].state = "cut" /\ grace = 0
  BY <1>1, OpenFacts DEF ConnType, Drained
<1>2. ASSUME NEW c \in Conns, ~(Open(c) /\ conns[c].server = s)
      PROVE  conns'[c] = conns[c]
  BY <1>2
<1>3. conns' \in [Conns -> ConnType \cup {None}]
  BY <1>1, <1>2 DEF IInv, ShutdownInv
<1>4. \A d \in Conns : Open(d)' => Open(d) /\ conns'[d] = conns[d] /\ conns[d].server # s
  BY <1>1, <1>2 DEF Open
<1>5. GraceIsGiven'
  <2> SUFFICES ASSUME NEW c \in Conns, (conns[c] # None /\ conns[c].state = "cut")'
               PROVE  exit' = 1 \/ (signal /\ grace = 0)'
    BY DEF GraceIsGiven
  <2>1. CASE Open(c) /\ conns[c].server = s
    BY <1>1, <2>1
  <2>2. CASE ~(Open(c) /\ conns[c].server = s)
    BY <1>2, <2>2 DEF IInv, GraceIsGiven
  <2> QED
    BY <2>1, <2>2
<1> QED
  BY <1>3, <1>4, <1>5

LEMMA ShutdownKeeps == ASSUME IInv, NEW i \in DOMAIN Servers, Shutdown(i) PROVE IInv'
<1> DEFINE s == Servers[i]
<1>1. /\ main = s /\ s \in ServerSet
      /\ Drained(s) \/ grace = 0
      /\ conns' = [c \in Conns |-> IF Open(c) /\ conns[c].server = s
                                   THEN [conns[c] EXCEPT !.state = "cut"] ELSE conns[c]]
      /\ UNCHANGED <<start, file, cfg, tools, signal, grace, exit>>
  BY DEF Shutdown, TimeIsOver, ServerSet
<1>2. \/ s = "pprof" /\ main' = "deferred" /\ UNCHANGED listener
      \/ s = "mcp" /\ main' = "mgmt" /\ listener' = Close("mgmt")
      \/ s = "mgmt" /\ main' = "pprof" /\ listener' = Close("pprof")
  <2>1. CASE i = 1
    BY <2>1, ServerFacts DEF Shutdown
  <2>2. CASE i = 2
    BY <2>2, ServerFacts DEF Shutdown
  <2>3. CASE i = 3
    BY <2>3, ServerFacts DEF Shutdown
  <2> QED
    BY <2>1, <2>2, <2>3, ServerFacts
<1> HIDE DEF s
<1>3. signal
  BY <1>1, <1>2 DEF IInv, ShutdownInv
<1>4. /\ conns' \in [Conns -> ConnType \cup {None}]
      /\ \A d \in Conns : Open(d)' => /\ Open(d) /\ conns'[d] = conns[d]
                                      /\ conns[d].server # s
      /\ GraceIsGiven'
  BY <1>1, <1>3, CutFacts
<1>5. /\ listener' \in [ServerSet -> {"off", "starting", "open", "failed", "closed"}]
      /\ \A r \in ServerSet : listener[r] \in {"open", "closed"} => listener'[r] \in {"open", "closed"}
      /\ \A r \in ServerSet : Closed(r) => Closed(r)'
      /\ \A r \in ServerSet : main' = r => Closed(r)'
  <2>1. CASE UNCHANGED listener /\ main' = "deferred"
    BY <2>1, ServerFacts DEF IInv, TypeOK, ServerSet, Closed
  <2>2. CASE \E r \in ServerSet : main' = r /\ listener' = Close(r)
    <3>1. PICK r \in ServerSet : main' = r /\ listener' = Close(r)
      BY <2>2
    <3>2. Closed(r)'
      BY <3>1, CloseFacts DEF Closed
    <3> QED
      BY <3>1, <3>2, CloseFacts DEF Closed
  <2> QED
    BY <1>2, <2>1, <2>2, ServerFacts
<1>6. TypeOK'
  <2>1. \A c \in Conns : Open(c)' => listener'[conns'[c].server] \in {"open", "closed"} /\ exit' = None
    BY <1>1, <1>4, <1>5, OpenFacts
  <2>2. main' \in Places \cup ServerSet /\ (main' = "gone" <=> main = "gone")
    BY <1>1, <1>2, ServerFacts DEF Places
  <2> QED
    BY <1>1, <1>5, <2>1, <2>2 DEF IInv, TypeOK, ServerSet
<1>7. ShutdownInv'
  <2>1. \A r \in ServerSet : Drained(r) => Drained(r)'
    BY <1>4 DEF Drained
  <2>2. Drained(s)'
    BY <1>4 DEF Drained
  <2>3. signal' /\ main' \in {"mgmt", "pprof", "deferred"} /\ main' \notin Early
    BY <1>1, <1>2, <1>3 DEF Early
  <2>4. Closed("mcp") /\ (s \in {"mgmt", "pprof"} => Drained("mcp") /\ Closed("mgmt"))
        /\ (s = "pprof" => Drained("mgmt") /\ Closed("pprof"))
    BY <1>1, <1>2 DEF IInv, ShutdownInv
  <2>5. CASE s = "mcp"
    BY <1>2, <1>4, <1>5, <2>1, <2>2, <2>3, <2>4, <2>5, ServerFacts DEF ShutdownInv
  <2>6. CASE s = "mgmt"
    BY <1>2, <1>4, <1>5, <2>1, <2>2, <2>3, <2>4, <2>6, ServerFacts DEF ShutdownInv
  <2>7. CASE s = "pprof"
    BY <1>2, <1>4, <1>5, <2>1, <2>2, <2>3, <2>4, <2>7, ServerFacts DEF ShutdownInv
  <2> QED
    BY <1>2, <2>5, <2>6, <2>7
<1> QED
  BY <1>2, <1>4, <1>6, <1>7, ToolsAreOver DEF IInv

LEMMA TickKeeps == ASSUME IInv, Tick PROVE IInv'
<1>1. /\ grace > 0 /\ grace' = grace - 1
      /\ UNCHANGED <<start, file, main, cfg, tools, listener, conns, signal, exit>>
  BY DEF Tick
<1>2. grace' \in 0 .. Grace
  <2>1. grace \in 0 .. Grace
    BY DEF IInv, TypeOK
  <2> QED
    BY <1>1, <2>1, ServerAssumption
<1>3. \A c \in Conns : Open(c)' = Open(c)
  BY <1>1 DEF Open
<1>4. TypeOK'
  BY <1>1, <1>2, <1>3 DEF IInv, TypeOK
<1>5. ShutdownInv'
  BY <1>1, <1>3 DEF IInv, ShutdownInv, Closed, Drained
<1>6. GraceIsGiven'
  <2>1. grace # 0
    BY <1>1
  <2> QED
    BY <1>1, <2>1 DEF IInv, GraceIsGiven
<1> QED
  BY <1>1, <1>4, <1>5, <1>6, ToolsStay DEF IInv

LEMMA EndServerKeeps == ASSUME IInv, EndServer PROVE IInv'
<1>1. /\ main = "deferred" /\ Exit(0)
      /\ UNCHANGED <<start, file, cfg, tools, signal, grace>>
  BY DEF EndServer
<1>2. \A c \in Conns : ~Open(c)
  BY <1>1, OpenFacts, ServerFacts DEF IInv, ShutdownInv, Drained
<1>3. exit = None
  BY <1>1 DEF IInv, TypeOK
<1> QED
  BY <1>1, <1>2, <1>3, ExitKeeps DEF IInv, TypeOK

-----------------------------------------------------------------------------
(* The file, the initial state, and every step.                            *)

LEMMA EditKeeps == ASSUME IInv, Edit PROVE IInv'
<1>1. /\ main \in {"expose", "virtual", "list", "list virtual", "call"}
      /\ file' = start.edited
      /\ UNCHANGED <<start, main, cfg, tools, listener, conns, signal, grace, exit>>
  BY DEF Edit
<1>2. \A c \in Conns : Open(c)' = Open(c)
  BY <1>1 DEF Open
<1>3. TypeOK'
  BY <1>1, <1>2 DEF IInv, TypeOK
<1>4. ShutdownInv' /\ GraceIsGiven'
  BY <1>1, <1>2 DEF IInv, ShutdownInv, Closed, Drained, GraceIsGiven
<1>5. Versions \subseteq Versions' /\ \A f : Readings(f)' = Readings(f)
  BY <1>1, ReadingsStay DEF IInv
<1>6. cfg' \in Readings(start.file)'
  BY <1>1, <1>5 DEF IInv, ConfigInv
<1>7. ConfigInv'
  <2>1. \A c : NativeTools(c)' = NativeTools(c)
    BY DEF NativeTools
  <2>2. main = "list virtual" =>
          \E f \in Versions' : \E c \in Readings(f)' : tools' = NativeTools(c)
    BY <1>1, <1>5 DEF IInv, ConfigInv
  <2>3. main' \notin {"load", "configured"}
    BY <1>1
  <2>4. main = "virtual" => ~Conflict(cfg) /\ tools = NativeTools(cfg)
    BY DEF IInv, ConfigInv
  <2> QED
    BY <1>1, <1>6, <2>1, <2>2, <2>3, <2>4 DEF ConfigInv
<1> QED
  BY <1>1, <1>3, <1>4, <1>7 DEF IInv, ToolsAreAsConfigured

LEMMA StutterKeeps == ASSUME IInv, UNCHANGED vars PROVE IInv'
<1>1. UNCHANGED <<start, file, main, cfg, tools, listener, conns, signal, grace, exit>>
  BY DEF vars
<1>2. \A c \in Conns : Open(c)' = Open(c)
  BY <1>1 DEF Open
<1>3. TypeOK'
  BY <1>1, <1>2 DEF IInv, TypeOK
<1>4. ShutdownInv' /\ GraceIsGiven'
  BY <1>1, <1>2 DEF IInv, ShutdownInv, Closed, Drained, GraceIsGiven
<1> QED
  BY <1>1, <1>3, <1>4, ToolsStay DEF IInv

LEMMA InitHolds == ASSUME Init PROVE IInv
<1>1. \A c \in Conns : ~Open(c)
  BY DEF Init, Open
<1>2. TypeOK
  BY <1>1, ZeroFacts, ServerAssumption DEF Init, TypeOK, Places
<1>3. ShutdownInv
  BY DEF Init, ShutdownInv, Early, ServerSet
<1>4. ConfigInv /\ ToolsAreAsConfigured /\ GraceIsGiven
  BY DEF Init, ConfigInv, ToolsAreAsConfigured, GraceIsGiven
<1> QED
  BY <1>2, <1>3, <1>4 DEF IInv

LEMMA MainKeeps == ASSUME IInv, Main PROVE IInv'
BY LoadKeeps, ConfigureKeeps, RegisterNativeKeeps, RegisterVirtualKeeps, ListNativeKeeps,
   ListVirtualKeeps, CallNativeKeeps, CallVirtualKeeps, EndCommandKeeps, ServeStdioKeeps,
   NotifyContextKeeps, StartServersKeeps, BeginShutdownKeeps, ShutdownKeeps, EndServerKeeps
   DEF Main, Serve

LEMMA StepKeeps == ASSUME IInv, [Next]_vars PROVE IInv'
<1>1. DOMAIN listener = ServerSet
  BY DEF IInv, TypeOK, ServerSet
<1>2. CASE Main
  BY <1>2, MainKeeps
<1>3. CASE Edit \/ Signal \/ Tick
  BY <1>3, EditKeeps, SignalKeeps, TickKeeps
<1>4. CASE \E s \in DOMAIN listener : Listen(s)
  BY <1>1, <1>4, ListenKeeps
<1>5. CASE \E c \in Conns : \/ Finish(c)
                            \/ \E s \in DOMAIN listener, kind \in {"call", "stream"} : Connect(c, s, kind)
  BY <1>1, <1>5, FinishKeeps, ConnectKeeps
<1>6. CASE UNCHANGED vars
  BY <1>6, StutterKeeps
<1> QED
  BY <1>2, <1>3, <1>4, <1>5, <1>6 DEF Next

LEMMA Inductive == Spec => []IInv
<1>1. Init => IInv
  BY InitHolds
<1>2. IInv /\ [Next]_vars => IInv'
  BY StepKeeps
<1> QED
  BY <1>1, <1>2, PTL DEF Spec

-----------------------------------------------------------------------------
\* The state of a process has its type, and an open request is at a server
\* that was started (templates/main.templ).
THEOREM TypeCorrect == Spec => []TypeOK
<1>1. IInv => TypeOK
  BY DEF IInv
<1> QED
  BY <1>1, Inductive, PTL

\* Serving, listing and calling offer the tools that the documentation says,
\* for every configuration that loading can give and every edit of the file
\* (templates/server.templ, templates/cli.templ).
THEOREM ToolsConfigured == Spec => []ToolsAreAsConfigured
<1>1. IInv => ToolsAreAsConfigured
  BY DEF IInv
<1> QED
  BY <1>1, Inductive, PTL

\* No request of any of the three servers is cut before the grace period is
\* over, but by the failure of a listener (templates/main.templ).
THEOREM GraceGiven == Spec => []GraceIsGiven
<1>1. IInv => GraceIsGiven
  BY DEF IInv
<1> QED
  BY <1>1, Inductive, PTL

-----------------------------------------------------------------------------
(* The walks: their definitions recur over an interval, and exist.          *)

\* Every nonempty set of natural numbers has a least element.
LEMMA LeastNumber ==
  ASSUME NEW T, T \subseteq Nat, T # {}
  PROVE  \E x \in T : \A y \in T : x <= y
<1>1. \E x \in T : \A y \in T : ~(<<y, x>> \in OpToRel(<, Nat))
  BY NatLessThanWellFounded, WFMin
<1>2. \A x, y \in T : y < x => <<y, x>> \in OpToRel(<, Nat)
  BY Zenon DEF OpToRel
<1>3. \A x, y \in T : ~(y < x) => x <= y
  OBVIOUS
<1> QED BY <1>1, <1>2, <1>3

\* The walk down is what its equation says.
LEMMA DownIs ==
  ASSUME NEW v, NEW path, Len(path) \in Nat
  PROVE  /\ Down(v, path)[0] = v
         /\ \A i \in 1 .. Len(path) :
              Down(v, path)[i] = Part(Deref(Down(v, path)[i - 1]), path[i])
<1> DEFINE n == Len(path)
           Walk(f, m) == f = [i \in 0 .. m |-> IF i = 0 THEN v ELSE Part(Deref(f[i - 1]), path[i])]
           T == {m \in 0 .. n : \A f : ~Walk(f, m)}
<1>1. T = {}
  <2> SUFFICES ASSUME T # {} PROVE FALSE
    OBVIOUS
  <2>0. T \subseteq Nat
    OBVIOUS
  <2>1. PICK m \in T : \A k \in T : m <= k
    <3> HIDE DEF T
    <3> QED BY <2>0, LeastNumber, Zenon
  <2>2. m \in 0 .. n /\ \A f : ~Walk(f, m)
    BY <2>1
  <2>3. CASE m = 0
    <3> DEFINE g == [i \in 0 .. 0 |-> v]
    <3>1. g = [i \in 0 .. 0 |-> IF i = 0 THEN v ELSE Part(Deref(g[i - 1]), path[i])]
      OBVIOUS
    <3> QED BY <2>2, <2>3, <3>1
  <2>4. CASE m # 0
    <3>1. m - 1 \in 0 .. n /\ m - 1 \notin T
      BY <2>1, <2>2, <2>4
    <3>2. PICK f : Walk(f, m - 1)
      BY <3>1
    <3> DEFINE g == [i \in 0 .. m |-> IF i = m THEN Part(Deref(f[m - 1]), path[m]) ELSE f[i]]
    <3>3. \A i \in 0 .. m - 1 : f[i] = IF i = 0 THEN v ELSE Part(Deref(f[i - 1]), path[i])
      BY <3>2
    <3>4. \A i \in 0 .. m : g[i] = IF i = 0 THEN v ELSE Part(Deref(g[i - 1]), path[i])
      <4> TAKE i \in 0 .. m
      <4>1. CASE i = m
        <5>1. g[i] = Part(Deref(f[m - 1]), path[m])
          BY <4>1
        <5>2. g[m - 1] = f[m - 1]
          BY <2>2, <2>4
        <5> QED BY <2>4, <4>1, <5>1, <5>2
      <4>2. CASE i # m
        <5>1. i \in 0 .. m - 1 /\ g[i] = f[i]
          BY <2>2, <4>2
        <5>2. i # 0 => g[i - 1] = f[i - 1]
          BY <2>2, <5>1
        <5> QED BY <3>3, <5>1, <5>2
      <4> QED BY <4>1, <4>2
    <3>5. g = [i \in 0 .. m |-> IF i = 0 THEN v ELSE Part(Deref(g[i - 1]), path[i])]
      BY <3>4
    <3> HIDE DEF g
    <3> QED BY <2>2, <3>5
  <2> QED BY <2>3, <2>4
<1>2. \E f : Walk(f, n)
  BY <1>1
<1>3. Down(v, path) = CHOOSE f : Walk(f, n)
  BY DEF Down
<1>4. Walk(Down(v, path), n)
  BY <1>2, <1>3
<1> QED BY <1>4

\* The walk back is what its equation says.
LEMMA UpIs ==
  ASSUME NEW v, NEW path, NEW val, Len(path) \in Nat
  PROVE  /\ Up(v, path, val)[Len(path)] = setLeafValue(Down(v, path)[Len(path)], val)
         /\ \A i \in 0 .. Len(path) - 1 :
              LET w == Deref(Down(v, path)[i])
              IN  Up(v, path, val)[i] =
                    Onto(Down(v, path)[i], IF HasPart(w, path[i + 1])
                                           THEN WithPart(w, path[i + 1], Up(v, path, val)[i + 1])
                                           ELSE w)
<1> DEFINE n == Len(path)
           down == Down(v, path)
           Last == setLeafValue(down[n], val)
           Back(i, x) == Onto(down[i], IF HasPart(Deref(down[i]), path[i + 1])
                                       THEN WithPart(Deref(down[i]), path[i + 1], x)
                                       ELSE Deref(down[i]))
           Walk(f, m) == f = [i \in m .. n |-> IF i = n THEN Last ELSE Back(i, f[i + 1])]
           NoWalk(m) == \A f : ~Walk(f, m)
           T == {k \in 0 .. n : NoWalk(n - k)}
<1>1. Up(v, path, val) = CHOOSE f : Walk(f, 0)
  BY DEF Up
<1> HIDE DEF down, Last, Back
<1>2. T = {}
  <2> SUFFICES ASSUME T # {} PROVE FALSE
    OBVIOUS
  <2>0. T \subseteq Nat
    OBVIOUS
  <2>1. PICK k \in T : \A j \in T : k <= j
    <3> HIDE DEF T
    <3> QED BY <2>0, LeastNumber, Zenon
  <2>2. PICK m \in 0 .. n : m = n - k
    BY <2>1
  <2>3. k \in 0 .. n /\ NoWalk(m)
    BY <2>1, <2>2
  <2> HIDE DEF NoWalk
  <2>4. CASE k = 0
    <3> DEFINE g == [i \in n .. n |-> Last]
    <3>1. g = [i \in n .. n |-> IF i = n THEN Last ELSE Back(i, g[i + 1])]
      OBVIOUS
    <3>2. m = n
      BY <2>2, <2>4
    <3> HIDE DEF g
    <3> QED BY <2>3, <3>1, <3>2 DEF NoWalk
  <2>5. CASE k # 0
    <3>1. k - 1 \in 0 .. n /\ n - (k - 1) = m + 1 /\ m \in 0 .. n - 1
      BY <2>2, <2>3, <2>5
    <3>2. k - 1 \notin T
      BY <2>1, <2>3, <2>5
    <3>3. ~NoWalk(m + 1)
      BY <3>1, <3>2
    <3>4. PICK f : Walk(f, m + 1)
      BY <3>3 DEF NoWalk
    <3> DEFINE g == [i \in m .. n |-> IF i = m THEN Back(m, f[m + 1]) ELSE f[i]]
    <3>5. \A i \in m + 1 .. n : f[i] = IF i = n THEN Last ELSE Back(i, f[i + 1])
      BY <3>4
    <3>6. \A i \in m .. n : g[i] = IF i = n THEN Last ELSE Back(i, g[i + 1])
      <4> TAKE i \in m .. n
      <4>1. CASE i = m
        BY <3>1, <4>1
      <4>2. CASE i # m
        <5>1. i \in m + 1 .. n /\ g[i] = f[i]
          BY <3>1, <4>2
        <5>2. i # n => g[i + 1] = f[i + 1]
          BY <3>1, <5>1
        <5> QED BY <3>5, <5>1, <5>2
      <4> QED BY <4>1, <4>2
    <3>7. g = [i \in m .. n |-> IF i = n THEN Last ELSE Back(i, g[i + 1])]
      BY <3>6
    <3> HIDE DEF g
    <3> QED BY <2>3, <3>7 DEF NoWalk
  <2> QED BY <2>4, <2>5
<1>3. \E f : Walk(f, 0)
  <2>1. n \notin T /\ n \in 0 .. n /\ n - n = 0
    BY <1>2
  <2> QED BY <2>1
<1>4. Walk(Up(v, path, val), 0)
  BY <1>1, <1>3
<1>5. /\ Up(v, path, val)[n] = Last
      /\ \A i \in 0 .. n - 1 : Up(v, path, val)[i] = Back(i, Up(v, path, val)[i + 1])
  BY <1>4
<1> QED BY <1>5 DEF Back, Last, down

\* Nor does the loop over the variables.
LEMMA AfterIs ==
  ASSUME NEW c, NEW environ, NEW winner, Len(environ) \in Nat
  PROVE  LET after == After(c, environ, winner)
         IN  /\ after[0] = c
             /\ \A i \in 1 .. Len(environ) :
                  LET p == Path(environ[i].path, winner)
                  IN  after[i] = IF after[i - 1] = Panicked \/ Panics(after[i - 1], p, environ[i].value)
                                 THEN Panicked ELSE setByPath(after[i - 1], p, environ[i].value)
<1> DEFINE n == Len(environ)
           Step(i, x) ==
             IF x = Panicked \/ Panics(x, Path(environ[i].path, winner), environ[i].value)
             THEN Panicked ELSE setByPath(x, Path(environ[i].path, winner), environ[i].value)
           Walk(f, m) == f = [i \in 0 .. m |-> IF i = 0 THEN c ELSE Step(i, f[i - 1])]
           T == {m \in 0 .. n : \A f : ~Walk(f, m)}
<1>1. After(c, environ, winner) = CHOOSE f : Walk(f, n)
  BY DEF After
<1> HIDE DEF Step
<1>2. T = {}
  <2> SUFFICES ASSUME T # {} PROVE FALSE
    OBVIOUS
  <2>0. T \subseteq Nat
    OBVIOUS
  <2>1. PICK m \in T : \A k \in T : m <= k
    <3> HIDE DEF T
    <3> QED BY <2>0, LeastNumber, Zenon
  <2>2. m \in 0 .. n /\ \A f : ~Walk(f, m)
    BY <2>1
  <2>3. CASE m = 0
    <3> DEFINE g == [i \in 0 .. 0 |-> c]
    <3>1. g = [i \in 0 .. 0 |-> IF i = 0 THEN c ELSE Step(i, g[i - 1])]
      OBVIOUS
    <3> QED BY <2>2, <2>3, <3>1
  <2>4. CASE m # 0
    <3>1. m - 1 \in 0 .. n /\ m - 1 \notin T
      BY <2>1, <2>2, <2>4
    <3>2. PICK f : Walk(f, m - 1)
      BY <3>1
    <3> DEFINE g == [i \in 0 .. m |-> IF i = m THEN Step(m, f[m - 1]) ELSE f[i]]
    <3>3. \A i \in 0 .. m - 1 : f[i] = IF i = 0 THEN c ELSE Step(i, f[i - 1])
      BY <3>2
    <3>4. \A i \in 0 .. m : g[i] = IF i = 0 THEN c ELSE Step(i, g[i - 1])
      <4> TAKE i \in 0 .. m
      <4>1. CASE i = m
        BY <2>2, <2>4, <4>1
      <4>2. CASE i # m
        <5>1. i \in 0 .. m - 1 /\ g[i] = f[i]
          BY <2>2, <4>2
        <5>2. i # 0 => g[i - 1] = f[i - 1]
          BY <2>2, <5>1
        <5> QED BY <3>3, <5>1, <5>2
      <4> QED BY <4>1, <4>2
    <3>5. g = [i \in 0 .. m |-> IF i = 0 THEN c ELSE Step(i, g[i - 1])]
      BY <3>4
    <3> HIDE DEF g
    <3> QED BY <2>2, <3>5
  <2> QED BY <2>3, <2>4
<1>3. \E f : Walk(f, n)
  BY <1>2
<1>4. Walk(After(c, environ, winner), n)
  BY <1>1, <1>3
<1>5. LET after == After(c, environ, winner)
      IN  after[0] = c /\ \A i \in 1 .. n : after[i] = Step(i, after[i - 1])
  BY <1>4
<1> QED BY <1>5 DEF Step

-----------------------------------------------------------------------------
(* One node.                                                               *)

\* A pointer does not point to a pointer, so one step gives a value with parts.
LEMMA DerefPlain ==
  ASSUME NEW v, IsNode(v)
  PROVE  IsPlain(Deref(v))
<1>1. CASE v.kind = "ptr"
  BY <1>1 DEF IsNode, IsPlain, Deref
<1>2. CASE v.kind # "ptr"
  BY <1>2 DEF IsNode, Deref
<1> QED BY <1>1, <1>2

\* What is put behind a pointer is found behind it.
LEMMA OntoNode ==
  ASSUME NEW v, IsNode(v), NEW w, IsPlain(w)
  PROVE  IsNode(Onto(v, w)) /\ Deref(Onto(v, w)) = w
<1>1. w.kind # "ptr"
  BY DEF IsPlain
<1>2. CASE v.kind = "ptr"
  <2>1. v = Pointer(v.zero, v.elems)
    BY <1>2 DEF IsNode, IsPlain
  <2>2. Onto(v, w) = Pointer(v.zero, <<w>>)
    BY <1>2, <2>1 DEF Onto, Pointer
  <2>3. Pointee(Pointer(v.zero, <<w>>)) = w
    BY DEF Pointee, Pointer
  <2> QED BY <2>2, <2>3 DEF IsNode, Deref, Pointer
<1>3. CASE v.kind # "ptr"
  BY <1>1, <1>3 DEF IsNode, Onto, Deref
<1> QED BY <1>2, <1>3

\* Assigning changes leaves only, and keeps the kind.
LEMMA Assigned ==
  ASSUME NEW w, IsPlain(w), NEW val
  PROVE  /\ IsPlain(Assign(w, val)) /\ Assign(w, val).kind = w.kind
         /\ Takes(w, val) => IsLeaf(w) /\ Assign(w, val).value = Taken(w, val)
         /\ ~Takes(w, val) => Assign(w, val) = w
<1>1. CASE Takes(w, val)
  <2>1. IsLeaf(w) /\ w = [kind |-> w.kind, value |-> w.value]
    BY <1>1 DEF Takes, IsLeaf, IsPlain
  <2>2. Assign(w, val) = [kind |-> w.kind, value |-> Taken(w, val)]
    BY <1>1, <2>1 DEF Assign
  <2> HIDE DEF Taken
  <2> QED BY <1>1, <2>1, <2>2 DEF IsLeaf, IsPlain
<1>2. CASE ~Takes(w, val)
  BY <1>2 DEF Assign
<1> QED BY <1>1, <1>2

\* A function over an interval is a sequence of that length.
LEMMA SeqOf ==
  ASSUME NEW m \in Nat, NEW S, NEW e \in [1 .. m -> S]
  PROVE  e \in Seq(S) /\ Len(e) = m
OBVIOUS

\* Putting a part into a node changes that part.
LEMMA PartPut ==
  ASSUME NEW w, IsPlain(w), NEW s, HasPart(w, s), NEW x
  PROVE  LET u == WithPart(w, s, x)
         IN  /\ IsPlain(u) /\ u.kind = w.kind /\ Part(u, s) = x
             /\ \A t : HasPart(u, t) <=> HasPart(w, t)
             /\ \A t : t # s /\ HasPart(w, t) => Part(u, t) = Part(w, t)
<1> DEFINE u == WithPart(w, s, x)
<1>1. CASE w.kind = "struct"
  <2>1. w = Struct(w.fields) /\ w.fields = [f \in DOMAIN w.fields |-> w.fields[f]]
    BY <1>1 DEF IsPlain
  <2>2. u = Struct([w.fields EXCEPT ![s] = x])
    BY <1>1, <2>1 DEF WithPart, Struct
  <2>3. u.kind = "struct" /\ u.fields = [w.fields EXCEPT ![s] = x]
    BY <2>2 DEF Struct
  <2>4. s \in DOMAIN w.fields /\ DOMAIN u.fields = DOMAIN w.fields
    BY <1>1, <2>3 DEF HasPart
  <2>5. u.fields[s] = x /\ \A t \in DOMAIN w.fields : t # s => u.fields[t] = w.fields[t]
    BY <2>1, <2>3, <2>4
  <2>6. IsPlain(u)
    BY <2>2, <2>3 DEF IsPlain
  <2>7. \A t : HasPart(w, t) => t \in DOMAIN w.fields
    BY <1>1 DEF HasPart
  <2>8. \A t : HasPart(u, t) <=> HasPart(w, t)
    BY <1>1, <2>3, <2>4 DEF HasPart
  <2>9. \A t : Part(u, t) = u.fields[t] /\ Part(w, t) = w.fields[t]
    BY <1>1, <2>3 DEF Part
  <2> QED BY <1>1, <2>3, <2>5, <2>6, <2>7, <2>8, <2>9
<1>2. CASE w.kind = "map"
  <2>1. w = Map(w.zero, w.entries) /\ w.entries = [f \in DOMAIN w.entries |-> w.entries[f]]
    BY <1>2 DEF IsPlain
  <2>2. u = Map(w.zero, [w.entries EXCEPT ![s] = x])
    BY <1>2, <2>1 DEF WithPart, Map
  <2>3. u.kind = "map" /\ u.zero = w.zero /\ u.entries = [w.entries EXCEPT ![s] = x]
    BY <2>2 DEF Map
  <2>4. s \in DOMAIN w.entries /\ DOMAIN u.entries = DOMAIN w.entries
    BY <1>2, <2>3 DEF HasPart
  <2>5. u.entries[s] = x /\ \A t \in DOMAIN w.entries : t # s => u.entries[t] = w.entries[t]
    BY <2>1, <2>3, <2>4
  <2>6. IsPlain(u)
    BY <2>2, <2>3 DEF IsPlain
  <2>7. \A t : HasPart(w, t) => t \in DOMAIN w.entries
    BY <1>2 DEF HasPart
  <2>8. \A t : HasPart(u, t) <=> HasPart(w, t)
    BY <1>2, <2>3, <2>4 DEF HasPart
  <2>9. \A t : Part(u, t) = u.entries[t] /\ Part(w, t) = w.entries[t]
    BY <1>2, <2>3 DEF Part
  <2> QED BY <1>2, <2>3, <2>5, <2>6, <2>7, <2>8, <2>9
<1>3. CASE w.kind = "slice"
  <2> DEFINE i == Index[s]
             n == Len(w.elems)
             m == IF i < n THEN n ELSE i + 1
             e == [j \in 1 .. m |-> IF j = i + 1 THEN x ELSE Elem(w, j - 1)]
  <2>1. w = Slice(w.zero, w.elems) /\ n \in Nat /\ w.elems = [j \in 1 .. n |-> w.elems[j]]
    BY <1>3 DEF IsPlain
  <2>2. s \in DOMAIN Index /\ i \in Nat
    BY <1>3, ServerAssumption DEF HasPart
  <2>3. m \in Nat /\ i + 1 \in 1 .. m /\ n <= m
    BY <2>1, <2>2
  <2>4. u = Slice(w.zero, e)
    BY <1>3, <2>1 DEF WithPart, Slice
  <2>5. u.kind = "slice" /\ u.zero = w.zero /\ u.elems = e
    BY <2>4 DEF Slice
  <2>6. e \in Seq({e[j] : j \in 1 .. m}) /\ Len(e) = m
    <3>1. e \in [1 .. m -> {e[j] : j \in 1 .. m}]
      OBVIOUS
    <3> HIDE DEF e, m
    <3> QED BY <2>3, <3>1, SeqOf, Zenon
  <2>7. IsPlain(u)
    <3>1. e = [j \in 1 .. m |-> e[j]]
      OBVIOUS
    <3> HIDE DEF e, m
    <3> QED BY <2>3, <2>4, <2>5, <2>6, <3>1 DEF IsPlain
  <2>8. \A t : HasPart(u, t) <=> HasPart(w, t)
    BY <1>3, <2>5 DEF HasPart
  <2>9. \A t : /\ Part(u, t) = IF Index[t] < m THEN e[Index[t] + 1] ELSE w.zero
               /\ Part(w, t) = Elem(w, Index[t])
    <3> HIDE DEF e, m
    <3> QED BY <1>3, <2>5, <2>6 DEF Part, Elem
  <2>10. Part(u, s) = x
    <3>1. i < m
      BY <2>2, <2>3
    <3>2. e[i + 1] = x
      BY <2>3
    <3> HIDE DEF e, m
    <3> QED BY <2>9, <3>1, <3>2
  <2>11. \A t : t # s /\ HasPart(w, t) => Part(u, t) = Part(w, t)
    <3> SUFFICES ASSUME NEW t, t # s, HasPart(w, t) PROVE Part(u, t) = Part(w, t)
      OBVIOUS
    <3> DEFINE k == Index[t]
    <3>1. t \in DOMAIN Index /\ k \in Nat
      BY <1>3, ServerAssumption DEF HasPart
    <3>2. k # i
      BY <2>2, <3>1, ConfigAssumption
    <3>3. CASE k < m
      <4>1. k + 1 \in 1 .. m /\ k + 1 # i + 1 /\ (k + 1) - 1 = k
        BY <2>2, <2>3, <3>1, <3>2, <3>3
      <4>2. e[k + 1] = Elem(w, (k + 1) - 1)
        BY <4>1
      <4> QED BY <2>9, <3>3, <4>1, <4>2
    <3>4. CASE ~(k < m)
      <4>1. Elem(w, k) = w.zero
        BY <2>1, <2>2, <2>3, <3>1, <3>4 DEF Elem
      <4> QED BY <2>9, <3>4, <4>1
    <3> QED BY <3>3, <3>4
  <2> HIDE DEF e, m, i
  <2> QED BY <1>3, <2>5, <2>7, <2>8, <2>10, <2>11
<1>4. w.kind \in {"struct", "map", "slice"}
  BY DEF HasPart
<1> QED BY <1>1, <1>2, <1>3, <1>4

\* A leaf has no parts.
LEMMA LeafParts ==
  ASSUME NEW v, IsLeaf(v), NEW t
  PROVE  ~HasPart(v, t)
BY DEF IsLeaf, HasPart

-----------------------------------------------------------------------------
(* Setting one place.                                                      *)

\* Nodes are Go values wherever there is a place to look at.
Sound(c) == \A q \in Paths : \A i \in 0 .. Len(q) : Reaches(c, q, i) => IsNode(Down(c, q)[i])

\* Two paths begin with the same segments.
Agree(p, q, i) == i <= Len(p) /\ \A j \in 1 .. i : p[j] = q[j]

\* A path is a sequence of segments.
LEMMA PathLen == ASSUME NEW q \in Paths PROVE Len(q) \in Nat /\ q \in Seq(STRING)
BY ConfigAssumption

\* A walk reaches one segment further if it finds the next.
LEMMA ReachesStep ==
  ASSUME NEW c, NEW q, NEW i \in Nat
  PROVE  /\ Reaches(c, q, 0)
         /\ Reaches(c, q, i + 1) <=> Reaches(c, q, i) /\ HasPart(Deref(Down(c, q)[i]), q[i + 1])
<1>1. Reaches(c, q, 0)
  BY DEF Reaches
<1>2. 1 .. i + 1 = (1 .. i) \cup {i + 1} /\ (i + 1) - 1 = i
  OBVIOUS
<1> QED BY <1>1, <1>2, Zenon DEF Reaches

\* What is found along q after p has been set, as long as the two paths agree and
\* when they do not any more.
SetSo(c, p, q, val, i) ==
  LET d == setByPath(c, p, val)
      old == Down(c, q)[i]
      new == Down(d, q)[i]
  IN  /\ Reaches(d, q, i) <=> Reaches(c, q, i)
      /\ Reaches(c, q, i) =>
           /\ IsNode(old) /\ IsNode(new) /\ Deref(new).kind = Deref(old).kind
           /\ ~Agree(p, q, i) => new = old
           /\ Agree(p, q, i) => new = Up(c, p, val)[i] /\ old = Down(c, p)[i]

\* What is put at a place on the way back.
LEMMA UpNode ==
  ASSUME NEW c, NEW p \in Paths, NEW val, NEW i \in 0 .. Len(p), IsNode(Down(c, p)[i])
  PROVE  LET old == Deref(Down(c, p)[i])
             up == Up(c, p, val)[i]
         IN  /\ IsNode(up) /\ Deref(up).kind = old.kind
             /\ i = Len(p) => Deref(up) = Assign(old, val)
             /\ i < Len(p) /\ ~HasPart(old, p[i + 1]) => Deref(up) = old
             /\ i < Len(p) /\ HasPart(old, p[i + 1]) =>
                  Deref(up) = WithPart(old, p[i + 1], Up(c, p, val)[i + 1])
<1> DEFINE v == Down(c, p)[i]
           old == Deref(v)
           up == Up(c, p, val)[i]
<1>1. Len(p) \in Nat
  BY PathLen
<1>2. IsPlain(old)
  BY DerefPlain
<1>3. CASE i = Len(p)
  <2>1. up = Onto(v, Assign(old, val))
    BY <1>1, <1>3, UpIs DEF setLeafValue
  <2>2. IsPlain(Assign(old, val)) /\ Assign(old, val).kind = old.kind
    BY <1>2, Assigned
  <2>3. IsNode(Onto(v, Assign(old, val))) /\ Deref(Onto(v, Assign(old, val))) = Assign(old, val)
    BY <2>2, OntoNode
  <2> HIDE DEF v, old, up
  <2>4. ~(i < Len(p))
    BY <1>1, <1>3
  <2> QED BY <1>3, <2>1, <2>2, <2>3, <2>4 DEF v, old, up
<1>4. CASE i # Len(p)
  <2> DEFINE w == IF HasPart(old, p[i + 1]) THEN WithPart(old, p[i + 1], Up(c, p, val)[i + 1])
                                            ELSE old
  <2>1. i \in 0 .. Len(p) - 1
    BY <1>1, <1>4
  <2>2. up = Onto(v, w)
    BY <1>1, <2>1, UpIs
  <2>3. IsPlain(w) /\ w.kind = old.kind
    BY <1>2, PartPut
  <2> HIDE DEF v, old, up, w
  <2>4. IsNode(Onto(v, w)) /\ Deref(Onto(v, w)) = w
    BY <2>3, OntoNode DEF v
  <2>5. IsNode(up) /\ Deref(up) = w
    BY <2>2, <2>4
  <2> QED BY <1>4, <2>3, <2>5 DEF v, old, up, w
<1> QED BY <1>3, <1>4

\* What setting a place does to another holds one segment further along.
LEMMA SetStep ==
  ASSUME NEW c, Sound(c), NEW p \in Paths, NEW q \in Paths, NEW val,
         NEW i \in Nat, i + 1 <= Len(q), SetSo(c, p, q, val, i)
  PROVE  SetSo(c, p, q, val, i + 1)
<1> DEFINE d == setByPath(c, p, val)
           old == Down(c, q)[i]
           new == Down(d, q)[i]
           s == q[i + 1]
           old1 == Down(c, q)[i + 1]
           new1 == Down(d, q)[i + 1]
           up == Up(c, p, val)
<1>1. Len(p) \in Nat /\ Len(q) \in Nat
  BY PathLen
<1>2. old1 = Part(Deref(old), s) /\ new1 = Part(Deref(new), s)
  <2>1. i + 1 \in 1 .. Len(q) /\ (i + 1) - 1 = i
    BY <1>1
  <2> QED BY <1>1, <2>1, DownIs
<1>3. /\ Reaches(c, q, i + 1) <=> Reaches(c, q, i) /\ HasPart(Deref(old), s)
      /\ Reaches(d, q, i + 1) <=> Reaches(d, q, i) /\ HasPart(Deref(new), s)
  BY ReachesStep
<1>4. Agree(p, q, i + 1) <=> Agree(p, q, i) /\ i < Len(p) /\ p[i + 1] = s
  <2>1. 1 .. i + 1 = (1 .. i) \cup {i + 1} /\ (i + 1 <= Len(p) <=> i < Len(p) /\ i <= Len(p))
    BY <1>1
  <2> QED BY <2>1, Zenon DEF Agree
<1>5. /\ Reaches(d, q, i) <=> Reaches(c, q, i)
      /\ Reaches(c, q, i) =>
           /\ IsNode(old) /\ IsNode(new) /\ Deref(new).kind = Deref(old).kind
           /\ ~Agree(p, q, i) => new = old
           /\ Agree(p, q, i) => new = up[i] /\ old = Down(c, p)[i]
  BY DEF SetSo
<1>6. Reaches(c, q, i + 1) => IsNode(old1)
  <2>1. i + 1 \in 0 .. Len(q)
    BY <1>1
  <2> QED BY <2>1 DEF Sound
<1>7. SUFFICES ASSUME Reaches(c, q, i)
               PROVE  /\ HasPart(Deref(new), s) <=> HasPart(Deref(old), s)
                      /\ HasPart(Deref(old), s) =>
                           /\ IsNode(new1) /\ Deref(new1).kind = Deref(old1).kind
                           /\ ~Agree(p, q, i + 1) => new1 = old1
                           /\ Agree(p, q, i + 1) => new1 = up[i + 1] /\ old1 = Down(c, p)[i + 1]
  <2> HIDE DEF d, old, new, s, old1, new1, up
  <2>1. ASSUME ~Reaches(c, q, i)
        PROVE  ~Reaches(c, q, i + 1) /\ ~Reaches(d, q, i + 1)
    BY <1>3, <1>5, <2>1
  <2>2. /\ Reaches(d, q, i + 1) <=> Reaches(c, q, i + 1)
        /\ Reaches(c, q, i + 1) =>
           /\ IsNode(old1) /\ IsNode(new1) /\ Deref(new1).kind = Deref(old1).kind
           /\ ~Agree(p, q, i + 1) => new1 = old1
           /\ Agree(p, q, i + 1) => new1 = up[i + 1] /\ old1 = Down(c, p)[i + 1]
    BY <1>3, <1>5, <1>6, <1>7, <2>1
  <2> QED BY <2>2 DEF SetSo, d, old1, new1, up
<1>8. HasPart(Deref(old), s) => IsNode(old1)
  BY <1>3, <1>6, <1>7
<1> HIDE DEF d
<1>9. CASE ~Agree(p, q, i)
  <2>1. new = old
    BY <1>5, <1>7, <1>9
  <2>2. new1 = old1
    BY <1>2, <2>1
  <2> HIDE DEF old, new, s, old1, new1, up
  <2> QED BY <1>4, <1>8, <1>9, <2>1, <2>2
<1>10. CASE Agree(p, q, i)
  <2>1. new = up[i] /\ old = Down(c, p)[i] /\ IsNode(old)
    BY <1>5, <1>7, <1>10
  <2>2. i \in 0 .. Len(p)
    BY <1>1, <1>10 DEF Agree
  <2>3. IsPlain(Deref(old))
    BY <2>1, DerefPlain
  <2> HIDE DEF s, old1, new1, old, new
  <2>4. /\ i = Len(p) => Deref(new) = Assign(Deref(old), val)
        /\ i < Len(p) /\ ~HasPart(Deref(old), p[i + 1]) => Deref(new) = Deref(old)
        /\ i < Len(p) /\ HasPart(Deref(old), p[i + 1]) =>
             Deref(new) = WithPart(Deref(old), p[i + 1], up[i + 1])
    BY <2>1, <2>2, UpNode
  <2> HIDE DEF up
  <2>5. CASE i = Len(p)
    <3>1. ~Agree(p, q, i + 1)
      BY <1>1, <1>4, <2>5
    <3>2. CASE Takes(Deref(old), val)
      <4>1. IsLeaf(Deref(old)) /\ IsLeaf(Deref(new))
        BY <2>3, <2>4, <2>5, <3>2, Assigned DEF IsLeaf
      <4> QED BY <4>1, LeafParts
    <3>3. CASE ~Takes(Deref(old), val)
      <4>1. Deref(new) = Deref(old)
        BY <2>3, <2>4, <2>5, <3>3, Assigned
      <4> QED BY <1>2, <1>8, <3>1, <4>1
    <3> QED BY <3>2, <3>3
  <2>6. CASE i < Len(p) /\ ~HasPart(Deref(old), p[i + 1])
    <3>1. Deref(new) = Deref(old)
      BY <2>4, <2>6
    <3>2. p[i + 1] = s => ~HasPart(Deref(old), s)
      BY <2>6
    <3> QED BY <1>2, <1>4, <1>8, <3>1, <3>2
  <2>7. CASE i < Len(p) /\ HasPart(Deref(old), p[i + 1])
    <3>1. Deref(new) = WithPart(Deref(old), p[i + 1], up[i + 1])
      BY <2>4, <2>7
    <3>2. /\ \A t : HasPart(Deref(new), t) <=> HasPart(Deref(old), t)
          /\ Part(Deref(new), p[i + 1]) = up[i + 1]
          /\ \A t : t # p[i + 1] /\ HasPart(Deref(old), t) =>
               Part(Deref(new), t) = Part(Deref(old), t)
      BY <2>3, <2>7, <3>1, PartPut
    <3>3. CASE p[i + 1] = s
      <4>1. Agree(p, q, i + 1)
        BY <1>4, <1>10, <2>7, <3>3
      <4>2. new1 = up[i + 1]
        BY <1>2, <3>2, <3>3
      <4>3. old1 = Down(c, p)[i + 1]
        <5>1. i + 1 \in 1 .. Len(p) /\ (i + 1) - 1 = i
          BY <1>1, <2>7
        <5>2. Down(c, p)[i + 1] = Part(Deref(Down(c, p)[i]), p[i + 1])
          BY <1>1, <5>1, DownIs
        <5> QED BY <1>2, <2>1, <3>3, <5>2
      <4>4. HasPart(Deref(old), s) => IsNode(new1) /\ Deref(new1).kind = Deref(old1).kind
        <5>1. i + 1 \in 0 .. Len(p)
          BY <1>1, <2>7
        <5> QED BY <1>8, <4>2, <4>3, <5>1, UpNode DEF up
      <4> QED BY <3>2, <4>1, <4>2, <4>3, <4>4
    <3>4. CASE p[i + 1] # s
      <4>1. HasPart(Deref(old), s) => new1 = old1
        BY <1>2, <3>2, <3>4
      <4> QED BY <1>4, <1>8, <3>2, <3>4, <4>1
    <3> QED BY <3>3, <3>4
  <2> QED BY <1>1, <2>2, <2>5, <2>6, <2>7
<1> QED BY <1>9, <1>10

\* So it holds at the end of the path: there is no first segment where it fails.
LEMMA SetAll ==
  ASSUME NEW c, Sound(c), NEW p \in Paths, NEW q \in Paths, NEW val
  PROVE  \A i \in 0 .. Len(q) : SetSo(c, p, q, val, i)
<1> DEFINE T == {i \in 0 .. Len(q) : ~SetSo(c, p, q, val, i)}
           d == setByPath(c, p, val)
<1>1. Len(p) \in Nat /\ Len(q) \in Nat
  BY PathLen
<1>2. SetSo(c, p, q, val, 0)
  <2>1. Down(c, q)[0] = c /\ Down(d, q)[0] = d /\ Down(c, p)[0] = c
    BY <1>1, DownIs
  <2>2. Reaches(c, q, 0) /\ Reaches(d, q, 0) /\ Reaches(c, p, 0)
    BY DEF Reaches
  <2>3. d = Up(c, p, val)[0]
    BY DEF setByPath
  <2>4. Agree(p, q, 0)
    BY <1>1 DEF Agree
  <2>5. IsNode(c)
    BY <1>1, <2>1, <2>2 DEF Sound
  <2>6. IsNode(d) /\ Deref(d).kind = Deref(c).kind
    BY <1>1, <2>1, <2>3, <2>5, UpNode
  <2> HIDE DEF d
  <2> QED BY <2>1, <2>2, <2>3, <2>4, <2>5, <2>6 DEF SetSo, d
<1>3. T = {}
  <2> SUFFICES ASSUME T # {} PROVE FALSE
    OBVIOUS
  <2>1. T \subseteq Nat
    OBVIOUS
  <2>2. PICK m \in T : \A k \in T : m <= k
    <3> HIDE DEF T
    <3> QED BY <2>1, LeastNumber, Zenon
  <2>3. m \in 0 .. Len(q) /\ ~SetSo(c, p, q, val, m)
    BY <2>2
  <2>4. m # 0
    BY <1>2, <2>3
  <2>5. PICK i \in Nat : i + 1 = m /\ i \in 0 .. Len(q) /\ i + 1 <= Len(q)
    BY <1>1, <2>3, <2>4
  <2>6. SetSo(c, p, q, val, i)
    <3>1. ~(m <= i)
      BY <2>5
    <3> QED BY <2>2, <2>5, <3>1
  <2> QED BY <2>3, <2>5, <2>6, SetStep
<1> QED BY <1>3

\* Sequences that agree on their common length are equal.
LEMMA SamePath ==
  ASSUME NEW p \in Seq(STRING), NEW q \in Seq(STRING), Len(p) = Len(q),
         \A j \in 1 .. Len(q) : p[j] = q[j]
  PROVE  p = q
OBVIOUS

\* Setting a place keeps Go values, and every place; it changes no place that
\* it is not at or under, and of the leaves only the one it names.
LEMMA SetPlace ==
  ASSUME NEW c, Sound(c), NEW p \in Paths, NEW val
  PROVE  LET d == setByPath(c, p, val)
         IN  /\ Sound(d) /\ Deref(d).kind = Deref(c).kind
             /\ \A q \in Paths : IsPlace(c, q) =>
                  LET old == Deref(At(c, q))
                      new == Deref(At(d, q))
                  IN  /\ IsPlace(d, q) /\ new.kind = old.kind /\ IsPlain(old)
                      /\ ~Begins(p, q) => At(d, q) = At(c, q)
                      /\ IsLeaf(old) => new = IF p = q THEN Assign(old, val) ELSE old
<1> DEFINE d == setByPath(c, p, val)
<1>1. \A q \in Paths : \A i \in 0 .. Len(q) : SetSo(c, p, q, val, i)
  BY SetAll
<1>2. Sound(d)
  BY <1>1 DEF SetSo, Sound
<1>3. Deref(d).kind = Deref(c).kind
  <2>1. Len(p) \in Nat /\ 0 \in 0 .. Len(p)
    BY PathLen
  <2>2. SetSo(c, p, p, val, 0) /\ Reaches(c, p, 0)
    BY <1>1, <2>1, ReachesStep
  <2>3. Down(c, p)[0] = c /\ Down(d, p)[0] = d
    BY <2>1, DownIs
  <2> QED BY <2>2, <2>3 DEF SetSo
<1> HIDE DEF d
<1>4. ASSUME NEW q \in Paths, IsPlace(c, q)
      PROVE  LET old == Deref(At(c, q))
                 new == Deref(At(d, q))
             IN  /\ IsPlace(d, q) /\ new.kind = old.kind /\ IsPlain(old)
                 /\ ~Begins(p, q) => At(d, q) = At(c, q)
                 /\ IsLeaf(old) => new = IF p = q THEN Assign(old, val) ELSE old
  <2> DEFINE n == Len(q)
             old == Deref(At(c, q))
             new == Deref(At(d, q))
  <2>1. n \in Nat /\ Len(p) \in Nat /\ n \in 0 .. n
    BY PathLen
  <2>2. SetSo(c, p, q, val, n)
    BY <1>1, <2>1
  <2>3. Begins(p, q) <=> Agree(p, q, n)
    BY DEF Begins, Agree
  <2>4. Reaches(c, q, n)
    BY <1>4 DEF IsPlace
  <2>5. /\ Reaches(d, q, n) /\ IsNode(At(c, q)) /\ new.kind = old.kind
        /\ ~Agree(p, q, n) => At(d, q) = At(c, q)
        /\ Agree(p, q, n) => At(d, q) = Up(c, p, val)[n] /\ At(c, q) = Down(c, p)[n]
    BY <2>2, <2>4, Zenon DEF SetSo, At, d
  <2>6. IsPlain(old)
    BY <2>5, DerefPlain
  <2>7. ASSUME IsLeaf(old)
        PROVE  new = IF p = q THEN Assign(old, val) ELSE old
    <3>1. CASE ~Agree(p, q, n)
      <4>1. p # q
        BY <2>1, <3>1 DEF Agree
      <4> QED BY <2>5, <3>1, <4>1
    <3>2. CASE Agree(p, q, n)
      <4>1. n \in 0 .. Len(p)
        BY <2>1, <3>2 DEF Agree
      <4>2. new = Deref(Up(c, p, val)[n]) /\ old = Deref(Down(c, p)[n]) /\ IsNode(Down(c, p)[n])
        BY <2>5, <3>2
      <4> HIDE DEF new, old
      <4>3. /\ n = Len(p) => new = Assign(old, val)
            /\ n < Len(p) /\ ~HasPart(old, p[n + 1]) => new = old
        BY <4>1, <4>2, UpNode
      <4>4. CASE n = Len(p)
        <5>1. p = q
          BY <3>2, <4>4, SamePath, PathLen DEF Agree
        <5> QED BY <4>3, <4>4, <5>1
      <4>5. CASE n < Len(p)
        <5>1. p # q
          BY <2>1, <4>5
        <5>2. ~HasPart(old, p[n + 1])
          BY <2>7, LeafParts
        <5> QED BY <4>3, <4>5, <5>1, <5>2
      <4> QED BY <2>1, <4>1, <4>4, <4>5
    <3> QED BY <3>1, <3>2
  <2> HIDE DEF new, old
  <2>8. IsPlace(d, q)
    BY <2>5 DEF IsPlace
  <2>9. /\ IsPlace(d, q) /\ new.kind = old.kind /\ IsPlain(old)
        /\ ~Begins(p, q) => At(d, q) = At(c, q)
        /\ IsLeaf(old) => new = IF p = q THEN Assign(old, val) ELSE old
    BY <2>3, <2>5, <2>6, <2>7, <2>8
  <2> QED BY <2>9 DEF new, old
<1> QED BY <1>3, <1>2, <1>4 DEF d

-----------------------------------------------------------------------------
(* The variables, one after the other.                                     *)

\* What the first i variables have done at a place.
DoneAt(c, d, environ, winner, i, q) ==
  LET old == Deref(At(c, q))
      new == Deref(At(d, q))
      Target(j) == Path(environ[j].path, winner)
  IN  /\ IsPlace(d, q) /\ new.kind = old.kind
      /\ (\A j \in 1 .. i : ~Begins(Target(j), q)) => At(d, q) = At(c, q)
      /\ IsLeaf(old) =>
           \/ \E j \in 1 .. i : /\ Target(j) = q /\ Takes(old, environ[j].value)
                                /\ new.value = Taken(old, environ[j].value)
           \/ /\ new = old
              /\ \A j \in 1 .. i : Target(j) = q => ~Takes(old, environ[j].value)

Done(c, environ, winner, i) ==
  LET d == After(c, environ, winner)[i]
  IN  d # Panicked =>
        /\ Sound(d) /\ Deref(d).kind = Deref(c).kind
        /\ \A q \in Paths : IsPlace(c, q) => DoneAt(c, d, environ, winner, i, q)

\* Which texts a leaf takes, and as what, is decided by its kind.
LEMMA KindDecides ==
  ASSUME NEW v, NEW w, v.kind = w.kind, NEW val
  PROVE  (Takes(v, val) <=> Takes(w, val)) /\ Taken(v, val) = Taken(w, val)
BY DEF Takes, Taken

\* One more variable keeps what the earlier ones have done.
LEMMA DoneStep ==
  ASSUME NEW c, NEW environ, NEW winner, Len(environ) \in Nat,
         \A j \in 1 .. Len(environ) : Path(environ[j].path, winner) \in Paths,
         NEW i \in Nat, i + 1 <= Len(environ), Done(c, environ, winner, i)
  PROVE  Done(c, environ, winner, i + 1)
<1> DEFINE d == After(c, environ, winner)[i]
           e == After(c, environ, winner)[i + 1]
           p == Path(environ[i + 1].path, winner)
           val == environ[i + 1].value
<1>1. i + 1 \in 1 .. Len(environ) /\ (i + 1) - 1 = i /\ 1 .. i + 1 = (1 .. i) \cup {i + 1}
  OBVIOUS
<1>2. e = IF d = Panicked \/ Panics(d, p, val) THEN Panicked ELSE setByPath(d, p, val)
  BY <1>1, AfterIs
<1>3. p \in Paths
  BY <1>1
<1>4. Done(c, environ, winner, i) <=>
        (d # Panicked =>
           /\ Sound(d) /\ Deref(d).kind = Deref(c).kind
           /\ \A q \in Paths : IsPlace(c, q) => DoneAt(c, d, environ, winner, i, q))
  BY Zenon DEF Done
<1>5. Done(c, environ, winner, i + 1) <=>
        (e # Panicked =>
           /\ Sound(e) /\ Deref(e).kind = Deref(c).kind
           /\ \A q \in Paths : IsPlace(c, q) => DoneAt(c, e, environ, winner, i + 1, q))
  BY Zenon DEF Done
<1> HIDE DEF d, e
<1>6. SUFFICES ASSUME e # Panicked
               PROVE  /\ Sound(e) /\ Deref(e).kind = Deref(c).kind
                      /\ \A q \in Paths : IsPlace(c, q) => DoneAt(c, e, environ, winner, i + 1, q)
  BY <1>5
<1>7. d # Panicked /\ e = setByPath(d, p, val)
  BY <1>2, <1>6
<1>8. /\ Sound(d) /\ Deref(d).kind = Deref(c).kind
      /\ \A q \in Paths : IsPlace(c, q) => DoneAt(c, d, environ, winner, i, q)
  BY <1>4, <1>7
<1>9. Sound(e) /\ Deref(e).kind = Deref(c).kind
  BY <1>3, <1>7, <1>8, SetPlace
<1>10. ASSUME NEW q \in Paths, IsPlace(c, q)
       PROVE  DoneAt(c, e, environ, winner, i + 1, q)
  <2> DEFINE old == Deref(At(c, q))
             mid == Deref(At(d, q))
             new == Deref(At(e, q))
             Target(j) == Path(environ[j].path, winner)
  <2>1. /\ IsPlace(d, q) /\ mid.kind = old.kind
        /\ (\A j \in 1 .. i : ~Begins(Target(j), q)) => At(d, q) = At(c, q)
        /\ IsLeaf(old) =>
             \/ \E j \in 1 .. i : /\ Target(j) = q /\ Takes(old, environ[j].value)
                                  /\ mid.value = Taken(old, environ[j].value)
             \/ /\ mid = old
                /\ \A j \in 1 .. i : Target(j) = q => ~Takes(old, environ[j].value)
    BY <1>8, <1>10, Zenon DEF DoneAt
  <2>2. /\ IsPlace(e, q) /\ new.kind = mid.kind /\ IsPlain(mid)
        /\ ~Begins(p, q) => At(e, q) = At(d, q)
        /\ IsLeaf(mid) => new = IF p = q THEN Assign(mid, val) ELSE mid
    BY <1>3, <1>7, <1>8, <2>1, SetPlace
  <2>3. (Takes(mid, val) <=> Takes(old, val)) /\ Taken(mid, val) = Taken(old, val)
    BY <2>1, KindDecides
  <2>4. /\ Takes(mid, val) => Assign(mid, val).value = Taken(mid, val)
        /\ ~Takes(mid, val) => Assign(mid, val) = mid
    BY <2>2, Assigned
  <2> HIDE DEF old, mid, new
  <2>5. (\A j \in 1 .. i + 1 : ~Begins(Target(j), q)) => At(e, q) = At(c, q)
    <3>1. ASSUME \A j \in 1 .. i + 1 : ~Begins(Target(j), q)
          PROVE  ~Begins(p, q) /\ \A j \in 1 .. i : ~Begins(Target(j), q)
      BY <1>1, <3>1
    <3> QED BY <2>1, <2>2, <3>1
  <2>6. ASSUME IsLeaf(old)
        PROVE  \/ \E j \in 1 .. i + 1 : /\ Target(j) = q /\ Takes(old, environ[j].value)
                                        /\ new.value = Taken(old, environ[j].value)
               \/ /\ new = old
                  /\ \A j \in 1 .. i + 1 : Target(j) = q => ~Takes(old, environ[j].value)
    <3>1. new = IF p = q THEN Assign(mid, val) ELSE mid
      BY <2>1, <2>2, <2>6 DEF IsLeaf
    <3> HIDE DEF Target
    <3>2. Target(i + 1) = p /\ environ[i + 1].value = val
      BY DEF Target
    <3> HIDE DEF p, val
    <3>3. CASE p = q /\ Takes(old, val)
      <4>1. new.value = Taken(old, val)
        BY <2>3, <2>4, <3>1, <3>3
      <4> QED BY <1>1, <3>2, <3>3, <4>1
    <3>4. CASE ~(p = q /\ Takes(old, val))
      <4>1. new = mid
        BY <2>3, <2>4, <3>1, <3>4
      <4>2. CASE \E j \in 1 .. i : /\ Target(j) = q /\ Takes(old, environ[j].value)
                                   /\ mid.value = Taken(old, environ[j].value)
        BY <1>1, <4>1, <4>2
      <4>3. CASE /\ mid = old
                 /\ \A j \in 1 .. i : Target(j) = q => ~Takes(old, environ[j].value)
        <5>1. Target(i + 1) = q => ~Takes(old, environ[i + 1].value)
          BY <3>2, <3>4
        <5> QED BY <1>1, <4>1, <4>3, <5>1
      <4> QED BY <2>1, <2>6, <4>2, <4>3
    <3> QED BY <3>3, <3>4
  <2>7. IsPlace(e, q) /\ new.kind = old.kind
    BY <2>1, <2>2
  <2> QED BY <2>5, <2>6, <2>7, Zenon DEF DoneAt, old, new
<1> QED BY <1>9, <1>10

\* So it holds after all of them: there is no first variable where it fails.
LEMMA AllDone ==
  ASSUME NEW c, Sound(c), NEW environ, NEW winner, Len(environ) \in Nat,
         \A j \in 1 .. Len(environ) : Path(environ[j].path, winner) \in Paths
  PROVE  Done(c, environ, winner, Len(environ))
<1> DEFINE n == Len(environ)
           T == {i \in 0 .. n : ~Done(c, environ, winner, i)}
<1>1. Done(c, environ, winner, 0)
  <2>1. After(c, environ, winner)[0] = c
    BY AfterIs
  <2>2. \A q : IsPlace(c, q) => DoneAt(c, c, environ, winner, 0, q)
    BY DEF DoneAt
  <2> QED BY <2>1, <2>2 DEF Done
<1>2. T = {}
  <2> SUFFICES ASSUME T # {} PROVE FALSE
    OBVIOUS
  <2>1. T \subseteq Nat
    OBVIOUS
  <2>2. PICK m \in T : \A k \in T : m <= k
    <3> HIDE DEF T
    <3> QED BY <2>1, LeastNumber, Zenon
  <2>3. m \in 0 .. n /\ ~Done(c, environ, winner, m)
    BY <2>2
  <2>4. m # 0
    BY <1>1, <2>3
  <2>5. PICK i \in Nat : i + 1 = m /\ i \in 0 .. n /\ i + 1 <= n
    BY <2>3, <2>4
  <2>6. Done(c, environ, winner, i)
    <3>1. ~(m <= i)
      BY <2>5
    <3> QED BY <2>2, <2>5, <3>1
  <2> QED BY <2>3, <2>5, <2>6, DoneStep
<1> QED BY <1>2

-----------------------------------------------------------------------------
(* Which variable is for which place.                                      *)

\* A sequence is a function over an interval.
LEMMA SeqIs ==
  ASSUME NEW S, NEW q \in Seq(S)
  PROVE  /\ Len(q) \in Nat /\ DOMAIN q = 1 .. Len(q) /\ q = [i \in 1 .. Len(q) |-> q[i]]
         /\ \A i \in 1 .. Len(q) : q[i] \in S
OBVIOUS

\* Replacing one element keeps the length and the others.
LEMMA SeqPut ==
  ASSUME NEW S, NEW q \in Seq(S), NEW i \in 1 .. Len(q), NEW x
  PROVE  LET r == [q EXCEPT ![i] = x]
         IN  /\ Len(r) = Len(q) /\ DOMAIN r = 1 .. Len(q) /\ r[i] = x
             /\ \A j \in 1 .. Len(q) : j # i => r[j] = q[j]
             /\ [r EXCEPT ![i] = q[i]] = q
<1> DEFINE r == [q EXCEPT ![i] = x]
           n == Len(q)
<1>1. n \in Nat /\ DOMAIN q = 1 .. n /\ q = [j \in 1 .. n |-> q[j]]
  BY SeqIs
<1> HIDE DEF n
<1>2. r = [j \in 1 .. n |-> IF j = i THEN x ELSE q[j]]
  BY <1>1
<1>3. i \in 1 .. n
  BY DEF n
<1> HIDE DEF r
<1>4. DOMAIN r = 1 .. n /\ r[i] = x /\ \A j \in 1 .. n : j # i => r[j] = q[j]
  BY <1>2, <1>3
<1> DEFINE R == {r[j] : j \in 1 .. n}
<1>5. r \in [1 .. n -> R]
  BY <1>2
<1> HIDE DEF R
<1>6. r \in Seq(R)
  BY <1>1, <1>5
<1>7. Len(r) = n
  BY <1>1, <1>4, <1>6
<1>8. [r EXCEPT ![i] = q[i]] = [j \in 1 .. n |-> q[j]]
  BY <1>4
<1> QED BY <1>1, <1>4, <1>7, <1>8 DEF r, n

\* Putting back what was there undoes a change.
LEMMA PutBack ==
  ASSUME NEW S, NEW q \in Seq(S), NEW i \in 1 .. Len(q), NEW x
  PROVE  q = [[q EXCEPT ![i] = x] EXCEPT ![i] = q[i]]
BY SeqPut

\* A field of an upstream is named by three segments.
LEMMA UpstreamField ==
  ASSUME NEW q \in Seq(STRING), IsUpstreamField(q)
  PROVE  /\ Len(q) = 3 /\ DOMAIN q = 1 .. 3 /\ q[1] = "upstream"
         /\ 2 \in 1 .. Len(q) /\ Len(q) >= 2
<1>1. Len(q) = 3 /\ q[1] = "upstream"
  BY Zenon DEF IsUpstreamField
<1>2. DOMAIN q = 1 .. Len(q)
  BY SeqIs
<1>3. 2 \in 1 .. 3 /\ 3 >= 2
  OBVIOUS
<1> QED BY <1>1, <1>2, <1>3

\* What Path does to a variable's segments.
LEMMA Renamed ==
  ASSUME NEW path \in Seq(STRING), NEW winner
  PROVE  LET p == Path(path, winner)
         IN  \/ p = path /\ ~(IsUpstreamField(path) /\ path[2] \in DOMAIN winner)
             \/ /\ IsUpstreamField(path) /\ path[2] \in DOMAIN winner
                /\ Len(p) = 3 /\ p[1] = "upstream" /\ p[2] = winner[path[2]] /\ p[3] = path[3]
                /\ p = [path EXCEPT ![2] = winner[path[2]]]
<1>1. CASE IsUpstreamField(path) /\ path[2] \in DOMAIN winner
  <2>1. Path(path, winner) = [path EXCEPT ![2] = winner[path[2]]]
    BY <1>1 DEF Path
  <2>2. Len(path) = 3 /\ path[1] = "upstream" /\ DOMAIN path = 1 .. 3 /\ 2 \in 1 .. Len(path)
    BY <1>1, UpstreamField
  <2> HIDE DEF Path
  <2> DEFINE p == [path EXCEPT ![2] = winner[path[2]]]
  <2>3. /\ Len(p) = Len(path) /\ p[2] = winner[path[2]]
        /\ \A j \in 1 .. Len(path) : j # 2 => p[j] = path[j]
    BY <2>2, SeqPut
  <2> HIDE DEF p
  <2>4. Len(p) = 3 /\ p[1] = "upstream" /\ p[3] = path[3]
    BY <2>2, <2>3
  <2> HIDE DEF p
  <2> QED BY <1>1, <2>1, <2>3, <2>4 DEF p
<1>2. CASE ~(IsUpstreamField(path) /\ path[2] \in DOMAIN winner)
  BY <1>2 DEF Path
<1> QED BY <1>1, <1>2

\* The place a variable is applied to is one it names, and the one whose name it
\* has if that is nobody else's.
LEMMA Naming ==
  ASSUME NEW c, NEW winner \in Winners(c), NEW path \in Seq(STRING), NEW q \in Seq(STRING)
  PROVE  LET p == Path(path, winner)
         IN  /\ Begins(p, q) => \E n \in {q, EnvName(q)} : Begins(path, n)
             /\ p = q => path \in {q, EnvName(q)}
             /\ path = EnvName(q) /\ Alone(c, q) /\ (IsUpstreamField(q) => q[2] \in Upstreams(c))
                  => p = q
<1> DEFINE p == Path(path, winner)
           k == path[2]
<1>1. /\ winner \in [{EnvSegment(n) : n \in Upstreams(c)} -> Upstreams(c)]
      /\ \A n \in DOMAIN winner : EnvSegment(winner[n]) = n
  BY DEF Winners
<1>2. k \in DOMAIN winner => winner[k] \in Upstreams(c) /\ EnvSegment(winner[k]) = k
  BY <1>1
<1>3. CASE p = path /\ ~(IsUpstreamField(path) /\ k \in DOMAIN winner)
  <2>1. ASSUME path = EnvName(q), Alone(c, q), IsUpstreamField(q) => q[2] \in Upstreams(c)
        PROVE  p = q
    <3>1. CASE Len(q) >= 2 /\ q[1] = "upstream"
      <4>1. IsUpstreamField(q) /\ q[2] \in Upstreams(c)
        BY <2>1, <3>1 DEF Alone
      <4>2. path = [q EXCEPT ![2] = EnvSegment(q[2])]
        BY <2>1, <3>1 DEF EnvName
      <4>3. Len(q) = 3 /\ 2 \in 1 .. Len(q)
        BY <4>1, UpstreamField
      <4>4. /\ Len(path) = Len(q) /\ k = EnvSegment(q[2])
            /\ \A j \in 1 .. Len(q) : j # 2 => path[j] = q[j]
        BY <4>2, <4>3, SeqPut
      <4>5. Len(path) = 3 /\ path[1] = q[1] /\ path[3] = q[3]
        BY <4>3, <4>4
      <4>6. IsUpstreamField(path)
        BY <4>1, <4>5, Zenon DEF IsUpstreamField
      <4>7. k \in DOMAIN winner
        BY <1>1, <4>1, <4>4
      <4> QED BY <1>3, <4>6, <4>7
    <3>2. CASE ~(Len(q) >= 2 /\ q[1] = "upstream")
      BY <1>3, <2>1, <3>2 DEF EnvName
    <3> QED BY <3>1, <3>2
  <2>2. p = path
    BY <1>3
  <2> HIDE DEF p
  <2>3. /\ Begins(p, q) => \E n \in {q, EnvName(q)} : Begins(path, n)
        /\ p = q => path \in {q, EnvName(q)}
        /\ path = EnvName(q) /\ Alone(c, q) /\ (IsUpstreamField(q) => q[2] \in Upstreams(c))
             => p = q
    BY <2>1, <2>2
  <2> QED BY <2>3 DEF p
<1>4. CASE /\ IsUpstreamField(path) /\ k \in DOMAIN winner
           /\ Len(p) = 3 /\ p[1] = "upstream" /\ p[2] = winner[k] /\ p[3] = path[3]
           /\ p = [path EXCEPT ![2] = winner[k]]
  <2> HIDE DEF p
  <2>1. Len(path) = 3 /\ DOMAIN path = 1 .. 3 /\ path[1] = "upstream" /\ 2 \in 1 .. Len(path)
    BY <1>4, UpstreamField
  <2>2. EnvSegment(p[2]) = k
    BY <1>2, <1>4
  <2>3. ASSUME Len(q) >= 2, q[1] = "upstream"
        PROVE  /\ EnvName(q) = [q EXCEPT ![2] = EnvSegment(q[2])]
               /\ Len(EnvName(q)) = Len(q) /\ EnvName(q)[2] = EnvSegment(q[2])
               /\ \A j \in DOMAIN q : j # 2 => EnvName(q)[j] = q[j]
    <3>1. EnvName(q) = [q EXCEPT ![2] = EnvSegment(q[2])]
      BY <2>3 DEF EnvName
    <3>2. 2 \in 1 .. Len(q) /\ DOMAIN q = 1 .. Len(q)
      BY <2>3, SeqIs
    <3> QED BY <3>1, <3>2, SeqPut
  <2>4. ASSUME Begins(p, q)
        PROVE  \E n \in {q, EnvName(q)} : Begins(path, n)
    <3>1. Len(q) \in Nat /\ Len(q) <= 3 /\ \A j \in 1 .. Len(q) : p[j] = q[j]
      BY <1>4, <2>4 DEF Begins
    <3>2. CASE Len(q) < 2
      <4>1. \A j \in 1 .. Len(q) : j = 1
        BY <3>1, <3>2
      <4>2. \A j \in 1 .. Len(q) : path[j] = q[j]
        BY <1>4, <2>1, <3>1, <4>1
      <4> QED BY <2>1, <3>1, <4>2 DEF Begins
    <3>3. CASE Len(q) >= 2
      <4>1. 1 \in 1 .. Len(q) /\ 2 \in 1 .. Len(q) /\ DOMAIN q = 1 .. Len(q)
        BY <3>1, <3>3
      <4>2. q[1] = "upstream" /\ q[2] = p[2]
        BY <1>4, <3>1, <4>1
      <4>3. \A j \in 1 .. Len(q) : path[j] = EnvName(q)[j]
        <5> TAKE j \in 1 .. Len(q)
        <5>1. j = 1 \/ j = 2 \/ j = 3
          BY <3>1
        <5>2. CASE j = 2
          BY <2>2, <2>3, <3>3, <4>2, <5>2
        <5>3. CASE j = 1
          BY <2>1, <2>3, <3>3, <4>1, <4>2, <5>3
        <5>4. CASE j = 3
          <6>1. q[3] = path[3]
            BY <1>4, <3>1, <5>4
          <6> QED BY <2>3, <3>3, <4>1, <4>2, <5>4, <6>1
        <5> QED BY <5>1, <5>2, <5>3, <5>4
      <4>4. Len(EnvName(q)) <= Len(path) /\ 1 .. Len(EnvName(q)) = 1 .. Len(q)
        BY <2>1, <2>3, <3>1, <3>3, <4>2
      <4> QED BY <4>3, <4>4 DEF Begins
    <3> QED BY <3>1, <3>2, <3>3
  <2>5. ASSUME p = q
        PROVE  path = EnvName(q)
    <3>1. Len(q) = 3 /\ q[1] = "upstream" /\ q[2] = winner[k]
      BY <1>4, <2>5
    <3>2. EnvName(q) = [q EXCEPT ![2] = k]
      BY <2>2, <2>3, <2>5, <3>1
    <3>3. [[path EXCEPT ![2] = winner[k]] EXCEPT ![2] = k] = path
      BY <2>1, SeqPut
    <3> QED BY <1>4, <2>5, <3>2, <3>3
  <2>6. ASSUME path = EnvName(q), Alone(c, q), IsUpstreamField(q) => q[2] \in Upstreams(c)
        PROVE  p = q
    <3>1. CASE Len(q) >= 2 /\ q[1] = "upstream"
      <4>1. /\ IsUpstreamField(q)
            /\ \A n \in Upstreams(c) : EnvSegment(n) = EnvSegment(q[2]) => n = q[2]
        BY <2>6, <3>1 DEF Alone
      <4>2. path = [q EXCEPT ![2] = EnvSegment(q[2])] /\ k = EnvSegment(q[2])
        BY <2>3, <2>6, <3>1
      <4>3. p[2] = q[2]
        BY <1>2, <1>4, <4>1, <4>2
      <4>4. q = [[q EXCEPT ![2] = EnvSegment(q[2])] EXCEPT ![2] = q[2]]
        <5>1. 2 \in 1 .. Len(q)
          BY <4>1, UpstreamField
        <5> QED BY <5>1, PutBack, Zenon
      <4>5. p = [path EXCEPT ![2] = q[2]]
        BY <1>4, <4>2, <4>3, Zenon
      <4> QED BY <4>2, <4>4, <4>5, Zenon
    <3>2. CASE ~(Len(q) >= 2 /\ q[1] = "upstream")
      <4>1. path = q
        BY <2>6, <3>2 DEF EnvName
      <4>2. Len(q) >= 2 /\ q[1] = "upstream"
        BY <1>4, <4>1, UpstreamField
      <4> QED BY <3>2, <4>2
    <3> QED BY <3>1, <3>2
  <2> QED BY <2>4, <2>5, <2>6 DEF p
<1> QED BY <1>3, <1>4, Renamed

\* A place of an upstream's field is of an upstream there is.
LEMMA UpstreamThere ==
  ASSUME NEW c, c.kind = "struct", c.fields["upstream"].kind = "map",
         NEW q \in Paths, IsPlace(c, q), IsUpstreamField(q)
  PROVE  q[2] \in Upstreams(c)
<1>1. Len(q) = 3 /\ q[1] = "upstream" /\ 1 \in 1 .. 3 /\ 2 \in 1 .. 3 /\ 1 - 1 = 0 /\ 2 - 1 = 1
  BY PathLen, UpstreamField
<1>2. Down(c, q)[0] = c /\ Down(c, q)[1] = Part(Deref(c), "upstream")
  BY <1>1, DownIs
<1>3. Down(c, q)[1] = c.fields["upstream"]
  BY <1>2 DEF Part, Deref
<1>4. HasPart(Deref(Down(c, q)[1]), q[2])
  BY <1>1, Zenon DEF IsPlace, Reaches
<1> QED BY <1>3, <1>4 DEF Deref, HasPart, Upstreams

\* What applyEnvToConfig leaves is as the property says, unless it panics.
LEMMA AppliedIsLocal ==
  ASSUME NEW c, c.kind = "struct", c.fields["upstream"].kind = "map", Sound(c),
         NEW environ \in Seq([path : Seq(STRING), value : STRING]), NEW winner \in Winners(c),
         \A j \in DOMAIN environ : Path(environ[j].path, winner) \in Paths,
         applyEnvToConfig(c, environ, winner) # Panicked
  PROVE  LET d == applyEnvToConfig(c, environ, winner)
         IN  Deref(d).kind = "struct" /\ Overridden(c, d, environ)
<1> DEFINE n == Len(environ)
           d == applyEnvToConfig(c, environ, winner)
           Target(j) == Path(environ[j].path, winner)
           Named(q) == {q, EnvName(q)}
           Variables == {environ[i] : i \in DOMAIN environ}
           Given(leaf, names) ==
             {Taken(leaf, e.value) : e \in {x \in Variables : x.path \in names /\ Takes(leaf, x.value)}}
<1>1. n \in Nat /\ DOMAIN environ = 1 .. n /\ \A j \in 1 .. n : environ[j].path \in Seq(STRING)
  <2> DEFINE R == [path : Seq(STRING), value : STRING]
  <2>1. n \in Nat /\ DOMAIN environ = 1 .. n /\ \A j \in 1 .. n : environ[j] \in R
    BY SeqIs, Zenon
  <2>2. \A e \in R : e.path \in Seq(STRING)
    OBVIOUS
  <2> QED BY <2>1, <2>2
<1>2. Done(c, environ, winner, n)
  BY <1>1, AllDone
<1>3. /\ Deref(d).kind = Deref(c).kind
      /\ \A q \in Paths : IsPlace(c, q) => DoneAt(c, d, environ, winner, n, q)
  BY <1>2, Zenon DEF Done, applyEnvToConfig
<1>4. Deref(d).kind = "struct"
  BY <1>3 DEF Deref
<1> HIDE DEF d, Given, Variables
<1>5. ASSUME NEW q \in Paths, IsPlace(c, q)
      PROVE  LET old == Deref(At(c, q))
                 new == Deref(At(d, q))
             IN  /\ IsPlace(d, q) /\ new.kind = old.kind
                 /\ (\A e \in Variables, m \in Named(q) : ~Begins(e.path, m)) => At(d, q) = At(c, q)
                 /\ IsLeaf(old) =>
                      \/ new.value \in Given(old, Named(q))
                      \/ new = old /\ (Alone(c, q) => Given(old, {EnvName(q)}) = {})
  <2> DEFINE old == Deref(At(c, q))
             new == Deref(At(d, q))
  <2>1. /\ IsPlace(d, q) /\ new.kind = old.kind
        /\ (\A j \in 1 .. n : ~Begins(Target(j), q)) => At(d, q) = At(c, q)
        /\ IsLeaf(old) =>
             \/ \E j \in 1 .. n : /\ Target(j) = q /\ Takes(old, environ[j].value)
                                  /\ new.value = Taken(old, environ[j].value)
             \/ /\ new = old
                /\ \A j \in 1 .. n : Target(j) = q => ~Takes(old, environ[j].value)
    BY <1>3, <1>5, Zenon DEF DoneAt
  <2>2. q \in Seq(STRING)
    BY PathLen
  <2>3. IsUpstreamField(q) => q[2] \in Upstreams(c)
    BY <1>5, UpstreamThere
  <2>4. \A j \in 1 .. n :
          /\ Begins(Target(j), q) => \E m \in Named(q) : Begins(environ[j].path, m)
          /\ Target(j) = q => environ[j].path \in Named(q)
          /\ environ[j].path = EnvName(q) /\ Alone(c, q) => Target(j) = q
    BY <1>1, <2>2, <2>3, Naming
  <2> HIDE DEF old, new, Target, Named
  <2>5. ASSUME \A e \in Variables, m \in Named(q) : ~Begins(e.path, m)
        PROVE  At(d, q) = At(c, q)
    <3>1. \A j \in 1 .. n : environ[j] \in Variables
      BY <1>1 DEF Variables
    <3>2. \A j \in 1 .. n : ~Begins(Target(j), q)
      BY <2>4, <2>5, <3>1
    <3> QED BY <2>1, <3>2
  <2>6. ASSUME IsLeaf(old)
        PROVE  \/ new.value \in Given(old, Named(q))
               \/ new = old /\ (Alone(c, q) => Given(old, {EnvName(q)}) = {})
    <3>1. CASE \E j \in 1 .. n : /\ Target(j) = q /\ Takes(old, environ[j].value)
                                 /\ new.value = Taken(old, environ[j].value)
      <4>1. PICK j \in 1 .. n : /\ Target(j) = q /\ Takes(old, environ[j].value)
                                /\ new.value = Taken(old, environ[j].value)
        BY <3>1
      <4>2. environ[j].path \in Named(q) /\ environ[j] \in Variables
        BY <1>1, <2>4, <4>1 DEF Variables
      <4>3. new.value \in Given(old, Named(q))
        BY <4>1, <4>2 DEF Given
      <4> QED BY <4>3
    <3>2. CASE /\ new = old
               /\ \A j \in 1 .. n : Target(j) = q => ~Takes(old, environ[j].value)
      <4>1. ASSUME Alone(c, q)
            PROVE  Given(old, {EnvName(q)}) = {}
        <5>1. \A j \in 1 .. n : environ[j].path = EnvName(q) => ~Takes(old, environ[j].value)
          BY <2>4, <3>2, <4>1
        <5>2. \A x \in Variables : x.path = EnvName(q) => ~Takes(old, x.value)
          BY <1>1, <5>1 DEF Variables
        <5> QED BY <5>2 DEF Given
      <4> QED BY <3>2, <4>1
    <3> QED BY <2>1, <2>6, <3>1, <3>2
  <2> QED BY <2>1, <2>5, <2>6 DEF old, new
<1>6. Overridden(c, d, environ)
  BY <1>5, Zenon DEF Overridden, Named, Variables, Given
<1> QED BY <1>4, <1>6 DEF d

-----------------------------------------------------------------------------
\* Until its tools are looked at, the process has the configuration that the file
\* it was started with gives, and it goes on only if that can be loaded.
LoadInv ==
  /\ start \in Starts
  /\ main \in {"load", "configured"} => file = start.file
  /\ main = "configured" =>
       \/ Failed \in Loaded(file, start.environ)
       \/ cfg \in Loaded(file, start.environ) /\ cfg \notin {Panicked, Failed}

\* Every step keeps it: main leaves these two states once, and the file is edited later.
LEMMA LoadInvKept == ASSUME LoadInv, [Next]_vars PROVE LoadInv'
<1>1. CASE Load
  <2>1. main = "load" /\ UNCHANGED <<start, file>>
    BY <1>1 DEF Load
  <2>2. PICK c \in Loaded(file, start.environ) :
          /\ cfg' = IF c \in {Panicked, Failed} THEN cfg ELSE c
          /\ IF c = Panicked THEN Exit(2) ELSE Goto("configured")
    BY <1>1 DEF Load
  <2>3. CASE c = Panicked
    BY <2>1, <2>2, <2>3 DEF LoadInv, Exit
  <2>4. CASE c # Panicked
    <3>1. main' = "configured"
      BY <2>2, <2>4 DEF Goto
    <3>2. c = Failed \/ (cfg' = c /\ c \notin {Panicked, Failed})
      BY <2>2, <2>4
    <3> QED BY <2>1, <2>2, <3>1, <3>2 DEF LoadInv
  <2> QED BY <2>3, <2>4
<1>2. CASE main' \notin {"load", "configured"} /\ start' = start
  BY <1>2 DEF LoadInv
<1>3. CASE UNCHANGED <<start, file, main, cfg>>
  BY <1>3 DEF LoadInv
<1>4. start' = start
  BY DEF Next, vars, Main, Serve, Load, ConfigureHTTPMiddleware, RegisterNative, RegisterVirtual,
         ListNative, ListVirtual, CallNative, CallVirtual, EndCommand, ServeStdio, NotifyContext,
         StartServers, BeginShutdown, Shutdown, EndServer, Edit, Signal, Tick, Listen, Finish, Connect
<1>5. CASE Main /\ ~Load
  <2>1. CASE ConfigureHTTPMiddleware
    <3>1. start.transport \in {"http", "stdio", "cli"}
      BY ServerAssumption DEF LoadInv
    <3>2. main' \in {"gone", "expose", "list", "call"}
      BY <2>1, <3>1 DEF ConfigureHTTPMiddleware, Exit, Goto
    <3> QED BY <1>2, <1>4, <3>2
  <2>2. CASE \/ RegisterNative \/ RegisterVirtual
             \/ ListNative \/ ListVirtual \/ CallNative \/ CallVirtual \/ EndCommand
    <3>1. main' \notin {"load", "configured"}
      BY <2>2 DEF RegisterNative, RegisterVirtual, ListNative,
                  ListVirtual, CallNative, CallVirtual, EndCommand, Exit, Goto
    <3> QED BY <1>2, <1>4, <3>1
  <2>3. CASE ServeStdio \/ NotifyContext \/ StartServers \/ BeginShutdown \/ EndServer
    <3>1. main' \notin {"load", "configured"}
      BY <2>3 DEF ServeStdio, NotifyContext, StartServers, BeginShutdown, EndServer, Exit, Goto
    <3> QED BY <1>2, <1>4, <3>1
  <2>4. CASE \E i \in DOMAIN Servers : Shutdown(i)
    <3>1. main' \notin {"load", "configured"}
      BY <2>4, ServerFacts DEF Shutdown
    <3> QED BY <1>2, <1>4, <3>1
  <2> QED BY <1>5, <2>1, <2>2, <2>3, <2>4 DEF Main, Serve
<1>6. CASE Edit
  <2>1. main' \notin {"load", "configured"}
    BY <1>6 DEF Edit
  <2> QED BY <1>2, <1>4, <2>1
<1>7. CASE Signal
  <2>1. UNCHANGED <<file, cfg>> /\ (main' = main \/ main' = "gone")
    BY <1>7 DEF Signal, Exit
  <2> QED BY <1>2, <1>3, <1>4, <2>1
<1>8. CASE \E s \in DOMAIN listener : Listen(s)
  <2>1. UNCHANGED <<file, cfg>> /\ (main' = main \/ main' = "gone")
    BY <1>8 DEF Listen, Exit
  <2> QED BY <1>2, <1>3, <1>4, <2>1
<1>9. CASE Tick \/ UNCHANGED vars \/ \E c \in Conns :
             \/ Finish(c)
             \/ \E s \in DOMAIN listener, kind \in {"call", "stream"} : Connect(c, s, kind)
  <2>1. UNCHANGED <<start, file, main, cfg>>
    BY <1>9 DEF Tick, vars, Finish, Connect
  <2> QED BY <1>3, <2>1
<1> QED BY <1>1, <1>5, <1>6, <1>7, <1>8, <1>9 DEF Next

\* What it says of the configuration gives the property, by the walks above.
LEMMA LoadedLocally == ASSUME LoadInv PROVE OverridesAreLocal
<1> SUFFICES ASSUME main = "configured", file.decodes
             PROVE  Overridden(Decoded(file.settings), cfg, start.environ)
  BY DEF OverridesAreLocal
<1> DEFINE c == Decoded(file.settings)
           environ == start.environ
<1>1. start \in Starts /\ file = start.file
  BY DEF LoadInv
<1>2. /\ environ \in Seq([path : Seq(STRING), value : STRING])
      /\ Loaded(file, environ) = LoadConfig(file, environ)
      /\ c.kind = "struct" /\ c.fields["upstream"].kind = "map" /\ Sound(c)
      /\ \A i \in DOMAIN environ, w \in Winners(c) : Path(environ[i].path, w) \in Paths
  BY <1>1, ConfigAssumption, Zenon DEF Sound
<1> HIDE DEF c, environ
<1>3. \A d \in Loaded(file, environ) :
        \E w \in Winners(c) : d = applyEnvToConfig(c, environ, w)
  BY <1>2, Zenon DEF LoadConfig, c
<1>4. \A d \in Loaded(file, environ) : d # Panicked =>
        Deref(d).kind = "struct" /\ Overridden(c, d, environ)
  BY <1>2, <1>3, AppliedIsLocal
<1>5. Failed # Panicked /\ Deref(Failed).kind # "struct"
  BY DEF Failed, Panicked, Deref
<1>6. cfg \in Loaded(file, environ) /\ cfg # Panicked
  BY <1>4, <1>5 DEF LoadInv, environ
<1> QED BY <1>4, <1>6 DEF c, environ

\* Whatever the file gives and whatever variables there are, in every order of a
\* map: a variable changes the place it names, and everything else in the
\* configuration is as the file and the defaults left it (templates/config.templ).
THEOREM OverridesLocal == Spec => []OverridesAreLocal
<1>1. Init => LoadInv
  BY DEF Init, LoadInv
<1>2. LoadInv /\ [Next]_vars => LoadInv'
  BY LoadInvKept
<1>3. LoadInv => OverridesAreLocal
  BY LoadedLocally
<1> QED
  BY <1>1, <1>2, <1>3, PTL DEF Spec
=============================================================================
