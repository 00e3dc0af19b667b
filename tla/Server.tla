------------------------------- MODULE Server -------------------------------
(***************************************************************************)
(* One process of a generated server (templates/main.templ): it loads its  *)
(* configuration and compiles the policies, and then, over http, registers *)
(* its tools (server.templ), serves until it is told to stop and shuts     *)
(* down; over stdio it serves its parent; as a command it lists its tools  *)
(* or calls one of them (cli.templ).  The configuration file may change    *)
(* while it starts, and is read more than once.                            *)
(*                                                                         *)
(* What a request does, and how the upstream's credential is fetched, is   *)
(* in Pipeline, Retry, TFS and OIDC; here a request may last for ever.     *)
(***************************************************************************)
EXTENDS Settings

CONSTANTS
  Loaded(_, _),  \* what loading a file under an environment can end in (LoadConfig)
  Registry,  \* names of the generated tools
  Starts,    \* ways to start: [transport, tool, environ, file, edited]
  Conns,     \* requests that may come
  Grace,     \* the five seconds of a shutdown, in units of time
  None

IsConfig(c) == c.kind = "struct" /\ DOMAIN c.fields = DOMAIN ZeroConfig.fields

ASSUME ServerAssumption ==
  /\ Grace \in Nat
  /\ \A s \in DOMAIN Index : Index[s] \in Int
  /\ None \notin {0, 1, 2, 143}
  /\ \A s \in Starts :
       /\ s.transport \in {"http", "stdio", "cli"}
       /\ \A f \in {s.file, s.edited} :
            \A c \in Loaded(f, s.environ) : c \in {Panicked, Failed} \/ IsConfig(c)

VARIABLES
  start,     \* the way it was started
  file,      \* the configuration file as it is now
  main,      \* where the main goroutine is
  cfg,       \* the configuration it has loaded
  tools,     \* tools registered, listed or called, each with its owner
  listener,  \* by HTTP server: whether it takes requests
  conns,     \* by request: the server it came to, its kind and how it stands
  signal,    \* it has been told to stop
  grace,     \* what is left of the time for shutting down
  exit       \* the exit code

vars == <<start, file, main, cfg, tools, listener, conns, signal, grace, exit>>

\* In the order they are shut down.
Servers == <<"mcp", "mgmt", "pprof">>

Places == {"load", "configured", "expose", "virtual", "registered", "auth", "serving",
           "stdio", "list", "list virtual", "listed", "call", "called", "deferred", "gone"}

Owned(names, owner) == {[name |-> n, owner |-> owner] : n \in names}
Names == {t.name : t \in tools}

Open(c) == conns[c] # None /\ conns[c].state = "open"

TypeOK ==
  /\ start \in Starts /\ file \in {start.file, start.edited}
  /\ main \in Places \cup {Servers[i] : i \in DOMAIN Servers}
  /\ IsConfig(cfg)
  /\ \A t \in tools : t.owner = "native" => t.name \in Registry
  /\ listener \in [{Servers[i] : i \in DOMAIN Servers} ->
                     {"off", "starting", "open", "failed", "closed"}]
  /\ \A c \in Conns : Open(c) => listener[conns[c].server] \in {"open", "closed"} /\ exit = None
  /\ signal => start.transport = "http"
  /\ grace \in 0 .. Grace
  /\ exit \in {None, 0, 1, 2, 143} /\ (exit = None <=> main # "gone")

Init ==
  /\ start \in Starts /\ file = start.file
  /\ main = "load" /\ cfg = ZeroConfig /\ tools = {}
  /\ listener = [s \in {Servers[i] : i \in DOMAIN Servers} |-> "off"]
  /\ conns = [c \in Conns |-> None]
  /\ signal = FALSE /\ grace = Grace /\ exit = None

\* The user writes the file while the program starts.
Edit ==
  /\ main \in {"expose", "virtual", "list", "list virtual", "call"}
  /\ file' = start.edited
  /\ UNCHANGED <<start, main, cfg, tools, listener, conns, signal, grace, exit>>

Exit(code) ==
  /\ main' = "gone" /\ exit' = code
  /\ conns' = [c \in Conns |-> IF Open(c) THEN [conns[c] EXCEPT !.state = "cut"] ELSE conns[c]]
  /\ UNCHANGED listener

Goto(place) == main' = place /\ UNCHANGED <<conns, exit, listener>>

(***************************************************************************)
(* Start                                                                   *)
(***************************************************************************)
Load ==
  /\ main = "load"
  /\ \E c \in Loaded(file, start.environ) :
       /\ cfg' = IF c \in {Panicked, Failed} THEN cfg ELSE c
       /\ IF c = Panicked THEN Exit(2) ELSE Goto("configured")
  /\ UNCHANGED <<start, file, tools, signal, grace>>

Pools(c) == c.fields["middleware"].fields["http_client_pool"].entries

\* Zero stands for the default.
PoliciesCompile(c) ==
  /\ "default" \notin DOMAIN Pools(c)
  /\ \A p \in DOMAIN Pools(c) : Index[Pools(c)[p].fields["max_conns_per_host"].value] >= 0

\* And then InitOIDC (OIDC.StartupRefresh), endpoints, metrics and tracing.
ConfigureHTTPMiddleware ==
  /\ main = "configured"
  /\ IF ~PoliciesCompile(cfg) THEN Exit(1)
     ELSE Goto(CASE start.transport \in {"http", "stdio"} -> "expose"
                 [] start.transport = "cli" -> IF start.tool = "list" THEN "list" ELSE "call")
  /\ UNCHANGED <<start, file, cfg, tools, signal, grace>>

(***************************************************************************)
(* Which tools there are.                                                  *)
(***************************************************************************)
Expose(c) == c.fields["native_tools"].fields["expose"]
ExposeAll(c) == Expose(c).elems = <<>>
Setting(c, name) == Pointee(Expose(c)).fields[name]
NamesIn(c, name) == {e.value : e \in {Setting(c, name).elems[i] : i \in DOMAIN Setting(c, name).elems}}
RegisterAll(c) == Setting(c, "register_all_tools_by_default").value = "true"

Conflict(c) == ~ExposeAll(c) /\ NamesIn(c, "includes") \cap NamesIn(c, "excludes") # {}

resolveEnabledTools(c) ==
  IF ExposeAll(c) THEN Registry
  ELSE ((IF RegisterAll(c) THEN Registry ELSE {}) \ NamesIn(c, "excludes"))
         \cup NamesIn(c, "includes")

\* A pipeline is admitted if it is valid and its policies are among those that
\* were compiled from the configuration c.
Admitted(t, c) == t.valid /\ t.pool \in {"default"} \cup DOMAIN Pools(c)

\* engine.New and Tools read the file themselves; one tool that is not admitted
\* leaves none of them, and tools that are disabled are not looked at.
virtualTools(f, c) ==
  IF ~f.toolsDecode THEN {}
  ELSE LET enabled == {t \in {f.tools[i] : i \in DOMAIN f.tools} : t.enabled}
       IN  IF \A t \in enabled : Admitted(t, c) THEN {t.name : t \in enabled} ELSE {}

\* Mutant: what is included is registered, whether it is there or not.
RegisterIncluded ==
  /\ main = "expose"
  /\ IF Conflict(cfg) THEN Exit(1) /\ UNCHANGED tools
     ELSE /\ tools' = Owned(resolveEnabledTools(cfg), "native")
          /\ Goto("virtual")
  /\ UNCHANGED <<start, file, cfg, signal, grace>>

RegisterNative ==
  /\ main = "expose"
  /\ IF Conflict(cfg) THEN Exit(1) /\ UNCHANGED tools
     ELSE /\ tools' = Owned(Registry \cap resolveEnabledTools(cfg), "native")
          /\ Goto("virtual")
  /\ UNCHANGED <<start, file, cfg, signal, grace>>

\* AddTool replaces a tool of the same name.
RegisterVirtual ==
  /\ main = "virtual"
  /\ LET vt == virtualTools(file, cfg)
     IN  tools' = {t \in tools : t.name \notin vt} \cup Owned(vt, "virtual")
  /\ Goto("registered")
  /\ UNCHANGED <<start, file, cfg, signal, grace>>

(***************************************************************************)
(* The command line: it loads the configuration once more.                 *)
(***************************************************************************)
\* Mutant: excluding a tool is enough to have the others.
cliExcludes(c) ==
  IF NamesIn(c, "includes") = {} THEN Registry \ NamesIn(c, "excludes")
                                 ELSE NamesIn(c, "includes")

cliEnabledTools(c) ==
  IF ExposeAll(c) THEN Registry
  ELSE ((IF RegisterAll(c) THEN Registry ELSE {}) \ NamesIn(c, "excludes"))
         \cup NamesIn(c, "includes")

ListNative ==
  /\ main = "list"
  /\ \E c \in Loaded(file, start.environ) :
       IF c = Panicked THEN Exit(2) /\ UNCHANGED tools
       ELSE /\ tools' = Owned(IF c = Failed THEN Registry
                              ELSE Registry \cap cliEnabledTools(c), "native")
            /\ Goto("list virtual")
  /\ UNCHANGED <<start, file, cfg, signal, grace>>

ListVirtual ==
  /\ main = "list virtual"
  /\ tools' = tools \cup Owned(virtualTools(file, cfg), "virtual")
  /\ Goto("listed")
  /\ UNCHANGED <<start, file, cfg, signal, grace>>

CallNative ==
  /\ main = "call" /\ start.tool \in Registry
  /\ \E c \in Loaded(file, start.environ) :
       /\ cfg' = IF c \in {Panicked, Failed} THEN cfg ELSE c
       /\ tools' = IF c # Panicked /\ (c = Failed \/ start.tool \in cliEnabledTools(c))
                   THEN Owned({start.tool}, "native") ELSE {}
       /\ IF c = Panicked THEN Exit(2) ELSE Goto("called")
  /\ UNCHANGED <<start, file, signal, grace>>

CallVirtual ==
  /\ main = "call" /\ start.tool \notin Registry
  /\ tools' = Owned({start.tool} \cap virtualTools(file, cfg), "virtual")
  /\ Goto("called")
  /\ UNCHANGED <<start, file, cfg, signal, grace>>

\* A tool that is not found or not enabled is an error, and one that is called
\* may end in one.
EndCommand ==
  /\ \/ main = "listed" /\ Exit(0)
     \/ main = "called" /\ \E code \in {0, 1} : (tools = {} => code = 1) /\ Exit(code)
  /\ UNCHANGED <<start, file, cfg, tools, signal, grace>>

(***************************************************************************)
(* stdio: ServeStdio ends with its input, or with an error.                *)
(***************************************************************************)
ServeStdio ==
  /\ start.transport = "stdio"
  /\ \/ main = "registered" /\ Goto("stdio")
     \/ main = "stdio" /\ \E code \in {0, 1} : Exit(code)
  /\ UNCHANGED <<start, file, cfg, tools, signal, grace>>

(***************************************************************************)
(* http                                                                    *)
(***************************************************************************)
AuthEnabled(c) ==
  c.fields["server"].fields["auth"].fields["oidc"].fields["enabled"].value = "true"

\* IsEnabled: management is on unless it is switched off.
Enabled(s, c) ==
  LET mgmt == c.fields["mgmt"].fields
  IN CASE s = "mcp"   -> TRUE
       [] s = "mgmt"  -> mgmt["enabled"].elems = <<>> \/ Pointee(mgmt["enabled"]).value = "true"
       [] s = "pprof" -> mgmt["pprof"].fields["enabled"].value = "true"

\* From here on a signal is noticed instead of killing the process.
NotifyContext ==
  /\ main = "registered" /\ start.transport = "http"
  /\ Goto("auth")
  /\ UNCHANGED <<start, file, cfg, tools, signal, grace>>

\* With inbound authentication its keys are fetched first, which can fail, and
\* does when the signal comes meanwhile and the context ends.
StartServers ==
  /\ main = "auth"
  /\ \/ /\ main' = "serving"
        /\ listener' = [s \in DOMAIN listener |-> IF Enabled(s, cfg) THEN "starting" ELSE "off"]
        /\ UNCHANGED <<conns, exit>>
     \/ AuthEnabled(cfg) /\ Exit(1)
  /\ UNCHANGED <<start, file, cfg, tools, signal, grace>>

\* In a goroutine of its own.  If the port is taken, that ends the process for
\* the MCP server, and is logged for the others.  ListenAndServe of a server that
\* has been shut down before does nothing.
Listen(s) ==
  /\ exit = None /\ listener[s] = "starting"
  /\ \/ listener' = [listener EXCEPT ![s] = "open"] /\ UNCHANGED <<main, conns, exit>>
     \/ s = "mcp" /\ Exit(1)
     \/ /\ s # "mcp"
        /\ listener' = [listener EXCEPT ![s] = "failed"] /\ UNCHANGED <<main, conns, exit>>
  /\ UNCHANGED <<start, file, cfg, tools, signal, grace>>

\* A stream (GET /mcp) never ends by itself.
Connect(c, s, kind) ==
  /\ conns[c] = None /\ listener[s] = "open" /\ exit = None
  /\ kind = "stream" => s = "mcp"
  /\ conns' = [conns EXCEPT ![c] = [server |-> s, kind |-> kind, state |-> "open"]]
  /\ UNCHANGED <<start, file, main, cfg, tools, listener, signal, grace, exit>>

\* A call is answered, or its client goes, as the client of a stream may.
Finish(c) ==
  /\ Open(c)
  /\ conns' = [conns EXCEPT ![c].state = "done"]
  /\ UNCHANGED <<start, file, main, cfg, tools, listener, signal, grace, exit>>

Signal ==
  /\ start.transport = "http" /\ exit = None /\ ~signal
  /\ IF main \in {"load", "configured", "expose", "virtual", "registered"}
     THEN Exit(143) /\ UNCHANGED signal
     ELSE signal' = TRUE /\ UNCHANGED <<main, conns, exit, listener>>
  /\ UNCHANGED <<start, file, cfg, tools, grace>>

\* http.Server.Shutdown stops taking requests first.
Close(s) == IF listener[s] = "off" THEN listener ELSE [listener EXCEPT ![s] = "closed"]

BeginShutdown ==
  /\ main = "serving" /\ signal
  /\ main' = "mcp" /\ listener' = Close("mcp")
  /\ UNCHANGED <<start, file, cfg, tools, conns, signal, grace, exit>>

Drained(s) == \A c \in Conns : Open(c) => conns[c].server # s

\* Mutant: Shutdown without a time limit.
NoTimeLimit == FALSE

\* Mutant: Shutdown under the context that the signal has already ended.
EndedContext == signal

TimeIsOver == grace = 0

\* Shutdown returns when all requests are done or the time is over; what is left
\* then is cut by Close.  All servers share one time.
Shutdown(i) ==
  /\ main = Servers[i]
  /\ Drained(Servers[i]) \/ TimeIsOver
  /\ conns' = [c \in Conns |-> IF Open(c) /\ conns[c].server = Servers[i]
                               THEN [conns[c] EXCEPT !.state = "cut"] ELSE conns[c]]
  /\ IF i = Len(Servers) THEN main' = "deferred" /\ UNCHANGED listener
     ELSE main' = Servers[i + 1] /\ listener' = Close(Servers[i + 1])
  /\ UNCHANGED <<start, file, cfg, tools, signal, grace, exit>>

Tick ==
  /\ \E i \in DOMAIN Servers : main = Servers[i]
  /\ grace > 0 /\ grace' = grace - 1
  /\ UNCHANGED <<start, file, main, cfg, tools, listener, conns, signal, exit>>

\* The deferred calls: tracing and OIDC shut down (OIDC.ShutdownEnds).
EndServer ==
  /\ main = "deferred" /\ Exit(0)
  /\ UNCHANGED <<start, file, cfg, tools, signal, grace>>

Serve ==
  \/ StartServers \/ BeginShutdown
  \/ \E i \in DOMAIN Servers : Shutdown(i)
  \/ EndServer

Main ==
  \/ Load \/ ConfigureHTTPMiddleware \/ RegisterNative \/ RegisterVirtual
  \/ ListNative \/ ListVirtual \/ CallNative \/ CallVirtual \/ EndCommand
  \/ ServeStdio
  \/ NotifyContext \/ Serve

Next ==
  \/ Main
  \/ Edit \/ Signal \/ Tick
  \/ \E s \in DOMAIN listener : Listen(s)
  \/ \E c \in Conns :
       \/ Finish(c)
       \/ \E s \in DOMAIN listener, kind \in {"call", "stream"} : Connect(c, s, kind)

\* From NotifyContext on the main goroutine is scheduled, and time
\* passes.  Requests, listeners and signals owe nothing.
Fairness == WF_vars(Serve) /\ WF_vars(Tick)

Spec == Init /\ [][Next]_vars /\ Fairness

-----------------------------------------------------------------------------
\* Properties

\* A tool is offered by what src/README.md:272-290 says of the section `expose`.
Offered(n, c) ==
  \/ ExposeAll(c)
  \/ n \in NamesIn(c, "includes")
  \/ RegisterAll(c) /\ n \notin NamesIn(c, "excludes")

\* What a version of the file and the environment give: a file that cannot be
\* read counts as none.
Readings(f) == {IF c = Failed THEN ZeroConfig ELSE c : c \in Loaded(f, start.environ) \ {Panicked}}

Versions == {start.file, file}

\* The server, the listing and the call, which decide it each by their own
\* code and read the file at several moments, offer the same tools.  The
\* generated ones follow the rule of the documentation on some version of the
\* file.  The virtual ones are all that some version gives, or none when one of
\* them needs a pool that the version the process was started with lacks, for its
\* pools are the compiled ones: an edit meanwhile can mix the tools of one version
\* with the pools of another, and even leave no virtual tool where both versions
\* give some, but nothing else.  For the server the rule and the pools are of one
\* reading.  A call takes a generated tool where the server has a virtual one of
\* the same name.
ToolsAreAsConfigured ==
  main \in {"registered", "listed", "called"} =>
    \E f, g \in Versions : \E b \in Readings(start.file), c \in Readings(f) :
      /\ main = "registered" => b = c /\ ~Conflict(c)
      /\ LET native == {n \in Registry : Offered(n, c)}
             virtual == virtualTools(g, b)
         IN  IF main # "called" THEN Names = native \cup virtual
             ELSE Names = {start.tool} \cap (native \cup (virtual \ Registry))

\* When the server is told to stop, a request that is still being answered is
\* cut only when the whole grace period has passed, also one of the second and
\* third server, and whatever streams are open.  Of what else could cut one, the
\* failure of a listener at startup is in this model; the servers' own read and
\* write timeouts are not.
GraceIsGiven ==
  \A c \in Conns : conns[c] # None /\ conns[c].state = "cut" =>
    exit = 1 \/ (signal /\ grace = 0)

\* A server that is told to stop does, with open streams and with calls that
\* never end: main.templ:505 gives the time limit for that reason.
ProcessEnds == signal ~> exit # None
=============================================================================
