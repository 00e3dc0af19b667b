------------------------------ MODULE MCServer ------------------------------
(* Files, environments and ways to start a server, for TLC. *)
EXTENDS ConfiguredServer, Decoding

MCIndex == "0" :> 0 @@ "1" :> 1 @@ "30" :> 30 @@ "-1" :> -1
MCEnvForm == "my-api" :> "my_api"
MCRegistry == {"A", "B"}

Tool(name, enabled, valid, pool) ==
  [name |-> name, enabled |-> enabled, valid |-> valid, pool |-> pool]

File(settings, vts) ==
  [decodes |-> TRUE, settings |-> settings, toolsDecode |-> TRUE, tools |-> vts]

ExposeOnly(all, includes, excludes) ==
  [native_tools |-> [expose |-> [register_all_tools_by_default |-> all,
                                 includes |-> includes, excludes |-> excludes]]]

Absent == File(<<>>, <<>>)
Plain  == File([server |-> [read_timeout_seconds |-> "1"]], <<Tool("V", TRUE, TRUE, "default")>>)

\* Pools and virtual tools, one that is disabled, one that takes the place of A.
Pooled(limit) ==
  File([middleware |-> [http_client_pool |-> [small |-> [max_conns_per_host |-> limit]]]],
       <<Tool("V", TRUE, TRUE, "small"), Tool("W", FALSE, FALSE, "default"),
         Tool("A", TRUE, TRUE, "default")>>)

\* Filters that agree and that do not, upstreams whose names collide in the
\* environment, files that cannot be decoded as a whole or in part.
Files ==
  {Absent, Plain, Pooled("1"), Pooled("-1"),
   [Absent EXCEPT !.decodes = FALSE, !.toolsDecode = FALSE], [Plain EXCEPT !.decodes = FALSE],
   File(ExposeOnly("true", <<>>, <<"A">>), <<Tool("V", TRUE, FALSE, "default")>>),
   [File(ExposeOnly("false", <<"A">>, <<>>), <<>>) EXCEPT !.toolsDecode = FALSE],
   File(ExposeOnly("true", <<"A">>, <<"A">>), <<>>),
   File(ExposeOnly("false", <<"B", "X">>, <<"B">>), <<Tool("A", TRUE, TRUE, "none")>>),
   File([upstream |-> ("default" :> [endpoint |-> "e"] @@ "my-api" :> [endpoint |-> "f"]
                        @@ "my_api" :> [enable_mcp_session_forward |-> "true"])], <<>>),
   File([mgmt |-> [metrics |-> [labels |-> [x |-> "z"]]]], <<>>)}

Env(path, value) == [path |-> path, value |-> value]
expose == <<"native_tools", "expose">>

\* Slices that grow, values that cannot be read, places that are not there, and
\* two that make the program panic: a label that is, and a negative index.
Environs ==
  {<<>>,
   <<Env(expose \o <<"includes", "1">>, "B"), Env(expose \o <<"excludes", "0">>, "A"),
     Env(expose \o <<"includes", "0">>, "X")>>,
   <<Env(expose \o <<"register_all_tools_by_default">>, "1")>>,
   <<Env(expose \o <<"unknown">>, "B")>>,
   <<Env(<<"upstream", "my_api", "endpoint">>, "g"),
     Env(<<"upstream", "default", "enable_mcp_session_forward">>, "true")>>,
   <<Env(<<"upstream", "new", "endpoint">>, "g"), Env(<<"server", "read_timeout_seconds">>, "x")>>,
   <<Env(<<"middleware", "http_client_pool", "small", "max_conns_per_host">>, "30"),
     Env(<<"mgmt", "metrics", "labels", "x">>, "y")>>,
   <<Env(<<"mgmt", "enabled">>, "false"), Env(<<"mgmt", "pprof", "enabled">>, "true"),
     Env(<<"server", "auth", "oidc", "enabled">>, "true")>>,
   <<Env(expose \o <<"includes", "-1">>, "A")>>}

Started(transport, tool, environ, f, edited) ==
  [transport |-> transport, tool |-> tool, environ |-> environ, file |-> f, edited |-> edited]

\* Every file as it is, and changed into the one with pools or out of it.
Changes == {<<f, f>> : f \in Files} \cup {<<f, Pooled("1")>> : f \in Files}
             \cup {<<Pooled("1"), f>> : f \in Files}

Commands ==
  {Started("cli", t, e, c[1], c[2]) : t \in {"list", "A", "V"}, e \in Environs, c \in Changes}

Servings ==
  {Started(t, None, e, c[1], c[2]) : t \in {"stdio"}, e \in Environs, c \in Changes}
    \cup {Started("http", None, e, f, f) : e \in Environs, f \in Files}

MCStarts == Commands \cup Servings

-----------------------------------------------------------------------------
MCDecoded(settings) == Unmarshal(DefaultConfig, settings)

\* The places there are, with the first two of each slice.
RECURSIVE PlacesIn(_)
PlacesIn(v) ==
  LET Below(seg, w) == {<<seg>> \o q : q \in PlacesIn(w)}
  IN  {<<>>} \cup
      CASE v.kind = "struct" -> UNION {Below(f, v.fields[f]) : f \in DOMAIN v.fields}
        [] v.kind = "map" -> UNION {Below(k, v.entries[k]) : k \in DOMAIN v.entries}
        [] v.kind = "slice" -> UNION {Below(i, Elem(v, MCIndex[i])) : i \in {"0", "1"}}
        [] v.kind = "ptr" -> PlacesIn(Pointee(v))
        [] OTHER -> {}

\* And what the variables name, with whichever upstream.
MCPaths ==
  LET settings == {f.settings : f \in {g \in Files : g.decodes}}
      named == {e[i].path : <<e, i>> \in {x \in Environs \X (1 .. 3) : x[2] \in DOMAIN x[1]}}
  IN  named \cup UNION {PlacesIn(MCDecoded(s)) : s \in settings}
=============================================================================
