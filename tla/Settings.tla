------------------------------ MODULE Settings ------------------------------
(***************************************************************************)
(* The settings of a generated server as Go values (mcpconfig/types.go): a *)
(* value is a tree whose nodes have a Go kind.  A part of Config stands for *)
(* the whole; floats, which are read as integers are, and fields of type   *)
(* interface{}, which the code does not set, are not in it.                *)
(***************************************************************************)
EXTENDS Integers, Sequences, FiniteSets

CONSTANT Index  \* by text that is a number: the number

-----------------------------------------------------------------------------
Str(x) == [kind |-> "string", value |-> x]
Bool(x) == [kind |-> "bool", value |-> x]
Int64(x) == [kind |-> "int", value |-> x]
Struct(fields) == [kind |-> "struct", fields |-> fields]

\* A pointer to nothing has no elements, another has one.  `zero` is the zero
\* value of what a pointer, slice or map can hold.
Pointer(zero, elems) == [kind |-> "ptr", zero |-> zero, elems |-> elems]
Slice(zero, elems) == [kind |-> "slice", zero |-> zero, elems |-> elems]
Map(zero, entries) == [kind |-> "map", zero |-> zero, entries |-> entries]

UpstreamEntryConfig(endpoint, forward) ==
  Struct([endpoint |-> Str(endpoint), enable_mcp_session_forward |-> Bool(forward)])

NativeToolsExposeConfig ==
  Struct([register_all_tools_by_default |-> Bool("false"),
          includes |-> Slice(Str(""), <<>>), excludes |-> Slice(Str(""), <<>>)])

HTTPClientPoolConfig(limit) == Struct([max_conns_per_host |-> Int64(limit)])

ConfigOf(timeout, upstream, mgmt) ==
  Struct([server |-> Struct([read_timeout_seconds |-> Int64(timeout),
                             auth |-> Struct([oidc |-> Struct([enabled |-> Bool("false")])])]),
          upstream |-> Map(UpstreamEntryConfig("", "false"), upstream),
          middleware |-> Struct([http_client_pool |-> Map(HTTPClientPoolConfig("0"), <<>>)]),
          native_tools |-> Struct([expose |-> Pointer(NativeToolsExposeConfig, <<>>)]),
          mgmt |-> Struct([enabled |-> Pointer(Bool("false"), mgmt),
                           pprof |-> Struct([enabled |-> Bool("false")]),
                           metrics |-> Struct([labels |-> Map(Str(""), <<>>)])])])

\* &Config{}
ZeroConfig == ConfigOf("0", <<>>, <<>>)

Pointee(v) == IF v.elems = <<>> THEN v.zero ELSE v.elems[1]

\* Go values: each node has what its kind has, and no pointer points to a pointer.
IsPlain(v) ==
  \/ v.kind \in {"string", "bool", "int"} /\ v = [kind |-> v.kind, value |-> v.value]
  \/ /\ v.kind = "struct" /\ v = Struct(v.fields)
     /\ v.fields = [f \in DOMAIN v.fields |-> v.fields[f]]
  \/ /\ v.kind = "map" /\ v = Map(v.zero, v.entries)
     /\ v.entries = [k \in DOMAIN v.entries |-> v.entries[k]]
  \/ /\ v.kind = "slice" /\ v = Slice(v.zero, v.elems)
     /\ Len(v.elems) \in Nat /\ v.elems = [i \in 1 .. Len(v.elems) |-> v.elems[i]]

IsNode(v) ==
  \/ IsPlain(v)
  \/ v.kind = "ptr" /\ v = Pointer(v.zero, v.elems) /\ IsPlain(Pointee(v))

\* What loading a configuration can end in instead of one.
Panicked == [kind |-> "panic"]
Failed == [kind |-> "error"]
=============================================================================
