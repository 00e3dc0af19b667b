----------------------------- MODULE Converter -----------------------------
(***************************************************************************)
(* From an OpenAPI document to a set of tools (pkg/converter): the filters *)
(* on operation ids and the names of the tools.  Schemas, arguments and    *)
(* responses are part of an operation's `request`, a value.                *)
(*                                                                         *)
(* The paths and the operations of a path are Go maps, so the order in     *)
(* which the operations are visited differs from one run to the next.      *)
(***************************************************************************)
EXTENDS Naturals, Sequences, FiniteSets

CONSTANTS
  Ids,         \* operation ids, given in the document or made from the path
  Requests,    \* methods and paths with their arguments
  Documents,   \* each one a set of operations
  PascalCase,  \* an id's tool name: truncateToolName
  ToLower,     \* a tool name without its case
  Identifiers  \* the names that are Go identifiers when something follows

Operation == [id: Ids, request: Requests]

ASSUME ConverterAssumption ==
  /\ PascalCase \in [Ids -> STRING]
  /\ \A id \in Ids : PascalCase[id] \in DOMAIN ToLower
  /\ \A doc \in Documents :
       /\ doc \subseteq Operation /\ IsFiniteSet(doc)
       /\ \A o, p \in doc : o.request = p.request => o = p

(***************************************************************************)
(* The filters                                                             *)
(***************************************************************************)
\* The checks of NewConverter on --includes and --excludes.
Accepts(doc, includes, excludes) ==
  /\ includes \cap excludes = {}
  /\ includes \cup excludes \subseteq {o.id : o \in doc}

shouldIncludeOperation(id, includes, excludes) ==
  id \notin excludes /\ (includes = {} \/ id \in includes)

Included(doc, includes, excludes) ==
  {o \in doc : shouldIncludeOperation(o.id, includes, excludes)}

(***************************************************************************)
(* The names.  A tool whose name nobody else has, whatever its case, keeps *)
(* it; the others get a hash of their id and of how many of them were      *)
(* visited before.  Hashes of different texts are taken to differ.         *)
(***************************************************************************)
Colliding(ops, o) == {p \in ops : ToLower[PascalCase[p.id]] = ToLower[PascalCase[o.id]]}

\* The orders in which the operations can be visited.
Visits(ops) ==
  {f \in [ops -> 1 .. Cardinality(ops)] : \A o, p \in ops : f[o] = f[p] => o = p}

collisionIdx(ops, visit, o) == Cardinality({p \in Colliding(ops, o) : visit[p] <= visit[o]})

ToolName(ops, visit, o) ==
  IF Colliding(ops, o) = {o}
  THEN <<PascalCase[o.id]>>
  ELSE <<PascalCase[o.id], o.id, collisionIdx(ops, visit, o)>>

\* A file's name where case does not count.
FileKey(name) == [name EXCEPT ![1] = ToLower[name[1]]]

\* The sets of tools that Convert can return.
Convert(doc, includes, excludes) ==
  LET ops == Included(doc, includes, excludes)
  IN  {{[name |-> ToolName(ops, visit, o), op |-> o] : o \in ops} : visit \in Visits(ops)}

ToolNames ==
  {<<PascalCase[id]>> : id \in Ids} \cup
  UNION {{<<PascalCase[id], id, i>> : id \in Ids, i \in 1 .. Cardinality(doc)} :
           doc \in Documents}

Tool == [name: ToolNames, op: Operation]

Valid(tool) == tool.name[1] \in Identifiers
=============================================================================
