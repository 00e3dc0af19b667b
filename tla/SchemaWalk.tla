----------------------------- MODULE SchemaWalk -----------------------------
(***************************************************************************)
(* How the converter walks the schemas of one operation (applySchema and   *)
(* writeSchemaMarkdown in converter/).  Schemas refer to each other by     *)
(* pointers, so a document is a graph, possibly with cycles, and each walk *)
(* turns what it reaches into a tree: a schema is expanded where the walk  *)
(* meets it first, and cut, which is to say replaced by an empty schema or *)
(* a note, wherever it is met again.                                       *)
(*                                                                         *)
(* An operation is walked several times, each time with a new visited map: *)
(* once per parameter, once for all content types of the request body,     *)
(* once per field of an upload and once per response.  The first three     *)
(* make arguments ("request"), the last makes documentation ("response").  *)
(***************************************************************************)
EXTENDS Integers, Sequences, FiniteSets

CONSTANTS
  Node,       \* schemas, each standing for one *openapi3.Schema
  Documents,  \* documents of one operation each
  Operations  \* by document: the operation's schemas by node, and the walks over them

\* The keywords by which a schema contains others.
Kinds == {"items", "props", "extra", "oneOf", "anyOf", "allOf", "not"}

\* A link from one schema to another.  Its key is the position in a list, the
\* place of a property's name in the alphabet, or 1 where there is only one.
Link == [from : Node \cup {"operation"}, kind : Kinds \cup {"root"}, key : Nat, to : Node]

ASSUME WalkAssumption ==
  /\ "operation" \notin Node
  /\ \A d \in Documents :
       /\ \A n \in Node, k \in Kinds :
            LET sub == Operations[d].schemas[n].sub[k]
            IN  \A x \in DOMAIN sub : x \in Nat /\ sub[x] \in Node
       /\ Operations[d].walks \in Seq([use : {"request", "response"}, roots : SUBSET Link])
       /\ \A i \in DOMAIN Operations[d].walks :
            LET w == Operations[d].walks[i]
            IN  w.use = "response" => \A e, f \in w.roots : e = f

VARIABLES
  chosen,   \* the document converted
  walk,     \* which of its walks is on
  visited,
  stack,    \* the schemas being expanded, outermost first
  kept,     \* links this walk has followed
  cut,      \* links it has met and not followed
  results   \* the links cut by the walks that have ended

vars == <<chosen, walk, visited, stack, kept, cut, results>>

op == Operations[chosen]

Schema(n) == op.schemas[n]

use == op.walks[walk].use

\* hasArrayType and hasObjectType: the type is among those listed...
HasType(s, t) == \E i \in DOMAIN s.types : s.types[i] = t

\* ...isArray and isObject: it is the first of them.
IsType(s, t) == s.types # <<>> /\ s.types[1] = t

Typed(s, t, u) == IF u = "response" THEN IsType(s, t) ELSE HasType(s, t)

\* The keywords a walk looks behind: without the type an array's items and an
\* object's properties are not seen.
Followed(s, u) ==
  {"oneOf", "anyOf", "allOf", "not"}
    \cup (IF Typed(s, "array", u) THEN {"items"} ELSE {})
    \cup (IF Typed(s, "object", u) THEN {"props", "extra"} ELSE {})

Parts(n) ==
  UNION {{[from |-> n, kind |-> k, key |-> x, to |-> Schema(n).sub[k][x]] :
            x \in DOMAIN Schema(n).sub[k]} : k \in Followed(Schema(n), use)}

RequestOrder  == <<"root", "items", "props", "extra", "oneOf", "anyOf", "allOf", "not">>
ResponseOrder == <<"root", "props", "items", "oneOf", "anyOf", "allOf", "not", "extra">>

Rank(k) ==
  LET order == IF use = "response" THEN ResponseOrder ELSE RequestOrder
  IN  CHOOSE i \in DOMAIN order : order[i] = k

\* Go maps iterated as they come: content types and, for arguments, properties.
Unordered(k) == k = "root" \/ (k = "props" /\ use = "request")

Before(e, f) ==
  \/ Rank(e.kind) < Rank(f.kind)
  \/ /\ e.kind = f.kind
     /\ ~Unordered(e.kind)
     /\ e.key < f.key

Top == stack[Len(stack)]

\* What the innermost schema, or the operation itself, has left to look at.
Pending ==
  (IF stack = <<>> THEN op.walks[walk].roots ELSE Parts(Top)) \ (kept \cup cut)

Ready == {e \in Pending : \A f \in Pending : ~Before(f, e)}

Init ==
  /\ chosen \in Documents
  /\ walk = 1
  /\ visited = {}
  /\ stack = <<>>
  /\ kept = {}
  /\ cut = {}
  /\ results = <<>>

Walking == walk <= Len(op.walks)

\* Mutant: the mark is set on the wrong schema.
MarkParent(e) ==
  /\ e.to \notin visited
  /\ visited' = visited \cup {e.from}
  /\ stack' = Append(stack, e.to)
  /\ kept' = kept \cup {e}
  /\ UNCHANGED <<chosen, walk, cut, results>>

\* A schema met for the first time: its parts come next.
Expand(e) ==
  /\ e.to \notin visited
  /\ visited' = visited \cup {e.to}
  /\ stack' = Append(stack, e.to)
  /\ kept' = kept \cup {e}
  /\ UNCHANGED <<chosen, walk, cut, results>>

\* A schema met before in this walk, whether it is being expanded (a cycle) or
\* has been (it is shared).
Cut(e) ==
  /\ e.to \in visited
  /\ cut' = cut \cup {e}
  /\ UNCHANGED <<chosen, walk, visited, stack, kept, results>>

\* Mutant: only cycles are cut, since the mark is taken back on the way out.
Unmark ==
  /\ Walking
  /\ stack # <<>>
  /\ Pending = {}
  /\ stack' = SubSeq(stack, 1, Len(stack) - 1)
  /\ visited' = visited \ {Top}
  /\ UNCHANGED <<chosen, walk, kept, cut, results>>

\* applySchema returns.
Return ==
  /\ Walking
  /\ stack # <<>>
  /\ Pending = {}
  /\ stack' = SubSeq(stack, 1, Len(stack) - 1)
  /\ UNCHANGED <<chosen, walk, visited, kept, cut, results>>

\* The argument or response is made; the next one starts with a map of its own.
EndWalk ==
  /\ Walking
  /\ stack = <<>>
  /\ Pending = {}
  /\ walk' = walk + 1
  /\ visited' = {}
  /\ kept' = {}
  /\ cut' = {}
  /\ results' = Append(results, cut)
  /\ UNCHANGED <<chosen, stack>>

Next ==
  \/ Walking /\ \E e \in Ready : Expand(e) \/ Cut(e)
  \/ Return
  \/ EndWalk

Spec == Init /\ [][Next]_vars

Done == ~Walking

-----------------------------------------------------------------------------
TypeOK ==
  /\ chosen \in Documents
  /\ walk \in 1 .. Len(op.walks) + 1
  /\ visited \subseteq Node
  /\ stack \in Seq(Node)
  /\ kept \subseteq Link
  /\ cut \subseteq Link
  /\ results \in Seq(SUBSET Link)
  /\ Len(results) = walk - 1

\* applySchema and writeSchemaMarkdown are never entered for a schema that they
\* are still expanding, and what they have met they expand in one place only.
EachOnce ==
  /\ \A i, j \in DOMAIN stack : stack[i] = stack[j] => i = j
  /\ \A n \in visited : \E e \in kept : e.to = n
  /\ \A e, f \in kept : e.to = f.to => e = f

\* A walk that ends has looked behind every link of everything it reached.
NothingOmitted ==
  Walking /\ stack = <<>> /\ Pending = {} =>
    /\ \A e \in op.walks[walk].roots : e.to \in visited
    /\ \A n \in visited : \A e \in Parts(n) : e \in kept \cup cut /\ e.to \in visited

\* Whatever the sharing and the cycles, a walk makes a tree of the graph: the
\* recursion is no deeper than there are schemas, and what is missing in one
\* place of an argument is there in exactly one other (requestArgsSchema.go:15-20,
\* responseMarkdown.go:34-46).
WalkMakesATree == EachOnce /\ NothingOmitted

\* The same document gives the same documentation: at no point does the
\* description of a response depend on the order of a map (responseMarkdown.go:86-89).
\* Arguments have no such property.
ResponsesAreStable == Walking /\ use = "response" => Cardinality(Ready) <= 1
=============================================================================
