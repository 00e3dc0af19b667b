-------------------------- MODULE ToolSchemaProofs --------------------------
(***************************************************************************)
(* The conversion of schemas, for every document, of any number of schemas *)
(* and any values.                                                         *)
(*                                                                         *)
(* The walk.  The recursion does not re-enter a schema, expands each       *)
(* schema it meets in exactly one place, and leaves no link unlooked at:   *)
(* the visited map holds exactly what the kept links lead to, the schemas  *)
(* being expanded are among the visited ones, and a visited schema that is *)
(* no longer being expanded has had all its links met.                     *)
(*                                                                         *)
(* The meaning.  What a schema says of a value is defined by recursion     *)
(* over the graph of schemas and the value at once.  It exists, and there  *)
(* is one only, if no schema is combined from itself: among the places     *)
(* where it could go wrong there would be a first, with a value that nests *)
(* least and a schema not combined from another such schema.               *)
(*                                                                         *)
(* The tool.  Keyword by keyword and link by link, what is written of a    *)
(* schema allows what the document's schema allows, and the same if        *)
(* nothing was lost; hence the requests the API accepts can be made.       *)
(***************************************************************************)
EXTENDS ToolSchema, FiniteSetTheorems, SequenceTheorems, WellFoundedInduction, TLAPS

\* The marks of the map and the links met agree.
Marked ==
  /\ \A i \in DOMAIN stack : stack[i] \in visited
  /\ \A e \in kept \cup cut : e.to \in visited

\* A schema whose expansion has ended has nothing left.
LookedBehind ==
  \A n \in visited :
    \/ \E i \in DOMAIN stack : stack[i] = n
    \/ Parts(n) \subseteq kept \cup cut

IInv == TypeOK /\ EachOnce /\ Marked /\ LookedBehind

-----------------------------------------------------------------------------
LEMMA PartsAreLinks ==
  ASSUME TypeOK, NEW n \in Node
  PROVE  Parts(n) \subseteq Link
<1>1. Followed(Schema(n), use) \subseteq Kinds
  BY DEF Followed, Kinds
<1>2. \A k \in Kinds : \A x \in DOMAIN Schema(n).sub[k] :
        x \in Nat /\ Schema(n).sub[k][x] \in Node
  BY WalkAssumption DEF TypeOK, Schema, op
<1> QED
  BY <1>1, <1>2 DEF Parts, Link

LEMMA RootsAreLinks ==
  ASSUME TypeOK, Walking
  PROVE  /\ op.walks[walk].roots \subseteq Link
         /\ use = "response" => \A e, f \in op.walks[walk].roots : e = f
<1>1. op.walks \in Seq([use : {"request", "response"}, roots : SUBSET Link])
  BY WalkAssumption DEF TypeOK, op
<1>2. walk \in 1 .. Len(op.walks)
  BY <1>1 DEF TypeOK, Walking
<1>3. op.walks[walk] \in [use : {"request", "response"}, roots : SUBSET Link]
  BY <1>1, <1>2, ElementOfSeq
<1>4. use = "response" => \A e, f \in op.walks[walk].roots : e = f
  BY <1>1, <1>2, WalkAssumption DEF TypeOK, op, use
<1> QED
  BY <1>3, <1>4

LEMMA PendingAreLinks ==
  ASSUME TypeOK, Walking
  PROVE  Pending \subseteq Link
<1>1. CASE stack = <<>>
  BY <1>1, RootsAreLinks DEF Pending
<1>2. CASE stack # <<>>
  <2>1. Top \in Node
    BY <1>2 DEF TypeOK, Top
  <2> QED
    BY <1>2, <2>1, PartsAreLinks DEF Pending
<1> QED
  BY <1>1, <1>2

\* What a schema contains does not change within a walk.
LEMMA SameParts ==
  ASSUME UNCHANGED <<chosen, walk>>, NEW n
  PROVE  Parts(n)' = Parts(n)
<1>1. /\ op' = op
      /\ use' = use
  BY DEF op, use
<1>2. Schema(n)' = Schema(n)
  BY <1>1 DEF Schema
<1> QED
  BY <1>1, <1>2 DEF Parts, Followed, Typed, HasType, IsType

-----------------------------------------------------------------------------
LEMMA InitInv == Init => IInv
<1> SUFFICES ASSUME Init PROVE IInv
  OBVIOUS
<1>1. TypeOK
  <2>1. op.walks \in Seq([use : {"request", "response"}, roots : SUBSET Link])
    BY WalkAssumption DEF Init, op
  <2> QED
    BY <2>1 DEF Init, TypeOK
<1>2. EachOnce /\ Marked /\ LookedBehind
  BY DEF Init, EachOnce, Marked, LookedBehind
<1> QED
  BY <1>1, <1>2 DEF IInv

LEMMA ExpandInv ==
  ASSUME IInv, Walking, NEW e \in Ready, Expand(e)
  PROVE  IInv'
<1>1. e \in Link /\ e.to \in Node
  BY PendingAreLinks DEF Ready, IInv, Link
<1>2. /\ stack \in Seq(Node)
      /\ stack' = Append(stack, e.to)
      /\ Len(stack') = Len(stack) + 1
      /\ \A i \in DOMAIN stack : stack'[i] = stack[i]
      /\ stack'[Len(stack) + 1] = e.to
      /\ DOMAIN stack' = DOMAIN stack \cup {Len(stack) + 1}
  BY <1>1 DEF Expand, IInv, TypeOK
<1>3. TypeOK'
  BY <1>1, <1>2 DEF IInv, TypeOK, Expand, op
<1>4. \A i, j \in DOMAIN stack' : stack'[i] = stack'[j] => i = j
  BY <1>2 DEF IInv, EachOnce, Marked, Expand
<1>5. EachOnce'
  BY <1>4 DEF IInv, EachOnce, Marked, Expand
<1>6. Marked'
  BY <1>2 DEF IInv, Marked, Expand
<1>7. LookedBehind'
  <2> SUFFICES ASSUME NEW n \in visited',
                      ~ \E i \in DOMAIN stack' : stack'[i] = n
               PROVE  Parts(n)' \subseteq (kept \cup cut)'
    BY DEF LookedBehind
  <2>1. n \in visited /\ ~ \E i \in DOMAIN stack : stack[i] = n
    BY <1>2 DEF Expand
  <2>2. Parts(n) \subseteq kept \cup cut
    BY <2>1 DEF IInv, LookedBehind
  <2>3. Parts(n)' = Parts(n)
    BY SameParts DEF Expand
  <2> QED
    BY <2>2, <2>3 DEF Expand
<1> QED
  BY <1>3, <1>5, <1>6, <1>7 DEF IInv

LEMMA CutInv ==
  ASSUME IInv, Walking, NEW e \in Ready, Cut(e)
  PROVE  IInv'
<1>1. e \in Link
  BY PendingAreLinks DEF Ready, IInv
<1>2. TypeOK'
  BY <1>1 DEF IInv, TypeOK, Cut, op
<1>3. EachOnce' /\ Marked'
  BY DEF IInv, EachOnce, Marked, Cut
<1>4. LookedBehind'
  <2>1. \A n : Parts(n)' = Parts(n)
    BY SameParts DEF Cut
  <2> QED
    BY <2>1 DEF IInv, LookedBehind, Cut
<1> QED
  BY <1>2, <1>3, <1>4 DEF IInv

LEMMA ReturnInv ==
  ASSUME IInv, Return
  PROVE  IInv'
<1>1. /\ stack \in Seq(Node)
      /\ Len(stack) \in Nat
      /\ Len(stack) > 0
      /\ DOMAIN stack = 1 .. Len(stack)
  BY DEF Return, IInv, TypeOK
<1>2. /\ stack' \in Seq(Node)
      /\ DOMAIN stack' = 1 .. Len(stack) - 1
      /\ \A i \in DOMAIN stack' : stack'[i] = stack[i]
  BY <1>1 DEF Return
<1>3. TypeOK'
  BY <1>2 DEF IInv, TypeOK, Return, op
<1>4. EachOnce' /\ Marked'
  BY <1>1, <1>2 DEF IInv, EachOnce, Marked, Return
<1>5. LookedBehind'
  <2> SUFFICES ASSUME NEW n \in visited',
                      ~ \E i \in DOMAIN stack' : stack'[i] = n
               PROVE  Parts(n)' \subseteq (kept \cup cut)'
    BY DEF LookedBehind
  <2>1. Parts(n) \subseteq kept \cup cut
    <3>1. CASE n = Top
      BY <3>1 DEF Return, Pending
    <3>2. CASE n # Top
      <4>1. ~ \E i \in DOMAIN stack : stack[i] = n
        BY <1>1, <1>2, <3>2 DEF Top
      <4> QED
        BY <4>1 DEF IInv, LookedBehind, Return
    <3> QED
      BY <3>1, <3>2
  <2>2. Parts(n)' = Parts(n)
    BY SameParts DEF Return
  <2> QED
    BY <2>1, <2>2 DEF Return
<1> QED
  BY <1>3, <1>4, <1>5 DEF IInv

LEMMA EndWalkInv ==
  ASSUME IInv, EndWalk
  PROVE  IInv'
<1>1. op.walks \in Seq([use : {"request", "response"}, roots : SUBSET Link])
  BY WalkAssumption DEF IInv, TypeOK, op
<1>2. TypeOK'
  BY <1>1 DEF IInv, TypeOK, EndWalk, Walking, op
<1>3. EachOnce' /\ Marked' /\ LookedBehind'
  BY DEF EachOnce, Marked, LookedBehind, EndWalk
<1> QED
  BY <1>2, <1>3 DEF IInv

LEMMA StutterInv ==
  ASSUME IInv, UNCHANGED vars
  PROVE  IInv'
<1>1. TypeOK' /\ EachOnce' /\ Marked'
  BY DEF IInv, TypeOK, EachOnce, Marked, vars, op
<1>2. \A n : Parts(n)' = Parts(n)
  BY SameParts DEF vars
<1>3. LookedBehind'
  BY <1>2 DEF IInv, LookedBehind, vars
<1> QED
  BY <1>1, <1>3 DEF IInv

LEMMA NextInv == IInv /\ [Next]_vars => IInv'
<1> SUFFICES ASSUME IInv, [Next]_vars PROVE IInv'
  OBVIOUS
<1>1. ASSUME Walking, NEW e \in Ready, Expand(e) PROVE IInv'
  BY <1>1, ExpandInv
<1>2. ASSUME Walking, NEW e \in Ready, Cut(e) PROVE IInv'
  BY <1>2, CutInv
<1>3. CASE Return
  BY <1>3, ReturnInv
<1>4. CASE EndWalk
  BY <1>4, EndWalkInv
<1>5. CASE UNCHANGED vars
  BY <1>5, StutterInv
<1> QED
  BY <1>1, <1>2, <1>3, <1>4, <1>5 DEF Next

\* The inductive invariant: the marks of the visited map, the schemas being
\* expanded and the links met agree at every step of every walk.
THEOREM Invariant == Spec => []IInv
<1> QED
  BY InitInv, NextInv, PTL DEF Spec

\* The state stays of its type for every document.
THEOREM TypeCorrect == Spec => []TypeOK
<1>1. IInv => TypeOK
  BY DEF IInv
<1> QED
  BY <1>1, Invariant, PTL

\* Whatever the document, its sharing and its cycles: no schema is entered while
\* it is being expanded, every schema met is expanded in one place, and a walk
\* that ends has met every link of everything it reached.
THEOREM WalksMakeTrees == Spec => []WalkMakesATree
<1>1. IInv => NothingOmitted
  <2> SUFFICES ASSUME IInv, Walking, stack = <<>>, Pending = {}
               PROVE  /\ \A e \in op.walks[walk].roots : e.to \in visited
                      /\ \A n \in visited : \A e \in Parts(n) :
                           e \in kept \cup cut /\ e.to \in visited
    BY DEF NothingOmitted
  <2>1. \A e \in op.walks[walk].roots : e.to \in visited
    BY DEF Pending, IInv, Marked
  <2>2. \A n \in visited : Parts(n) \subseteq kept \cup cut
    BY DEF IInv, LookedBehind
  <2> QED
    BY <2>1, <2>2 DEF IInv, Marked
<1>2. IInv => WalkMakesATree
  BY <1>1 DEF IInv, WalkMakesATree
<1> QED
  BY <1>2, Invariant, PTL

-----------------------------------------------------------------------------
LEMMA RanksDiffer ==
  ASSUME use = "response", NEW k \in Kinds, NEW l \in Kinds, Rank(k) = Rank(l)
  PROVE  k = l
<1>1. \A m \in Kinds : \E i \in DOMAIN ResponseOrder : ResponseOrder[i] = m
  BY DEF Kinds, ResponseOrder
<1>2. \A m \in Kinds : ResponseOrder[Rank(m)] = m
  BY <1>1 DEF Rank
<1> QED
  BY <1>2

LEMMA RanksAreNumbers ==
  ASSUME use = "response", NEW k \in Kinds
  PROVE  Rank(k) \in Int
<1>1. \E i \in DOMAIN ResponseOrder : ResponseOrder[i] = k
  BY DEF Kinds, ResponseOrder
<1>2. Rank(k) \in DOMAIN ResponseOrder
  BY <1>1 DEF Rank
<1> QED
  BY <1>2 DEF ResponseOrder

\* Of what a response has pending, one link comes before all others.
LEMMA OneIsReady ==
  ASSUME TypeOK, Walking, use = "response", NEW e \in Ready, NEW f \in Ready
  PROVE  e = f
<1>1. e \in Pending /\ f \in Pending /\ ~Before(e, f) /\ ~Before(f, e)
  BY DEF Ready
<1>2. CASE stack = <<>>
  BY <1>1, <1>2, RootsAreLinks DEF Pending
<1>3. CASE stack # <<>>
  <2>1. e \in Parts(Top) /\ f \in Parts(Top)
    BY <1>1, <1>3 DEF Pending
  <2>2. Followed(Schema(Top), use) \subseteq Kinds
    BY DEF Followed, Kinds
  <2>3. /\ e.from = Top /\ e.kind \in Kinds /\ e.to = Schema(Top).sub[e.kind][e.key]
        /\ f.from = Top /\ f.kind \in Kinds /\ f.to = Schema(Top).sub[f.kind][f.key]
    BY <2>1, <2>2 DEF Parts
  <2>4. e \in Link /\ f \in Link
    BY <1>1, PendingAreLinks
  <2>5. e.kind = f.kind
    <3>1. ~(Rank(e.kind) < Rank(f.kind)) /\ ~(Rank(f.kind) < Rank(e.kind))
      BY <1>1 DEF Before
    <3>2. Rank(e.kind) = Rank(f.kind)
      BY <2>3, <3>1, RanksAreNumbers
    <3> QED
      BY <2>3, <3>2, RanksDiffer
  <2>6. ~Unordered(e.kind)
    BY <2>3 DEF Unordered, Kinds
  <2>7. ~(e.key < f.key) /\ ~(f.key < e.key)
    BY <1>1, <2>5, <2>6 DEF Before
  <2>8. e.key = f.key
    BY <2>4, <2>7 DEF Link
  <2> QED
    BY <2>3, <2>4, <2>5, <2>8 DEF Link
<1> QED
  BY <1>2, <1>3

\* Whatever the document, nothing in the documentation of a response depends
\* on the order in which a map is iterated.
THEOREM ResponsesComeOut == Spec => []ResponsesAreStable
<1>1. IInv => ResponsesAreStable
  <2> SUFFICES ASSUME IInv, Walking, use = "response"
               PROVE  Cardinality(Ready) <= 1
    BY DEF ResponsesAreStable
  <2>1. CASE Ready = {}
    BY <2>1, FS_EmptySet
  <2>2. CASE Ready # {}
    <3>1. PICK e : e \in Ready
      BY <2>2
    <3>2. Ready = {e}
      BY <3>1, OneIsReady DEF IInv
    <3>3. Cardinality({e}) = 1
      BY FS_Singleton
    <3> QED
      BY <3>2, <3>3
  <2> QED
    BY <2>1, <2>2
<1> QED
  BY <1>1, Invariant, PTL

-----------------------------------------------------------------------------
\* Every nonempty set of natural numbers has a least element.
LEMMA LeastNumber ==
  ASSUME NEW T, T \subseteq Nat, T # {}
  PROVE  \E x \in T : \A y \in T : x <= y
<1>1. \E x \in T : \A y \in T : ~(<<y, x>> \in OpToRel(<, Nat))
  BY NatLessThanWellFounded, WFMin
<1>2. \A x, y \in T : y < x => <<y, x>> \in OpToRel(<, Nat)
  BY Zenon DEF OpToRel
<1>3. \A x, y \in T : ~(y < x) => x <= y
  OBVIOUS
<1> QED BY <1>1, <1>2, <1>3

Pairs == Node \X Values

\* What the meaning of a schema for a value may rest on: that of any schema for
\* a value that nests less deep, and of those the schema is combined from.
Needs(schemas, n, v, m, w) ==
  \/ Depth[w] < Depth[v]
  \/ w = v /\ \E k \in Combinators : \E x \in DOMAIN schemas[n].sub[k] : schemas[n].sub[k][x] = m

\* Of a set of schemas and values there is one that rests on no other of them.
LEMMA LeastPair ==
  ASSUME NEW schemas, Grounded(schemas), NEW T \in SUBSET Pairs, T # {}
  PROVE  \E n \in Node, v \in Values :
           /\ <<n, v>> \in T
           /\ \A m \in Node, w \in Values : Needs(schemas, n, v, m, w) => <<m, w>> \notin T
<1> DEFINE D == {Depth[p[2]] : p \in T}
<1>1. D \subseteq Nat /\ D # {}
  BY ToolSchemaAssumption DEF Pairs
<1> HIDE DEF D
<1>2. PICK d \in D : \A e \in D : d <= e
  BY <1>1, LeastNumber
<1>3. PICK v \in Values : Depth[v] = d /\ \E n \in Node : <<n, v>> \in T
  BY <1>2 DEF D, Pairs
<1> DEFINE S == {n \in Node : <<n, v>> \in T}
<1>4. PICK n \in S : \A k \in Combinators : \A x \in DOMAIN schemas[n].sub[k] :
                      schemas[n].sub[k][x] \notin S
  BY <1>3 DEF Grounded
<1>5. \A m \in Node, w \in Values : <<m, w>> \in T => ~(Depth[w] < Depth[v])
  <2> SUFFICES ASSUME NEW m \in Node, NEW w \in Values, <<m, w>> \in T, Depth[w] < Depth[v] PROVE FALSE
    OBVIOUS
  <2>1. Depth[w] \in D
    BY DEF D
  <2>2. d \in Nat /\ Depth[w] \in Nat /\ d <= Depth[w]
    BY <1>1, <1>2, <2>1, Zenon
  <2> QED BY <1>3, <2>2
<1>6. \A m \in Node, w \in Values : Needs(schemas, n, v, m, w) => <<m, w>> \notin T
  BY <1>4, <1>5 DEF Needs
<1> QED BY <1>3, <1>6, Zenon

-----------------------------------------------------------------------------
Ok(schemas, gone, yes, n, k, x, w) ==
  LinkAt(schemas, n, k, x) \in gone \/ yes[<<schemas[n].sub[k][x], w>>]

AllOk(schemas, gone, yes, n, k, w) ==
  \A x \in DOMAIN schemas[n].sub[k] : Ok(schemas, gone, yes, n, k, x, w)

SomeOk(schemas, gone, yes, n, k, v) ==
  {x \in DOMAIN schemas[n].sub[k] : Ok(schemas, gone, yes, n, k, x, v)}

ElementsOk(schemas, gone, yes, n, v) ==
  v.kind = "array" =>
    \A i \in DOMAIN v.elems :
      IF i \in DOMAIN schemas[n].sub["prefix"]
      THEN Ok(schemas, gone, yes, n, "prefix", i, v.elems[i])
      ELSE AllOk(schemas, gone, yes, n, "items", v.elems[i])

FieldsOk(schemas, gone, yes, n, v) ==
  v.kind = "object" =>
    \A p \in DOMAIN v.fields :
      IF p \in DOMAIN schemas[n].sub["props"]
      THEN Ok(schemas, gone, yes, n, "props", p, v.fields[p])
      ELSE ~schemas[n].closed /\ AllOk(schemas, gone, yes, n, "extra", v.fields[p])

CombinedOk(schemas, gone, yes, n, v) ==
  /\ AllOk(schemas, gone, yes, n, "allOf", v)
  /\ DOMAIN schemas[n].sub["anyOf"] # {} => SomeOk(schemas, gone, yes, n, "anyOf", v) # {}
  /\ DOMAIN schemas[n].sub["oneOf"] # {} =>
       Cardinality(SomeOk(schemas, gone, yes, n, "oneOf", v)) = 1
  /\ SomeOk(schemas, gone, yes, n, "not", v) = {}

\* A schema says something of a value itself, of its parts, and through its combinators.
LEMMA LevelParts ==
  ASSUME NEW schemas, NEW gone, NEW yes, NEW n, NEW v
  PROVE  Level(schemas, gone, yes, n, v) <=>
           /\ Keywords(schemas[n], v)
           /\ ElementsOk(schemas, gone, yes, n, v)
           /\ FieldsOk(schemas, gone, yes, n, v)
           /\ CombinedOk(schemas, gone, yes, n, v)
BY Zenon DEF Level, ElementsOk, FieldsOk, CombinedOk, AllOk, SomeOk, Ok

\* Two schemas with the same keywords and links say the same of a value if what
\* is behind their links does.
LEMMA SameLevel ==
  ASSUME NEW A, NEW g, NEW y, NEW B, NEW h, NEW z, NEW n, NEW v,
         Keywords(A[n], v) <=> Keywords(B[n], v),
         A[n].closed <=> B[n].closed,
         \A k \in Kinds \cup {"prefix"} : DOMAIN A[n].sub[k] = DOMAIN B[n].sub[k],
         \A k \in Combinators : \A x \in DOMAIN A[n].sub[k] :
           Ok(A, g, y, n, k, x, v) <=> Ok(B, h, z, n, k, x, v),
         v.kind = "array" => \A i \in DOMAIN v.elems :
           \A k \in {"prefix", "items"} : \A x \in DOMAIN A[n].sub[k] :
             Ok(A, g, y, n, k, x, v.elems[i]) <=> Ok(B, h, z, n, k, x, v.elems[i]),
         v.kind = "object" => \A p \in DOMAIN v.fields :
           \A k \in {"props", "extra"} : \A x \in DOMAIN A[n].sub[k] :
             Ok(A, g, y, n, k, x, v.fields[p]) <=> Ok(B, h, z, n, k, x, v.fields[p])
  PROVE  Level(A, g, y, n, v) <=> Level(B, h, z, n, v)
<1>1. ElementsOk(A, g, y, n, v) <=> ElementsOk(B, h, z, n, v)
  <2>1. SUFFICES ASSUME v.kind = "array"
                 PROVE  ElementsOk(A, g, y, n, v) <=> ElementsOk(B, h, z, n, v)
    BY DEF ElementsOk
  <2>2. DOMAIN A[n].sub["prefix"] = DOMAIN B[n].sub["prefix"]
        /\ DOMAIN A[n].sub["items"] = DOMAIN B[n].sub["items"]
    BY DEF Kinds
  <2>3. \A i \in DOMAIN v.elems :
          /\ \A x \in DOMAIN A[n].sub["prefix"] :
               Ok(A, g, y, n, "prefix", x, v.elems[i]) <=> Ok(B, h, z, n, "prefix", x, v.elems[i])
          /\ \A x \in DOMAIN A[n].sub["items"] :
               Ok(A, g, y, n, "items", x, v.elems[i]) <=> Ok(B, h, z, n, "items", x, v.elems[i])
    BY <2>1
  <2> QED BY Zenon, <2>1, <2>2, <2>3 DEF ElementsOk, AllOk
<1>2. FieldsOk(A, g, y, n, v) <=> FieldsOk(B, h, z, n, v)
  <2>1. SUFFICES ASSUME v.kind = "object"
                 PROVE  FieldsOk(A, g, y, n, v) <=> FieldsOk(B, h, z, n, v)
    BY DEF FieldsOk
  <2>2. DOMAIN A[n].sub["props"] = DOMAIN B[n].sub["props"]
        /\ DOMAIN A[n].sub["extra"] = DOMAIN B[n].sub["extra"]
    BY DEF Kinds
  <2>3. \A p \in DOMAIN v.fields :
          /\ \A x \in DOMAIN A[n].sub["props"] :
               Ok(A, g, y, n, "props", x, v.fields[p]) <=> Ok(B, h, z, n, "props", x, v.fields[p])
          /\ \A x \in DOMAIN A[n].sub["extra"] :
               Ok(A, g, y, n, "extra", x, v.fields[p]) <=> Ok(B, h, z, n, "extra", x, v.fields[p])
    BY <2>1
  <2> QED BY Zenon, <2>1, <2>2, <2>3 DEF FieldsOk, AllOk
<1>3. CombinedOk(A, g, y, n, v) <=> CombinedOk(B, h, z, n, v)
  <2>1. \A k \in Combinators : k \in Kinds /\ DOMAIN A[n].sub[k] = DOMAIN B[n].sub[k]
    BY DEF Combinators, Kinds
  <2>2. \A k \in Combinators : SomeOk(A, g, y, n, k, v) = SomeOk(B, h, z, n, k, v)
    BY <2>1 DEF SomeOk
  <2>3. AllOk(A, g, y, n, "allOf", v) <=> AllOk(B, h, z, n, "allOf", v)
    BY <2>1 DEF AllOk, Combinators
  <2> QED BY <2>1, <2>2, <2>3 DEF CombinedOk, Combinators
<1> QED BY <1>1, <1>2, <1>3, LevelParts, Zenon

LinksIn(schemas) ==
  \A n \in Node : \A k \in Kinds \cup {"prefix"} : \A x \in DOMAIN schemas[n].sub[k] :
    schemas[n].sub[k][x] \in Node

\* What a schema says depends on what is behind its links only where Needs says so.
LEMMA LevelNeeds ==
  ASSUME NEW schemas, LinksIn(schemas), NEW gone, NEW y, NEW z, NEW n \in Node, NEW v \in Values,
         \A m \in Node, w \in Values : Needs(schemas, n, v, m, w) => y[<<m, w>>] = z[<<m, w>>]
  PROVE  Level(schemas, gone, y, n, v) <=> Level(schemas, gone, z, n, v)
<1>1. \A k \in Combinators : \A x \in DOMAIN schemas[n].sub[k] :
        Ok(schemas, gone, y, n, k, x, v) <=> Ok(schemas, gone, z, n, k, x, v)
  <2>1. \A k \in Combinators : k \in Kinds
    BY DEF Combinators, Kinds
  <2> QED BY <2>1 DEF Ok, Needs, LinksIn
<1>2. \A k \in Kinds \cup {"prefix"} : \A x \in DOMAIN schemas[n].sub[k] : \A w \in Values :
        Depth[w] < Depth[v] =>
          (Ok(schemas, gone, y, n, k, x, w) <=> Ok(schemas, gone, z, n, k, x, w))
  BY DEF Ok, Needs, LinksIn
<1>3. IsValue(v)
  BY ToolSchemaAssumption
<1>4. v.kind = "array" => \A i \in DOMAIN v.elems :
        \A k \in {"prefix", "items"} : \A x \in DOMAIN schemas[n].sub[k] :
          Ok(schemas, gone, y, n, k, x, v.elems[i]) <=> Ok(schemas, gone, z, n, k, x, v.elems[i])
  <2>1. v.kind = "array" => \A i \in DOMAIN v.elems :
          v.elems[i] \in Values /\ Depth[v.elems[i]] < Depth[v]
    BY <1>3, Zenon DEF IsValue
  <2>2. "items" \in Kinds
    BY DEF Kinds
  <2> QED BY <1>2, <2>1, <2>2
<1>5. v.kind = "object" => \A p \in DOMAIN v.fields :
        \A k \in {"props", "extra"} : \A x \in DOMAIN schemas[n].sub[k] :
          Ok(schemas, gone, y, n, k, x, v.fields[p]) <=> Ok(schemas, gone, z, n, k, x, v.fields[p])
  <2>1. v.kind = "object" => \A p \in DOMAIN v.fields :
          v.fields[p] \in Values /\ Depth[v.fields[p]] < Depth[v]
    BY <1>3, Zenon DEF IsValue
  <2>2. "props" \in Kinds /\ "extra" \in Kinds
    BY DEF Kinds
  <2> QED BY <1>2, <2>1, <2>2
<1> QED BY <1>1, <1>4, <1>5, SameLevel, Zenon

-----------------------------------------------------------------------------
\* y says on D, which holds whatever its members rest on, what Level says.
Solves(schemas, gone, D, y) ==
  /\ D \in SUBSET Pairs
  /\ y \in [Pairs -> BOOLEAN]
  /\ \A n \in Node, v \in Values :
       <<n, v>> \in D =>
         /\ y[<<n, v>>] <=> Level(schemas, gone, y, n, v)
         /\ \A m \in Node, w \in Values : Needs(schemas, n, v, m, w) => <<m, w>> \in D

\* Two solutions agree wherever both are defined...
LEMMA SolutionsAgree ==
  ASSUME NEW schemas, LinksIn(schemas), Grounded(schemas), NEW gone,
         NEW D, NEW y, Solves(schemas, gone, D, y),
         NEW E, NEW z, Solves(schemas, gone, E, z)
  PROVE  \A n \in Node, v \in Values :
           <<n, v>> \in D /\ <<n, v>> \in E => y[<<n, v>>] = z[<<n, v>>]
<1> DEFINE T == {p \in Pairs : p \in D /\ p \in E /\ y[p] # z[p]}
<1>1. SUFFICES ASSUME T # {} PROVE FALSE
  BY DEF Pairs
<1>2. PICK n \in Node, v \in Values :
        /\ <<n, v>> \in T
        /\ \A m \in Node, w \in Values : Needs(schemas, n, v, m, w) => <<m, w>> \notin T
  BY <1>1, LeastPair
<1>3. \A m \in Node, w \in Values : Needs(schemas, n, v, m, w) => y[<<m, w>>] = z[<<m, w>>]
  BY <1>2 DEF Solves, Pairs
<1>4. Level(schemas, gone, y, n, v) <=> Level(schemas, gone, z, n, v)
  BY <1>3, LevelNeeds, Zenon
<1>5. /\ <<n, v>> \in D /\ <<n, v>> \in E /\ y[<<n, v>>] # z[<<n, v>>]
      /\ y[<<n, v>>] \in BOOLEAN /\ z[<<n, v>>] \in BOOLEAN
  BY <1>2 DEF Solves, Pairs
<1>6. /\ y[<<n, v>>] <=> Level(schemas, gone, y, n, v)
      /\ z[<<n, v>>] <=> Level(schemas, gone, z, n, v)
  BY <1>5, Zenon DEF Solves
<1> QED BY <1>4, <1>5, <1>6

\* ...and there is one that is defined everywhere.
LEMMA SolutionExists ==
  ASSUME NEW schemas, LinksIn(schemas), Grounded(schemas), NEW gone
  PROVE  \E y : Solves(schemas, gone, Pairs, y)
<1> DEFINE Told(p) == \E D \in SUBSET Pairs, y \in [Pairs -> BOOLEAN] :
                        Solves(schemas, gone, D, y) /\ p \in D /\ y[p]
           Y == [p \in Pairs |-> Told(p)]
           U == {p \in Pairs : \E D \in SUBSET Pairs, y \in [Pairs -> BOOLEAN] :
                                 Solves(schemas, gone, D, y) /\ p \in D}
<1>1. Y \in [Pairs -> BOOLEAN]
  OBVIOUS
<1>2. ASSUME NEW D \in SUBSET Pairs, NEW y \in [Pairs -> BOOLEAN], Solves(schemas, gone, D, y),
             NEW m \in Node, NEW w \in Values, <<m, w>> \in D
      PROVE  Y[<<m, w>>] = y[<<m, w>>]
  <2>1. <<m, w>> \in Pairs
    BY DEF Pairs
  <2>2. CASE y[<<m, w>>]
    <3>1. Y[<<m, w>>] <=> TRUE
      BY <1>2, <2>1, <2>2, Zenon
    <3> QED BY <1>1, <2>1, <2>2, <3>1
  <2>3. CASE ~y[<<m, w>>]
    <3>1. SUFFICES ASSUME Told(<<m, w>>) PROVE FALSE
      BY <2>1, <2>3
    <3>2. PICK E \in SUBSET Pairs, z \in [Pairs -> BOOLEAN] :
            Solves(schemas, gone, E, z) /\ <<m, w>> \in E /\ z[<<m, w>>]
      BY <3>1, Zenon
    <3>3. y[<<m, w>>] = z[<<m, w>>]
      <4>1. \A a \in Node, b \in Values :
              <<a, b>> \in D /\ <<a, b>> \in E => y[<<a, b>>] = z[<<a, b>>]
        BY <1>2, <3>2, SolutionsAgree
      <4> QED BY <1>2, <3>2, <4>1
    <3> QED BY <2>3, <3>2, <3>3
  <2> QED BY <2>2, <2>3, Zenon
<1> HIDE DEF Y
<1>3. Solves(schemas, gone, U, Y)
  <2>1. SUFFICES ASSUME NEW n \in Node, NEW v \in Values, <<n, v>> \in U
                 PROVE  /\ Y[<<n, v>>] <=> Level(schemas, gone, Y, n, v)
                        /\ \A m \in Node, w \in Values :
                             Needs(schemas, n, v, m, w) => <<m, w>> \in U
    BY <1>1, Zenon DEF Solves
  <2>2. PICK D \in SUBSET Pairs, y \in [Pairs -> BOOLEAN] :
          Solves(schemas, gone, D, y) /\ <<n, v>> \in D
    BY <2>1, Zenon
  <2>3. \A m \in Node, w \in Values : Needs(schemas, n, v, m, w) => <<m, w>> \in D
    BY <2>2, Zenon DEF Solves
  <2>4. \A m \in Node, w \in Values : Needs(schemas, n, v, m, w) => Y[<<m, w>>] = y[<<m, w>>]
    BY <1>2, <2>2, <2>3, Zenon
  <2>5. Level(schemas, gone, Y, n, v) <=> Level(schemas, gone, y, n, v)
    BY <2>4, LevelNeeds, Zenon
  <2>6. y[<<n, v>>] <=> Level(schemas, gone, y, n, v)
    BY <2>2, Zenon DEF Solves
  <2>7. Y[<<n, v>>] = y[<<n, v>>]
    BY <1>2, <2>2, Zenon
  <2>8. \A m \in Node, w \in Values : <<m, w>> \in D => <<m, w>> \in U
    BY <2>2 DEF Pairs
  <2> QED BY <2>3, <2>5, <2>6, <2>7, <2>8
<1>4. \A p \in Pairs : p \in U
  <2> DEFINE T == {p \in Pairs : p \notin U}
  <2>1. SUFFICES ASSUME T # {} PROVE FALSE
    BY Zenon
  <2>2. PICK n \in Node, v \in Values :
          /\ <<n, v>> \in T
          /\ \A m \in Node, w \in Values : Needs(schemas, n, v, m, w) => <<m, w>> \notin T
    <3>1. T \in SUBSET Pairs
      BY Zenon
    <3> HIDE DEF T
    <3> QED BY <2>1, <3>1, LeastPair, Zenon
  <2>3. \A m \in Node, w \in Values : Needs(schemas, n, v, m, w) => <<m, w>> \in U
    <3>1. \A m \in Node, w \in Values : <<m, w>> \in Pairs
      BY DEF Pairs
    <3> HIDE DEF U
    <3> QED BY <2>2, <3>1, Zenon
  <2>4. <<n, v>> \in Pairs /\ <<n, v>> \notin U
    BY <2>2, Zenon
  <2> DEFINE E == {p \in Pairs : p \in U \/ p = <<n, v>>}
             z == [p \in Pairs |-> IF p = <<n, v>> THEN Level(schemas, gone, Y, n, v) ELSE Y[p]]
  <2>5. z \in [Pairs -> BOOLEAN]
    <3>1. Level(schemas, gone, Y, n, v) \in BOOLEAN
      BY DEF Level
    <3> QED BY <1>1, <3>1
  <2> HIDE DEF U
  <2>6. \A m \in Node, w \in Values : <<m, w>> \in U => z[<<m, w>>] = Y[<<m, w>>]
    BY <2>4 DEF Pairs
  <2>7. z[<<n, v>>] = Level(schemas, gone, Y, n, v)
    BY <2>4
  <2>8. \A m \in Node, w \in Values : <<m, w>> \in E <=> <<m, w>> \in U \/ <<m, w>> = <<n, v>>
    BY DEF Pairs
  <2>9. E \in SUBSET Pairs
    OBVIOUS
  <2> HIDE DEF z, E
  <2>10. ASSUME NEW m \in Node, NEW w \in Values,
                \A a \in Node, b \in Values : Needs(schemas, m, w, a, b) => <<a, b>> \in U
         PROVE  Level(schemas, gone, z, m, w) <=> Level(schemas, gone, Y, m, w)
    BY <2>6, <2>10, LevelNeeds, Zenon
  <2>11. \A m \in Node, w \in Values : <<m, w>> \in U =>
           /\ \A a \in Node, b \in Values : Needs(schemas, m, w, a, b) => <<a, b>> \in U
           /\ Y[<<m, w>>] <=> Level(schemas, gone, Y, m, w)
    BY <1>3, Zenon DEF Solves
  <2>12. ASSUME NEW m \in Node, NEW w \in Values, <<m, w>> \in E
         PROVE  /\ z[<<m, w>>] <=> Level(schemas, gone, z, m, w)
                /\ \A a \in Node, b \in Values : Needs(schemas, m, w, a, b) => <<a, b>> \in E
    <3>1. CASE <<m, w>> \in U
      <4>1. Level(schemas, gone, z, m, w) <=> Level(schemas, gone, Y, m, w)
        BY <2>10, <2>11, <3>1, Zenon
      <4> QED BY <2>6, <2>8, <2>11, <3>1, <4>1
    <3>2. CASE <<m, w>> = <<n, v>>
      <4>1. m = n /\ w = v
        BY <3>2
      <4>2. Level(schemas, gone, z, m, w) <=> Level(schemas, gone, Y, m, w)
        BY <2>3, <2>10, <4>1, Zenon
      <4> QED BY <2>3, <2>7, <2>8, <4>1, <4>2
    <3> QED BY <2>8, <2>12, <3>1, <3>2
  <2>13. Solves(schemas, gone, E, z)
    BY <2>5, <2>9, <2>12, Zenon DEF Solves
  <2>14. <<n, v>> \in E
    BY <2>8
  <2> QED BY <2>4, <2>5, <2>9, <2>13, <2>14, Zenon DEF U
<1>5. U = Pairs
  <2>1. \A p \in U : p \in Pairs
    BY Zenon
  <2> HIDE DEF U
  <2> QED BY <1>4, <2>1
<1> HIDE DEF U
<1> QED BY <1>3, <1>5

\* Meaning is that solution.
LEMMA MeaningSolves ==
  ASSUME NEW schemas, LinksIn(schemas), Grounded(schemas), NEW gone
  PROVE  Solves(schemas, gone, Pairs, Meaning(schemas, gone))
<1>1. PICK y : Solves(schemas, gone, Pairs, y)
  BY SolutionExists
<1>2. y = [p \in Node \X Values |-> Level(schemas, gone, y, p[1], p[2])]
  <2>1. \A p \in Pairs : y[p] = Level(schemas, gone, y, p[1], p[2])
    <3>1. SUFFICES ASSUME NEW n \in Node, NEW v \in Values
                   PROVE  y[<<n, v>>] = Level(schemas, gone, y, n, v)
      BY DEF Pairs
    <3>2. <<n, v>> \in Pairs
      BY DEF Pairs
    <3>3. y[<<n, v>>] <=> Level(schemas, gone, y, n, v)
      BY <1>1, <3>2, Zenon DEF Solves
    <3>4. y[<<n, v>>] \in BOOLEAN /\ Level(schemas, gone, y, n, v) \in BOOLEAN
      BY <1>1, <3>2 DEF Solves, Level
    <3> QED BY <3>3, <3>4
  <2> QED BY <1>1, <2>1 DEF Solves, Pairs
<1> DEFINE yes == Meaning(schemas, gone)
<1>3. yes = [p \in Node \X Values |-> Level(schemas, gone, yes, p[1], p[2])]
  BY <1>2, Zenon DEF Meaning
<1> HIDE DEF yes
<1>4. yes \in [Pairs -> BOOLEAN]
  <2>1. \A p \in Pairs : Level(schemas, gone, yes, p[1], p[2]) \in BOOLEAN
    BY DEF Level
  <2> QED BY <1>3, <2>1 DEF Pairs
<1>5. \A n \in Node, v \in Values : yes[<<n, v>>] = Level(schemas, gone, yes, n, v)
  BY <1>3
<1>6. \A n \in Node, v \in Values : <<n, v>> \in Pairs
  BY DEF Pairs
<1>7. Solves(schemas, gone, Pairs, yes)
  <2>1. \A n \in Node, v \in Values : yes[<<n, v>>] <=> Level(schemas, gone, yes, n, v)
    BY <1>5
  <2> QED BY <1>4, <1>6, <2>1 DEF Solves
<1> QED BY <1>7 DEF yes

\* The recursive definition of what a schema means is one: for every graph of
\* schemas in which none is combined from itself, and whatever links are cut,
\* Accepts satisfies the equation by which it is defined.
THEOREM AcceptsLevel ==
  ASSUME NEW schemas, LinksIn(schemas), Grounded(schemas), NEW gone,
         NEW n \in Node, NEW v \in Values
  PROVE  Accepts(schemas, gone, n, v) <=> Level(schemas, gone, Meaning(schemas, gone), n, v)
<1>1. <<n, v>> \in Pairs
  BY DEF Pairs
<1> QED BY <1>1, MeaningSolves DEF Solves, Accepts

-----------------------------------------------------------------------------
\* What is normalised keyword by keyword.
LEMMA BoundsConverted ==
  ASSUME NEW s, IsSchema(s)
  PROVE  LET t == ConvertExclusiveMinMax(s)
         IN  /\ t = [k \in KeywordNames |-> t[k]]
             /\ t.least = OldBound(s.least, s.above)
             /\ t.most = OldBound(s.most, s.below)
             /\ t.openMin = (s.openMin \/ s.above # {})
             /\ t.openMax = (s.openMax \/ s.below # {})
             /\ t.above = {} /\ t.below = {}
             /\ \A k \in {"types", "nullable", "binary", "enum", "const", "required", "closed", "sub"} :
                  t[k] = s[k]
BY DEF IsSchema, ConvertExclusiveMinMax, KeywordNames

\* ConvertArrayTypeNull touches the types and nullable only.
LEMMA TypesConverted ==
  ASSUME NEW s, s = [k \in KeywordNames |-> s[k]]
  PROVE  LET t == ConvertArrayTypeNull(s)
         IN  /\ t = [k \in KeywordNames |-> t[k]]
             /\ \A k \in KeywordNames \ {"types", "nullable"} : t[k] = s[k]
             /\ ~ListsNull(s) => t = s
             /\ ListsNull(s) => t.nullable = TRUE
             /\ \A i : ListsNull(s) /\ NonNull(s) = {i} /\ i \in Nat => t.types = <<s.types[i]>>
<1>1. CASE ~ListsNull(s)
  BY <1>1 DEF ConvertArrayTypeNull
<1>2. CASE ListsNull(s)
  <2> DEFINE t == ConvertArrayTypeNull(s)
             T == IF NonNull(s) = {} THEN s.types
                  ELSE <<s.types[CHOOSE i \in NonNull(s) : \A j \in NonNull(s) : i <= j]>>
  <2>1. t = [s EXCEPT !.nullable = TRUE, !.types = T]
    BY <1>2 DEF ConvertArrayTypeNull
  <2>2. ASSUME NEW i \in Nat, NonNull(s) = {i} PROVE T = <<s.types[i]>>
    <3>1. \A j \in {i} : i <= j
      OBVIOUS
    <3>2. (CHOOSE j \in {i} : \A k \in {i} : j <= k) = i
      BY <3>1
    <3> QED BY <2>2, <3>2
  <2> HIDE DEF T
  <2>3. t.types = T /\ t.nullable = TRUE
    BY <2>1 DEF KeywordNames
  <2>4. t = [k \in KeywordNames |-> t[k]]
    BY <2>1 DEF KeywordNames
  <2>5. \A k \in KeywordNames \ {"types", "nullable"} : t[k] = s[k]
    BY <2>1 DEF KeywordNames
  <2> HIDE DEF t
  <2> QED BY <1>2, <2>2, <2>3, <2>4, <2>5 DEF t
<1> QED BY <1>1, <1>2

\* ConvertPrefixItems touches items and prefixItems only.
LEMMA ItemsConverted ==
  ASSUME NEW s, s = [k \in KeywordNames |-> s[k]],
         s.sub = [k \in Kinds \cup {"prefix"} |-> s.sub[k]]
  PROVE  LET t == ConvertPrefixItems(s)
         IN  /\ t = [k \in KeywordNames |-> t[k]]
             /\ t.sub = [k \in Kinds \cup {"prefix"} |-> t.sub[k]]
             /\ \A k \in KeywordNames \ {"sub"} : t[k] = s[k]
             /\ \A k \in Kinds \ {"items"} : t.sub[k] = s.sub[k]
             /\ DOMAIN s.sub["prefix"] = {} => t = s
<1>1. CASE DOMAIN s.sub["prefix"] = {}
  BY <1>1 DEF ConvertPrefixItems
<1>2. CASE DOMAIN s.sub["prefix"] # {}
  BY <1>2 DEF ConvertPrefixItems, KeywordNames, Kinds
<1> QED BY <1>1, <1>2

\* RemoveKeywords touches const and the properties only.
LEMMA KeywordsRemoved ==
  ASSUME NEW s, s = [k \in KeywordNames |-> s[k]],
         s.sub = [k \in Kinds \cup {"prefix"} |-> s.sub[k]]
  PROVE  LET t == RemoveKeywords(s)
         IN  /\ t = [k \in KeywordNames |-> t[k]]
             /\ t.sub = [k \in Kinds \cup {"prefix"} |-> t.sub[k]]
             /\ \A k \in KeywordNames \ {"sub", "const"} : t[k] = s[k]
             /\ t.const = {}
             /\ \A k \in (Kinds \cup {"prefix"}) \ {"props"} : t.sub[k] = s.sub[k]
             /\ t.sub["props"] = [p \in DOMAIN s.sub["props"] \ Reserved |-> s.sub["props"][p]]
BY DEF RemoveKeywords, KeywordNames, Kinds

\* All of 3.1 to 3.0 together.
LEMMA NormalizedKeywords ==
  ASSUME NEW s, IsSchema(s)
  PROVE  LET t == Normalized(s)
         IN  /\ t = [k \in KeywordNames |-> t[k]]
             /\ t.sub = [k \in Kinds \cup {"prefix"} |-> t.sub[k]]
             /\ \A k \in {"binary", "enum", "required", "closed"} : t[k] = s[k]
             /\ t.const = {}
             /\ t.least = OldBound(s.least, s.above)
             /\ t.most = OldBound(s.most, s.below)
             /\ t.openMin = (s.openMin \/ s.above # {})
             /\ t.openMax = (s.openMax \/ s.below # {})
             /\ t.above = {} /\ t.below = {}
             /\ ~ListsNull(s) => t.types = s.types /\ t.nullable = s.nullable
             /\ ListsNull(s) => t.nullable = TRUE
             /\ \A i \in Nat : ListsNull(s) /\ NonNull(s) = {i} => t.types = <<s.types[i]>>
             /\ \A k \in Kinds \ {"items", "props"} : t.sub[k] = s.sub[k]
             /\ DOMAIN s.sub["prefix"] = {} =>
                  t.sub["items"] = s.sub["items"] /\ t.sub["prefix"] = s.sub["prefix"]
             /\ t.sub["props"] = [p \in DOMAIN s.sub["props"] \ Reserved |-> s.sub["props"][p]]
<1> DEFINE a == ConvertExclusiveMinMax(s)
           b == ConvertArrayTypeNull(a)
           c == ConvertPrefixItems(b)
           t == RemoveKeywords(c)
<1>1. Normalized(s) = t
  BY DEF Normalized
<1>2. /\ a = [k \in KeywordNames |-> a[k]]
      /\ a.least = OldBound(s.least, s.above)
      /\ a.most = OldBound(s.most, s.below)
      /\ a.openMin = (s.openMin \/ s.above # {})
      /\ a.openMax = (s.openMax \/ s.below # {})
      /\ a.above = {} /\ a.below = {}
      /\ \A k \in {"types", "nullable", "binary", "enum", "const", "required", "closed", "sub"} :
           a[k] = s[k]
  BY BoundsConverted
<1>3. (ListsNull(a) <=> ListsNull(s)) /\ NonNull(a) = NonNull(s)
  BY <1>2 DEF ListsNull, NonNull, HasType
<1>4. s.sub = [k \in Kinds \cup {"prefix"} |-> s.sub[k]]
  BY DEF IsSchema
<1> HIDE DEF a
<1>5. /\ b = [k \in KeywordNames |-> b[k]]
      /\ \A k \in KeywordNames \ {"types", "nullable"} : b[k] = a[k]
      /\ ~ListsNull(a) => b = a
      /\ ListsNull(a) => b.nullable = TRUE
      /\ \A i : ListsNull(a) /\ NonNull(a) = {i} /\ i \in Nat => b.types = <<a.types[i]>>
  BY <1>2, TypesConverted
<1> HIDE DEF b
<1>6. b.sub = s.sub
  BY <1>2, <1>5 DEF KeywordNames
<1>7. /\ c = [k \in KeywordNames |-> c[k]]
      /\ c.sub = [k \in Kinds \cup {"prefix"} |-> c.sub[k]]
      /\ \A k \in KeywordNames \ {"sub"} : c[k] = b[k]
      /\ \A k \in Kinds \ {"items"} : c.sub[k] = b.sub[k]
      /\ DOMAIN b.sub["prefix"] = {} => c = b
  <2>1. b.sub = [k \in Kinds \cup {"prefix"} |-> b.sub[k]]
    BY <1>4, <1>6
  <2>2. b = [k \in KeywordNames |-> b[k]]
    BY <1>5, Zenon
  <2> QED BY <2>1, <2>2, ItemsConverted, Zenon
<1> HIDE DEF c
<1>8. /\ t = [k \in KeywordNames |-> t[k]]
      /\ t.sub = [k \in Kinds \cup {"prefix"} |-> t.sub[k]]
      /\ \A k \in KeywordNames \ {"sub", "const"} : t[k] = c[k]
      /\ t.const = {}
      /\ \A k \in (Kinds \cup {"prefix"}) \ {"props"} : t.sub[k] = c.sub[k]
      /\ t.sub["props"] = [p \in DOMAIN c.sub["props"] \ Reserved |-> c.sub["props"][p]]
  BY <1>7, KeywordsRemoved
<1> HIDE DEF t
<1> DEFINE Same == {"binary", "enum", "required", "closed", "least", "most", "openMin", "openMax",
                    "above", "below"}
<1>9. /\ \A k \in {"binary", "enum", "required", "closed"} : t[k] = s[k]
      /\ t.least = OldBound(s.least, s.above)
      /\ t.most = OldBound(s.most, s.below)
      /\ t.openMin = (s.openMin \/ s.above # {})
      /\ t.openMax = (s.openMax \/ s.below # {})
      /\ t.above = {} /\ t.below = {}
  <2>1. /\ Same \subseteq KeywordNames \ {"sub", "const"}
        /\ Same \subseteq KeywordNames \ {"sub"}
        /\ Same \subseteq KeywordNames \ {"types", "nullable"}
    BY DEF KeywordNames
  <2>2. \A k \in Same : t[k] = c[k]
    BY <1>8, <2>1, Zenon
  <2>3. \A k \in Same : c[k] = b[k]
    BY <1>7, <2>1, Zenon
  <2>4. \A k \in Same : b[k] = a[k]
    BY <1>5, <2>1, Zenon
  <2>5. \A k \in Same : t[k] = a[k]
    BY <2>2, <2>3, <2>4, Zenon
  <2>6. \A k \in {"binary", "enum", "required", "closed"} : t[k] = s[k]
    BY <1>2, <2>5
  <2>7. /\ t.least = a.least /\ t.most = a.most
        /\ t.openMin = a.openMin /\ t.openMax = a.openMax
        /\ t.above = a.above /\ t.below = a.below
    BY <2>5
  <2> QED
    BY <1>2, <2>6, <2>7, Zenon
<1>10. t.types = b.types /\ t.nullable = b.nullable
  BY <1>7, <1>8 DEF KeywordNames
<1>11. /\ ~ListsNull(s) => t.types = s.types /\ t.nullable = s.nullable
       /\ ListsNull(s) => t.nullable = TRUE
       /\ \A i \in Nat : ListsNull(s) /\ NonNull(s) = {i} => t.types = <<s.types[i]>>
  BY <1>2, <1>3, <1>5, <1>10
<1>12. /\ \A k \in Kinds \ {"items", "props"} : t.sub[k] = s.sub[k]
       /\ t.sub["props"] = [p \in DOMAIN s.sub["props"] \ Reserved |-> s.sub["props"][p]]
  <2>1. \A k \in Kinds \ {"items", "props"} :
          k \in (Kinds \cup {"prefix"}) \ {"props"} /\ k \in Kinds \ {"items"}
    OBVIOUS
  <2>2. \A k \in Kinds \ {"items", "props"} : t.sub[k] = c.sub[k] /\ c.sub[k] = b.sub[k]
    BY <1>7, <1>8, <2>1, Zenon
  <2>3. "props" \in Kinds \ {"items"}
    BY DEF Kinds
  <2>4. c.sub["props"] = s.sub["props"]
    BY <1>6, <1>7, <2>3, Zenon
  <2>5. t.sub["props"] = [p \in DOMAIN s.sub["props"] \ Reserved |-> s.sub["props"][p]]
    BY <1>8, <2>4, Zenon
  <2> QED BY <1>6, <2>2, <2>5, Zenon
<1>13. DOMAIN s.sub["prefix"] = {} =>
         t.sub["items"] = s.sub["items"] /\ t.sub["prefix"] = s.sub["prefix"]
  <2>1. {"items", "prefix"} \subseteq (Kinds \cup {"prefix"}) \ {"props"}
    BY DEF Kinds
  <2>2. t.sub["items"] = c.sub["items"] /\ t.sub["prefix"] = c.sub["prefix"]
    BY <1>8, <2>1
  <2> QED BY <1>6, <1>7, <2>2, Zenon
<1> QED BY <1>1, <1>8, <1>9, <1>11, <1>12, <1>13, Zenon

\* What Draft 7 has of each keyword.
LEMMA Draft7Keywords ==
  ASSUME NEW s, s = [k \in KeywordNames |-> s[k]],
         s.sub = [k \in Kinds \cup {"prefix"} |-> s.sub[k]]
  PROVE  LET t == Draft7(s)
         IN  /\ \A k \in {"binary", "enum", "const"} : t[k] = s[k]
             /\ HasType(s, "object") => t.required = s.required /\ t.closed = s.closed
             /\ ~HasType(s, "object") => t.required = {} /\ t.closed = FALSE
             /\ t.types = TypesWithNull(s) /\ t.nullable = FALSE
             /\ t.least = Inclusive(s, s.openMin, s.least)
             /\ t.most = Inclusive(s, s.openMax, s.most)
             /\ t.openMin = FALSE /\ t.openMax = FALSE
             /\ t.above = IF HasType(s, "number") THEN Exclusive(s.openMin, s.least) ELSE {}
             /\ t.below = IF HasType(s, "number") THEN Exclusive(s.openMax, s.most) ELSE {}
             /\ \A k \in Kinds \cup {"prefix"} :
                  t.sub[k] = IF k \in Followed(s, "request") THEN s.sub[k] ELSE <<>>
<1> DEFINE o == ObjectPart(s)
<1>1. /\ o = [k \in KeywordNames |-> o[k]]
      /\ \A k \in KeywordNames \ {"required", "closed"} : o[k] = s[k]
      /\ HasType(s, "object") => o.required = s.required /\ o.closed = s.closed
      /\ ~HasType(s, "object") => o.required = {} /\ o.closed = FALSE
  BY DEF ObjectPart, KeywordNames
<1> HIDE DEF o
<1> DEFINE A == IF HasType(s, "number") THEN Exclusive(s.openMin, s.least) ELSE {}
           B == IF HasType(s, "number") THEN Exclusive(s.openMax, s.most) ELSE {}
           L == Inclusive(s, s.openMin, s.least)
           M == Inclusive(s, s.openMax, s.most)
           T == TypesWithNull(s)
           S == Below(s)
<1>2. Draft7(s) = [o EXCEPT !.types = T, !.nullable = FALSE, !.least = L, !.openMin = FALSE,
                            !.above = A, !.most = M, !.openMax = FALSE, !.below = B, !.sub = S]
  <2>1. o.least = s.least /\ o.most = s.most
    BY <1>1 DEF KeywordNames
  <2> QED BY <2>1 DEF Draft7, o
<1>3. \A k \in Kinds \cup {"prefix"} :
        S[k] = IF k \in Followed(s, "request") THEN s.sub[k] ELSE <<>>
  BY DEF Below
<1> DEFINE t == Draft7(s)
<1> HIDE DEF A, B, L, M, T, S
<1>4. /\ t.types = T /\ t.nullable = FALSE /\ t.least = L /\ t.openMin = FALSE /\ t.above = A
      /\ t.most = M /\ t.openMax = FALSE /\ t.below = B /\ t.sub = S
      /\ \A k \in {"binary", "enum", "const", "required", "closed"} : t[k] = o[k]
  BY <1>1, <1>2 DEF KeywordNames
<1> HIDE DEF t
<1>5. \A k \in {"binary", "enum", "const"} : t[k] = s[k]
  BY <1>1, <1>4 DEF KeywordNames
<1> QED BY <1>1, <1>3, <1>4, <1>5 DEF t, A, B, L, M, T, S

-----------------------------------------------------------------------------
\* What is left of a schema s of the document in the schema m that is walked,
\* be the document a 3.0 or a 3.1 one.
Prepared(s, m) ==
  /\ m = [k \in KeywordNames |-> m[k]]
  /\ m.sub = [k \in Kinds \cup {"prefix"} |-> m.sub[k]]
  /\ \A k \in {"enum", "required", "closed"} : m[k] = s[k]
  /\ m.const \subseteq s.const
  /\ m.least = OldBound(s.least, s.above) /\ m.openMin = (s.openMin \/ s.above # {})
  /\ m.most = OldBound(s.most, s.below) /\ m.openMax = (s.openMax \/ s.below # {})
  /\ m.above = {} /\ m.below = {}
  /\ \/ m.types = s.types /\ m.nullable = s.nullable
     \/ /\ ListsNull(s) /\ m.nullable = TRUE
        /\ \A i \in Nat : NonNull(s) = {i} => m.types = <<s.types[i]>>
  /\ \A k \in Kinds \ {"items", "props"} : m.sub[k] = s.sub[k]
  /\ DOMAIN s.sub["prefix"] = {} =>
       m.sub["items"] = s.sub["items"] /\ DOMAIN m.sub["prefix"] = {}
  /\ DOMAIN m.sub["props"] \subseteq DOMAIN s.sub["props"]
  /\ DOMAIN s.sub["props"] \ Reserved \subseteq DOMAIN m.sub["props"]
  /\ \A p \in DOMAIN m.sub["props"] : m.sub["props"][p] = s.sub["props"][p]

\* Every schema of a document is its source, converted or left alone.
LEMMA SchemasPrepared ==
  ASSUME NEW d, IsDocument(d), NEW n \in Node
  PROVE  Prepared(d.source[n], Schemas(d)[n])
<1> DEFINE s == d.source[n]
           m == Schemas(d)[n]
<1>1. IsSchema(s) /\ (Is31(d) \/ s.above \cup s.below = {})
  BY DEF IsDocument
<1>2. m = IF Is31(d) THEN Normalized(s) ELSE s
  BY DEF Schemas
<1> HIDE DEF s, m
<1>3. CASE Is31(d)
  <2> DEFINE t == Normalized(s)
  <2>1. /\ t = [k \in KeywordNames |-> t[k]]
        /\ t.sub = [k \in Kinds \cup {"prefix"} |-> t.sub[k]]
        /\ \A k \in {"binary", "enum", "required", "closed"} : t[k] = s[k]
        /\ t.const = {}
        /\ t.least = OldBound(s.least, s.above)
        /\ t.most = OldBound(s.most, s.below)
        /\ t.openMin = (s.openMin \/ s.above # {})
        /\ t.openMax = (s.openMax \/ s.below # {})
        /\ t.above = {} /\ t.below = {}
        /\ ~ListsNull(s) => t.types = s.types /\ t.nullable = s.nullable
        /\ ListsNull(s) => t.nullable = TRUE
        /\ \A i \in Nat : ListsNull(s) /\ NonNull(s) = {i} => t.types = <<s.types[i]>>
        /\ \A k \in Kinds \ {"items", "props"} : t.sub[k] = s.sub[k]
        /\ DOMAIN s.sub["prefix"] = {} =>
             t.sub["items"] = s.sub["items"] /\ t.sub["prefix"] = s.sub["prefix"]
        /\ t.sub["props"] = [p \in DOMAIN s.sub["props"] \ Reserved |-> s.sub["props"][p]]
    BY <1>1, NormalizedKeywords
  <2> HIDE DEF t
  <2>2. m = t
    BY <1>2, <1>3 DEF t
  <2>3. /\ DOMAIN t.sub["props"] = DOMAIN s.sub["props"] \ Reserved
        /\ \A p \in DOMAIN t.sub["props"] : t.sub["props"][p] = s.sub["props"][p]
    BY <2>1
  <2>4. \/ t.types = s.types /\ t.nullable = s.nullable
        \/ /\ ListsNull(s) /\ t.nullable = TRUE
           /\ \A i \in Nat : NonNull(s) = {i} => t.types = <<s.types[i]>>
    BY <2>1
  <2>5. t.const \subseteq s.const
    BY <2>1
  <2>6. /\ DOMAIN t.sub["props"] \subseteq DOMAIN s.sub["props"]
        /\ DOMAIN s.sub["props"] \ Reserved \subseteq DOMAIN t.sub["props"]
    BY <2>3
  <2> QED BY <2>1, <2>2, <2>3, <2>4, <2>5, <2>6 DEF Prepared, s, m
<1>4. CASE ~Is31(d)
  <2>1. m = s /\ s.above = {} /\ s.below = {}
    BY <1>1, <1>2, <1>4
  <2>2. /\ s = [k \in KeywordNames |-> s[k]]
        /\ s.sub = [k \in Kinds \cup {"prefix"} |-> s.sub[k]]
        /\ s.openMin \in BOOLEAN /\ s.openMax \in BOOLEAN
    BY <1>1 DEF IsSchema
  <2>3. OldBound(s.least, s.above) = s.least /\ OldBound(s.most, s.below) = s.most
    BY <2>1 DEF OldBound
  <2> QED BY <2>1, <2>2, <2>3 DEF Prepared, s, m
<1> QED BY <1>3, <1>4

\* Which types are listed survives the conversion from 3.1...
LEMMA TypesPrepared ==
  ASSUME NEW s, IsSchema(s), Sound(s), NEW m, Prepared(s, m), NEW k
  PROVE  /\ k # "null" => (HasType(m, k) <=> HasType(s, k))
         /\ m.types = <<>> <=> s.types = <<>>
         /\ m.nullable \/ HasType(m, "null") <=> s.nullable \/ HasType(s, "null")
         /\ m.nullable => m.types # <<>>
         /\ m.types \in Seq(STRING) /\ m.nullable \in BOOLEAN
<1>0. s.types \in Seq(STRING) /\ s.nullable \in BOOLEAN
  BY DEF IsSchema
<1>1. CASE m.types = s.types /\ m.nullable = s.nullable
  BY <1>0, <1>1 DEF HasType, Sound
<1>2. CASE /\ ListsNull(s) /\ m.nullable = TRUE
           /\ \A i \in Nat : NonNull(s) = {i} => m.types = <<s.types[i]>>
  <2>1. PICK i : NonNull(s) = {i}
    BY <1>2 DEF Sound
  <2>2. i \in DOMAIN s.types /\ i \in Nat /\ s.types[i] # "null"
    BY <1>0, <2>1 DEF NonNull
  <2>3. m.types = <<s.types[i]>>
    BY <1>2, <2>1, <2>2
  <2>4. \A j \in DOMAIN s.types : s.types[j] # "null" => j = i
    BY <2>1 DEF NonNull
  <2>5. HasType(m, k) <=> s.types[i] = k
    BY <2>3 DEF HasType
  <2>6. k # "null" => (HasType(s, k) <=> s.types[i] = k)
    BY <2>2, <2>4 DEF HasType
  <2>7. m.types # <<>> /\ s.types # <<>> /\ m.types \in Seq(STRING)
    BY <1>0, <2>2, <2>3
  <2>8. HasType(s, "null")
    BY <1>2 DEF ListsNull
  <2> QED BY <1>2, <2>5, <2>6, <2>7, <2>8
<1> QED BY <1>1, <1>2 DEF Prepared

TypeOk(s, v) == s.types = <<>> \/ HasType(s, v.kind) \/ (s.nullable /\ v = Null)

\* ...and so does which values the types allow, in Draft 7.
LEMMA TypesWritten ==
  ASSUME NEW s, IsSchema(s), Sound(s), NEW m, Prepared(s, m), NEW v, IsValue(v)
  PROVE  TypeOk(s, v) <=> TypeOk(Draft7(m), v)
<1> DEFINE t == Draft7(m)
<1>1. v.kind = "null" <=> v = Null
  <2>1. v.kind = "null" => v = Null
    BY DEF IsValue
  <2>2. v = Null => v.kind = "null"
    BY DEF Null
  <2> QED BY <2>1, <2>2
<1>2. /\ v.kind # "null" => (HasType(m, v.kind) <=> HasType(s, v.kind))
      /\ m.types = <<>> <=> s.types = <<>>
      /\ m.nullable \/ HasType(m, "null") <=> s.nullable \/ HasType(s, "null")
      /\ m.nullable => m.types # <<>>
      /\ m.types \in Seq(STRING) /\ m.nullable \in BOOLEAN
  BY <1>1, TypesPrepared
<1>3. t.types = TypesWithNull(m) /\ t.nullable = FALSE
  BY Draft7Keywords DEF Prepared
<1> HIDE DEF t
<1>4. CASE m.nullable /\ ~HasType(m, "null")
  <2>1. t.types = Append(m.types, "null")
    BY <1>3, <1>4 DEF TypesWithNull
  <2>2. t.types # <<>>
    <3>1. Len(t.types) = Len(m.types) + 1 /\ Len(m.types) \in Nat
      BY <1>2, <2>1
    <3> QED BY <3>1
  <2>3. \A k : HasType(t, k) <=> HasType(m, k) \/ k = "null"
    BY <1>2, <2>1 DEF HasType
  <2> QED BY <1>1, <1>2, <1>3, <1>4, <2>2, <2>3 DEF TypeOk, t
<1>5. CASE ~(m.nullable /\ ~HasType(m, "null"))
  <2>1. t.types = m.types
    BY <1>3, <1>5 DEF TypesWithNull
  <2>2. \A k : HasType(t, k) <=> HasType(m, k)
    BY <2>1 DEF HasType
  <2> QED BY <1>1, <1>2, <1>3, <1>5, <2>1, <2>2 DEF TypeOk, t
<1> QED BY <1>4, <1>5

LowerOk(s, v) ==
  /\ v.kind \in DOMAIN s.least => s.least[v.kind] <= Size(v)
  /\ v.kind = "number" =>
       /\ s.openMin /\ "number" \in DOMAIN s.least => s.least["number"] # v.num
       /\ \A x \in s.above : v.num > x

UpperOk(s, v) ==
  /\ v.kind \in DOMAIN s.most => Size(v) <= s.most[v.kind]
  /\ v.kind = "number" =>
       /\ s.openMax /\ "number" \in DOMAIN s.most => s.most["number"] # v.num
       /\ \A x \in s.below : v.num < x

\* A lower bound means the same in the forms of 3.1 and 3.0...
LEMMA LowerPrepared ==
  ASSUME NEW s, IsSchema(s), Sound(s), NEW m, Prepared(s, m), NEW v, IsValue(v)
  PROVE  LowerOk(s, v) <=> LowerOk(m, v)
<1>1. /\ m.least = OldBound(s.least, s.above) /\ m.openMin = (s.openMin \/ s.above # {})
      /\ m.above = {} /\ s.openMin \in BOOLEAN
  BY DEF Prepared, IsSchema
<1>2. CASE s.above = {}
  BY <1>1, <1>2 DEF OldBound, LowerOk
<1>3. CASE s.above # {}
  <2>1. PICK x \in s.above : TRUE
    BY <1>3
  <2>2. x \in Int /\ s.above = {x}
    BY <2>1 DEF IsSchema
  <2>3. "number" \notin DOMAIN s.least
    BY <1>3 DEF Sound
  <2>4. (CHOOSE y \in s.above : TRUE) = x
    BY <2>2
  <2>5. m.openMin = TRUE /\ DOMAIN m.least = DOMAIN s.least \cup {"number"} /\ m.least["number"] = x
    BY <1>1, <1>3, <2>3, <2>4 DEF OldBound
  <2>6. \A k \in DOMAIN s.least : m.least[k] = s.least[k]
    BY <1>1, <1>3 DEF OldBound
  <2>7. CASE v.kind = "number"
    <3>1. v.num \in Int /\ Size(v) = v.num
      BY <2>7 DEF IsValue, Size
    <3>2. LowerOk(s, v) <=> v.num > x
      BY <2>2, <2>3, <2>7 DEF LowerOk
    <3>3. LowerOk(m, v) <=> x <= v.num /\ x # v.num
      BY <1>1, <2>5, <2>7, <3>1 DEF LowerOk
    <3> QED BY <2>2, <3>1, <3>2, <3>3
  <2>8. CASE v.kind # "number"
    BY <2>5, <2>6, <2>8 DEF LowerOk
  <2> QED BY <2>7, <2>8
<1> QED BY <1>2, <1>3

\* ...and so does an upper one.
LEMMA UpperPrepared ==
  ASSUME NEW s, IsSchema(s), Sound(s), NEW m, Prepared(s, m), NEW v, IsValue(v)
  PROVE  UpperOk(s, v) <=> UpperOk(m, v)
<1>1. /\ m.most = OldBound(s.most, s.below) /\ m.openMax = (s.openMax \/ s.below # {})
      /\ m.below = {} /\ s.openMax \in BOOLEAN
  BY DEF Prepared, IsSchema
<1>2. CASE s.below = {}
  BY <1>1, <1>2 DEF OldBound, UpperOk
<1>3. CASE s.below # {}
  <2>1. PICK x \in s.below : TRUE
    BY <1>3
  <2>2. x \in Int /\ s.below = {x}
    BY <2>1 DEF IsSchema
  <2>3. "number" \notin DOMAIN s.most
    BY <1>3 DEF Sound
  <2>4. (CHOOSE y \in s.below : TRUE) = x
    BY <2>2
  <2>5. m.openMax = TRUE /\ DOMAIN m.most = DOMAIN s.most \cup {"number"} /\ m.most["number"] = x
    BY <1>1, <1>3, <2>3, <2>4 DEF OldBound
  <2>6. \A k \in DOMAIN s.most : m.most[k] = s.most[k]
    BY <1>1, <1>3 DEF OldBound
  <2>7. CASE v.kind = "number"
    <3>1. v.num \in Int /\ Size(v) = v.num
      BY <2>7 DEF IsValue, Size
    <3>2. UpperOk(s, v) <=> v.num < x
      BY <2>2, <2>3, <2>7 DEF UpperOk
    <3>3. UpperOk(m, v) <=> v.num <= x /\ x # v.num
      BY <1>1, <2>5, <2>7, <3>1 DEF UpperOk
    <3> QED BY <2>2, <3>1, <3>2, <3>3
  <2>8. CASE v.kind # "number"
    BY <2>5, <2>6, <2>8 DEF UpperOk
  <2> QED BY <2>7, <2>8
<1> QED BY <1>2, <1>3

\* Draft 7 has the bounds of the types listed, and no others.
LEMMA LowerWritten ==
  ASSUME NEW s, IsSchema(s), NEW m, Prepared(s, m), NEW v, IsValue(v)
  PROVE  /\ LowerOk(m, v) => LowerOk(Draft7(m), v)
         /\ (v.kind \in DOMAIN m.least => HasType(m, v.kind)) =>
              (LowerOk(m, v) <=> LowerOk(Draft7(m), v))
<1> DEFINE t == Draft7(m)
<1>1. /\ t.least = Inclusive(m, m.openMin, m.least) /\ t.openMin = FALSE
      /\ t.above = IF HasType(m, "number") THEN Exclusive(m.openMin, m.least) ELSE {}
      /\ m.above = {} /\ m.openMin \in BOOLEAN
  BY Draft7Keywords DEF Prepared
<1>2. \A k \in DOMAIN m.least : m.least[k] \in Int
  <2>1. m.least = OldBound(s.least, s.above) /\ \A k \in DOMAIN s.least : s.least[k] \in Int
    BY DEF Prepared, IsSchema, IsBound
  <2>2. s.above # {} => (CHOOSE x \in s.above : TRUE) \in Int
    BY DEF IsSchema
  <2> QED BY <2>1, <2>2 DEF OldBound
<1> HIDE DEF t
<1>3. CASE v.kind # "number"
  <2>1. /\ v.kind \in DOMAIN t.least <=> v.kind \in DOMAIN m.least /\ HasType(m, v.kind)
        /\ v.kind \in DOMAIN t.least => t.least[v.kind] = m.least[v.kind]
    BY <1>1, <1>3 DEF Inclusive
  <2> QED BY <1>3, <2>1 DEF LowerOk, t
<1>4. CASE v.kind = "number"
  <2>1. v.num \in Int /\ Size(v) = v.num
    BY <1>4 DEF IsValue, Size
  <2>2. LowerOk(m, v) <=> ("number" \in DOMAIN m.least =>
          m.least["number"] <= v.num /\ (m.openMin => m.least["number"] # v.num))
    BY <1>1, <1>4, <2>1 DEF LowerOk
  <2>3. CASE m.openMin
    <3>1. "number" \notin DOMAIN t.least
      BY <1>1, <2>3 DEF Inclusive
    <3>2. t.above = IF HasType(m, "number") /\ "number" \in DOMAIN m.least
                    THEN {m.least["number"]} ELSE {}
      BY <1>1, <2>3 DEF Exclusive
    <3>3. LowerOk(t, v) <=> (HasType(m, "number") /\ "number" \in DOMAIN m.least =>
            v.num > m.least["number"])
      BY <1>1, <1>4, <3>1, <3>2 DEF LowerOk
    <3>4. "number" \in DOMAIN m.least =>
            (m.least["number"] <= v.num /\ m.least["number"] # v.num <=> v.num > m.least["number"])
      BY <1>2, <2>1
    <3> QED BY <1>4, <2>2, <2>3, <3>3, <3>4 DEF t
  <2>4. CASE ~m.openMin
    <3>1. /\ "number" \in DOMAIN t.least <=> "number" \in DOMAIN m.least /\ HasType(m, "number")
          /\ "number" \in DOMAIN t.least => t.least["number"] = m.least["number"]
      BY <1>1, <2>4 DEF Inclusive
    <3>2. t.above = {}
      BY <1>1, <2>4 DEF Exclusive
    <3>3. LowerOk(t, v) <=> (HasType(m, "number") /\ "number" \in DOMAIN m.least => m.least["number"] <= v.num)
      BY <1>1, <1>4, <2>1, <3>1, <3>2 DEF LowerOk
    <3> QED BY <1>4, <2>2, <2>4, <3>3 DEF t
  <2> QED BY <2>3, <2>4
<1> QED BY <1>3, <1>4

\* The same of upper bounds.
LEMMA UpperWritten ==
  ASSUME NEW s, IsSchema(s), NEW m, Prepared(s, m), NEW v, IsValue(v)
  PROVE  /\ UpperOk(m, v) => UpperOk(Draft7(m), v)
         /\ (v.kind \in DOMAIN m.most => HasType(m, v.kind)) =>
              (UpperOk(m, v) <=> UpperOk(Draft7(m), v))
<1> DEFINE t == Draft7(m)
<1>1. /\ t.most = Inclusive(m, m.openMax, m.most) /\ t.openMax = FALSE
      /\ t.below = IF HasType(m, "number") THEN Exclusive(m.openMax, m.most) ELSE {}
      /\ m.below = {} /\ m.openMax \in BOOLEAN
  BY Draft7Keywords DEF Prepared
<1>2. \A k \in DOMAIN m.most : m.most[k] \in Int
  <2>1. m.most = OldBound(s.most, s.below) /\ \A k \in DOMAIN s.most : s.most[k] \in Int
    BY DEF Prepared, IsSchema, IsBound
  <2>2. s.below # {} => (CHOOSE x \in s.below : TRUE) \in Int
    BY DEF IsSchema
  <2> QED BY <2>1, <2>2 DEF OldBound
<1> HIDE DEF t
<1>3. CASE v.kind # "number"
  <2>1. /\ v.kind \in DOMAIN t.most <=> v.kind \in DOMAIN m.most /\ HasType(m, v.kind)
        /\ v.kind \in DOMAIN t.most => t.most[v.kind] = m.most[v.kind]
    BY <1>1, <1>3 DEF Inclusive
  <2> QED BY <1>3, <2>1 DEF UpperOk, t
<1>4. CASE v.kind = "number"
  <2>1. v.num \in Int /\ Size(v) = v.num
    BY <1>4 DEF IsValue, Size
  <2>2. UpperOk(m, v) <=> ("number" \in DOMAIN m.most =>
          v.num <= m.most["number"] /\ (m.openMax => m.most["number"] # v.num))
    BY <1>1, <1>4, <2>1 DEF UpperOk
  <2>3. CASE m.openMax
    <3>1. "number" \notin DOMAIN t.most
      BY <1>1, <2>3 DEF Inclusive
    <3>2. t.below = IF HasType(m, "number") /\ "number" \in DOMAIN m.most
                    THEN {m.most["number"]} ELSE {}
      BY <1>1, <2>3 DEF Exclusive
    <3>3. UpperOk(t, v) <=> (HasType(m, "number") /\ "number" \in DOMAIN m.most =>
            v.num < m.most["number"])
      BY <1>1, <1>4, <3>1, <3>2 DEF UpperOk
    <3>4. "number" \in DOMAIN m.most =>
            (v.num <= m.most["number"] /\ m.most["number"] # v.num <=> v.num < m.most["number"])
      BY <1>2, <2>1
    <3> QED BY <1>4, <2>2, <2>3, <3>3, <3>4 DEF t
  <2>4. CASE ~m.openMax
    <3>1. /\ "number" \in DOMAIN t.most <=> "number" \in DOMAIN m.most /\ HasType(m, "number")
          /\ "number" \in DOMAIN t.most => t.most["number"] = m.most["number"]
      BY <1>1, <2>4 DEF Inclusive
    <3>2. t.below = {}
      BY <1>1, <2>4 DEF Exclusive
    <3>3. UpperOk(t, v) <=> (HasType(m, "number") /\ "number" \in DOMAIN m.most => v.num <= m.most["number"])
      BY <1>1, <1>4, <2>1, <3>1, <3>2 DEF UpperOk
    <3> QED BY <1>4, <2>2, <2>4, <3>3 DEF t
  <2> QED BY <2>3, <2>4
<1> QED BY <1>3, <1>4

\* Keywords, taken apart.
LEMMA KeywordsParts ==
  ASSUME NEW s, NEW v
  PROVE  Keywords(s, v) <=>
           /\ TypeOk(s, v)
           /\ s.enum = {} \/ v \in s.enum
           /\ s.const \subseteq {v}
           /\ LowerOk(s, v) /\ UpperOk(s, v)
           /\ v.kind = "object" => s.required \subseteq DOMAIN v.fields
BY Zenon DEF Keywords, Within, TypeOk, LowerOk, UpperOk

\* What a sound schema allows, its keywords still allow in the tool.
LEMMA KeywordsKept ==
  ASSUME NEW s, IsSchema(s), Sound(s), NEW m, Prepared(s, m), NEW v, IsValue(v), Keywords(s, v)
  PROVE  Keywords(Draft7(m), v)
<1> DEFINE t == Draft7(m)
<1>1. /\ TypeOk(s, v)
      /\ s.enum = {} \/ v \in s.enum
      /\ s.const \subseteq {v}
      /\ LowerOk(s, v) /\ UpperOk(s, v)
      /\ v.kind = "object" => s.required \subseteq DOMAIN v.fields
  BY KeywordsParts
<1>2. TypeOk(t, v)
  BY <1>1, TypesWritten
<1>3. LowerOk(t, v) /\ UpperOk(t, v)
  BY <1>1, LowerPrepared, LowerWritten, UpperPrepared, UpperWritten
<1>4. /\ t.enum = m.enum /\ t.const = m.const
      /\ HasType(m, "object") => t.required = m.required
      /\ ~HasType(m, "object") => t.required = {}
  BY Draft7Keywords DEF Prepared
<1>5. m.enum = s.enum /\ m.required = s.required /\ m.const \subseteq s.const
  BY DEF Prepared
<1> HIDE DEF t
<1>6. /\ t.enum = {} \/ v \in t.enum
      /\ t.const \subseteq {v}
      /\ v.kind = "object" => t.required \subseteq DOMAIN v.fields
  BY <1>1, <1>4, <1>5
<1>7. Keywords(t, v)
  BY <1>2, <1>3, <1>6, KeywordsParts
<1> QED BY <1>7 DEF t

\* An exact schema's keywords allow just the same in the tool.
LEMMA KeywordsSame ==
  ASSUME NEW s, IsSchema(s), Exact(s), NEW m, Prepared(s, m), NEW v, IsValue(v)
  PROVE  Keywords(s, v) <=> Keywords(Draft7(m), v)
<1> DEFINE t == Draft7(m)
<1>1. Sound(s)
  BY DEF Exact
<1>2. TypeOk(t, v) <=> TypeOk(s, v)
  BY <1>1, TypesWritten
<1>3. \A k : k # "null" => (HasType(m, k) <=> HasType(s, k))
  BY <1>1, TypesPrepared
<1>4. v.kind \in DOMAIN m.least \cup DOMAIN m.most => HasType(m, v.kind)
  <2>1. /\ DOMAIN m.least \subseteq DOMAIN s.least \cup (IF s.above = {} THEN {} ELSE {"number"})
        /\ DOMAIN m.most \subseteq DOMAIN s.most \cup (IF s.below = {} THEN {} ELSE {"number"})
    BY DEF Prepared, OldBound
  <2>2. \A k \in DOMAIN s.least \cup DOMAIN s.most : HasType(s, k) /\ k # "null"
    BY DEF Exact, IsSchema, IsBound
  <2>3. s.above # {} \/ s.below # {} => HasType(s, "number")
    BY DEF Exact
  <2> QED BY <1>3, <2>1, <2>2, <2>3
<1>5. LowerOk(t, v) <=> LowerOk(s, v)
  BY <1>1, <1>4, LowerPrepared, LowerWritten
<1>6. UpperOk(t, v) <=> UpperOk(s, v)
  BY <1>1, <1>4, UpperPrepared, UpperWritten
<1>7. /\ t.enum = m.enum /\ t.const = m.const
      /\ HasType(m, "object") => t.required = m.required
      /\ ~HasType(m, "object") => t.required = {}
  BY Draft7Keywords DEF Prepared
<1>8. m.enum = s.enum /\ m.required = s.required /\ m.const \subseteq s.const
  BY DEF Prepared
<1>9. s.const = {} /\ (s.required # {} => HasType(s, "object"))
  BY DEF Exact
<1> HIDE DEF t
<1>10. t.enum = s.enum /\ t.const = {} /\ t.required = s.required
  BY <1>3, <1>7, <1>8, <1>9
<1>11. Keywords(t, v) <=> Keywords(s, v)
  BY <1>2, <1>5, <1>6, <1>9, <1>10, KeywordsParts
<1> QED BY <1>11 DEF t

-----------------------------------------------------------------------------
\* The links that combine schemas are all written, of the others those that a
\* walk follows.
LEMMA LinksWritten ==
  ASSUME NEW s, NEW m, Prepared(s, m)
  PROVE  LET t == Draft7(m)
         IN  /\ \A k \in Combinators : t.sub[k] = m.sub[k] /\ m.sub[k] = s.sub[k]
             /\ \A k \in Kinds \cup {"prefix"} : \A x \in DOMAIN t.sub[k] :
                  k \in Kinds /\ x \in DOMAIN m.sub[k] /\ t.sub[k][x] = m.sub[k][x]
<1> DEFINE t == Draft7(m)
<1>1. \A k \in Kinds \cup {"prefix"} :
        t.sub[k] = IF k \in Followed(m, "request") THEN m.sub[k] ELSE <<>>
  BY Draft7Keywords DEF Prepared
<1> HIDE DEF t
<1>2. \A k \in Combinators : k \in Followed(m, "request") /\ k \in Kinds \ {"items", "props"}
  BY DEF Combinators, Kinds, Followed
<1>3. \A k \in Combinators : t.sub[k] = m.sub[k] /\ m.sub[k] = s.sub[k]
  BY <1>1, <1>2 DEF Prepared
<1>4. \A k \in Followed(m, "request") : k \in Kinds
  BY DEF Followed, Kinds
<1>5. DOMAIN <<>> = {}
  OBVIOUS
<1>6. \A k \in Kinds \cup {"prefix"} : \A x \in DOMAIN t.sub[k] :
        k \in Kinds /\ x \in DOMAIN m.sub[k] /\ t.sub[k][x] = m.sub[k][x]
  BY <1>1, <1>4, <1>5
<1> QED BY <1>3, <1>6 DEF t

\* The parts of arrays and objects that are written are the source's, and where one
\* is dropped nothing takes its place.
LEMMA LinksKept ==
  ASSUME NEW s, IsSchema(s), Sound(s), NEW m, Prepared(s, m)
  PROVE  LET t == Draft7(m)
         IN  /\ DOMAIN s.sub["prefix"] = {}
             /\ \A k \in {"items", "props", "extra"} : \A x \in DOMAIN t.sub[k] :
                  x \in DOMAIN s.sub[k] /\ t.sub[k][x] = s.sub[k][x]
             /\ t.closed => s.closed
             /\ \A p \in DOMAIN s.sub["props"] : p \notin DOMAIN t.sub["props"] =>
                  ~t.closed /\ DOMAIN t.sub["extra"] = {}
<1> DEFINE t == Draft7(m)
<1>1. \A k \in Kinds \cup {"prefix"} :
        t.sub[k] = IF k \in Followed(m, "request") THEN m.sub[k] ELSE <<>>
  BY Draft7Keywords DEF Prepared
<1>2. /\ HasType(m, "object") => t.closed = m.closed
      /\ ~HasType(m, "object") => t.closed = FALSE
  BY Draft7Keywords DEF Prepared
<1> HIDE DEF t
<1>3. DOMAIN s.sub["prefix"] = {}
  BY DEF Sound
<1>4. m.closed = s.closed /\ m.sub["items"] = s.sub["items"] /\ m.sub["extra"] = s.sub["extra"]
  BY <1>3 DEF Prepared, Kinds
<1>5. DOMAIN <<>> = {}
  OBVIOUS
<1>6. \A k \in {"items", "props", "extra"} : \A x \in DOMAIN t.sub[k] :
        x \in DOMAIN s.sub[k] /\ t.sub[k][x] = s.sub[k][x]
  <2>1. \A k \in {"items", "props", "extra"} : \A x \in DOMAIN t.sub[k] :
          x \in DOMAIN m.sub[k] /\ t.sub[k][x] = m.sub[k][x]
    BY <1>1, <1>5 DEF Kinds
  <2>2. \A p \in DOMAIN m.sub["props"] :
          p \in DOMAIN s.sub["props"] /\ m.sub["props"][p] = s.sub["props"][p]
    BY DEF Prepared
  <2> QED BY <1>4, <2>1, <2>2
<1>7. ASSUME NEW p \in DOMAIN s.sub["props"], p \notin DOMAIN t.sub["props"]
      PROVE  ~t.closed /\ DOMAIN t.sub["extra"] = {}
  <2>1. CASE HasType(m, "object")
    <3>1. /\ t.sub["props"] = m.sub["props"] /\ t.sub["extra"] = m.sub["extra"]
          /\ t.closed = m.closed
      BY <1>1, <1>2, <2>1 DEF Followed, Kinds, Typed
    <3>2. p \in Reserved
      BY <1>7, <3>1 DEF Prepared
    <3> QED BY <1>4, <3>1, <3>2 DEF Sound
  <2>2. CASE ~HasType(m, "object")
    <3>1. "extra" \notin Followed(m, "request")
      BY <2>2 DEF Followed, Typed
    <3> QED BY <1>1, <1>2, <1>5, <2>2, <3>1 DEF Kinds
  <2> QED BY <2>1, <2>2
<1> QED BY <1>2, <1>3, <1>4, <1>6, <1>7 DEF t

\* A schema that loses nothing keeps its links.
LEMMA LinksSame ==
  ASSUME NEW s, IsSchema(s), Exact(s), NEW m, Prepared(s, m)
  PROVE  LET t == Draft7(m)
         IN  /\ t.closed <=> s.closed
             /\ \A k \in Kinds \cup {"prefix"} : DOMAIN t.sub[k] = DOMAIN s.sub[k]
             /\ \A k \in Kinds : \A x \in DOMAIN s.sub[k] : t.sub[k][x] = s.sub[k][x]
<1> DEFINE t == Draft7(m)
<1>1. \A k \in Kinds \cup {"prefix"} :
        t.sub[k] = IF k \in Followed(m, "request") THEN m.sub[k] ELSE <<>>
  BY Draft7Keywords DEF Prepared
<1>2. /\ HasType(m, "object") => t.closed = m.closed
      /\ ~HasType(m, "object") => t.closed = FALSE
  BY Draft7Keywords DEF Prepared
<1> HIDE DEF t
<1>3. Sound(s)
  BY DEF Exact
<1>4. DOMAIN s.sub["prefix"] = {} /\ DOMAIN m.sub["prefix"] = {}
  BY <1>3 DEF Sound, Prepared
<1>5. \A k \in Kinds \ {"props"} : m.sub[k] = s.sub[k]
  BY <1>4 DEF Prepared, Kinds
<1>6. DOMAIN m.sub["props"] = DOMAIN s.sub["props"]
      /\ \A p \in DOMAIN s.sub["props"] : m.sub["props"][p] = s.sub["props"][p]
  <2>1. DOMAIN s.sub["props"] \cap Reserved = {}
    BY DEF Exact
  <2>2. /\ DOMAIN m.sub["props"] \subseteq DOMAIN s.sub["props"]
        /\ DOMAIN s.sub["props"] \ Reserved \subseteq DOMAIN m.sub["props"]
        /\ \A p \in DOMAIN m.sub["props"] : m.sub["props"][p] = s.sub["props"][p]
    BY DEF Prepared
  <2> QED BY <2>1, <2>2
<1>7. \A k : k # "null" => (HasType(m, k) <=> HasType(s, k))
  BY <1>3, TypesPrepared
<1>8. \A k \in Kinds : DOMAIN s.sub[k] # {} => k \in Followed(m, "request")
  <2>1. \A k \in Kinds : DOMAIN s.sub[k] # {} => k \in Followed(s, "request")
    BY DEF Exact
  <2>2. Followed(m, "request") = Followed(s, "request")
    BY <1>7 DEF Followed, Typed
  <2> QED BY <2>1, <2>2
<1>9. DOMAIN <<>> = {}
  OBVIOUS
<1>10. \A k \in Kinds : DOMAIN m.sub[k] = DOMAIN s.sub[k]
                        /\ \A x \in DOMAIN s.sub[k] : m.sub[k][x] = s.sub[k][x]
  BY <1>5, <1>6
<1>11. \A k \in Kinds : DOMAIN t.sub[k] = DOMAIN s.sub[k]
                        /\ \A x \in DOMAIN s.sub[k] : t.sub[k][x] = s.sub[k][x]
  BY <1>1, <1>8, <1>9, <1>10
<1>12. DOMAIN t.sub["prefix"] = DOMAIN s.sub["prefix"]
  BY <1>1, <1>4, <1>9
<1>13. t.closed <=> s.closed
  <2>1. s.closed => HasType(m, "object")
    BY <1>7 DEF Exact
  <2>2. m.closed = s.closed
    BY DEF Prepared
  <2> QED BY <1>2, <2>1, <2>2
<1> QED BY <1>11, <1>12, <1>13 DEF t

\* A schema with fewer keywords and links allows more, if what is behind the
\* links does; behind oneOf and not it must be the same.
LEMMA MoreAllowed ==
  ASSUME NEW A, NEW f, NEW y, NEW B, NEW g, NEW z, NEW n, NEW v,
         Level(A, f, y, n, v),
         Keywords(A[n], v) => Keywords(B[n], v),
         DOMAIN A[n].sub["prefix"] = {} /\ DOMAIN B[n].sub["prefix"] = {},
         \A k \in Combinators : B[n].sub[k] = A[n].sub[k],
         \A k \in {"items", "props", "extra"} : DOMAIN B[n].sub[k] \subseteq DOMAIN A[n].sub[k],
         B[n].closed => A[n].closed,
         \A p \in DOMAIN A[n].sub["props"] : p \notin DOMAIN B[n].sub["props"] =>
           ~B[n].closed /\ DOMAIN B[n].sub["extra"] = {},
         \A k \in Combinators : \A x \in DOMAIN A[n].sub[k] :
           /\ Ok(A, f, y, n, k, x, v) => Ok(B, g, z, n, k, x, v)
           /\ k \in {"oneOf", "not"} => (Ok(B, g, z, n, k, x, v) => Ok(A, f, y, n, k, x, v)),
         v.kind = "array" => \A i \in DOMAIN v.elems :
           \A x \in DOMAIN B[n].sub["items"] :
             Ok(A, f, y, n, "items", x, v.elems[i]) => Ok(B, g, z, n, "items", x, v.elems[i]),
         v.kind = "object" => \A p \in DOMAIN v.fields :
           \A k \in {"props", "extra"} : \A x \in DOMAIN B[n].sub[k] :
             Ok(A, f, y, n, k, x, v.fields[p]) => Ok(B, g, z, n, k, x, v.fields[p])
  PROVE  Level(B, g, z, n, v)
<1>1. /\ Keywords(A[n], v)
      /\ ElementsOk(A, f, y, n, v)
      /\ FieldsOk(A, f, y, n, v)
      /\ CombinedOk(A, f, y, n, v)
  BY LevelParts
<1>2. ElementsOk(B, g, z, n, v)
  <2>1. SUFFICES ASSUME v.kind = "array", NEW i \in DOMAIN v.elems
                 PROVE  AllOk(B, g, z, n, "items", v.elems[i])
    BY DEF ElementsOk
  <2>2. AllOk(A, f, y, n, "items", v.elems[i])
    BY <1>1, <2>1 DEF ElementsOk
  <2>3. DOMAIN B[n].sub["items"] \subseteq DOMAIN A[n].sub["items"]
    OBVIOUS
  <2> QED BY <2>1, <2>2, <2>3 DEF AllOk
<1>3. FieldsOk(B, g, z, n, v)
  <2>1. SUFFICES ASSUME v.kind = "object", NEW p \in DOMAIN v.fields
                 PROVE  IF p \in DOMAIN B[n].sub["props"]
                        THEN Ok(B, g, z, n, "props", p, v.fields[p])
                        ELSE ~B[n].closed /\ AllOk(B, g, z, n, "extra", v.fields[p])
    BY Zenon DEF FieldsOk
  <2>2. /\ DOMAIN B[n].sub["props"] \subseteq DOMAIN A[n].sub["props"]
        /\ DOMAIN B[n].sub["extra"] \subseteq DOMAIN A[n].sub["extra"]
    OBVIOUS
  <2>3. IF p \in DOMAIN A[n].sub["props"]
        THEN Ok(A, f, y, n, "props", p, v.fields[p])
        ELSE ~A[n].closed /\ AllOk(A, f, y, n, "extra", v.fields[p])
    BY <1>1, <2>1, Zenon DEF FieldsOk
  <2>4. CASE p \in DOMAIN B[n].sub["props"]
    BY <2>1, <2>2, <2>3, <2>4
  <2>5. CASE p \notin DOMAIN B[n].sub["props"] /\ p \in DOMAIN A[n].sub["props"]
    BY <2>5 DEF AllOk
  <2>6. CASE p \notin DOMAIN A[n].sub["props"]
    <3>1. AllOk(A, f, y, n, "extra", v.fields[p]) /\ ~A[n].closed
      BY <2>3, <2>6
    <3>2. AllOk(B, g, z, n, "extra", v.fields[p])
      BY <2>1, <2>2, <3>1 DEF AllOk
    <3> QED BY <2>2, <2>6, <3>1, <3>2
  <2> QED BY <2>4, <2>5, <2>6
<1>4. CombinedOk(B, g, z, n, v)
  <2>1. {"allOf", "anyOf", "oneOf", "not"} = Combinators
    BY DEF Combinators
  <2>2. AllOk(B, g, z, n, "allOf", v)
    BY <1>1, <2>1 DEF CombinedOk, AllOk
  <2>3. \A k \in {"oneOf", "not"} : SomeOk(B, g, z, n, k, v) = SomeOk(A, f, y, n, k, v)
    BY <2>1 DEF SomeOk
  <2>4. SomeOk(A, f, y, n, "anyOf", v) \subseteq SomeOk(B, g, z, n, "anyOf", v)
    BY <2>1 DEF SomeOk
  <2>5. \A k \in Combinators : DOMAIN B[n].sub[k] = DOMAIN A[n].sub[k]
    OBVIOUS
  <2> QED BY <1>1, <2>1, <2>2, <2>3, <2>4, <2>5 DEF CombinedOk
<1> QED BY <1>1, <1>2, <1>3, <1>4, LevelParts

-----------------------------------------------------------------------------
\* The schemas of a document, as they are walked and as they are written.
Written(source, mid, tool) ==
  \A n \in Node :
    /\ IsSchema(source[n]) /\ Prepared(source[n], mid[n]) /\ tool[n] = Draft7(mid[n])
    /\ \A k \in Kinds : \A x \in DOMAIN mid[n].sub[k] : mid[n].sub[k][x] \in Node

\* The links stay in the document, and what is written is as grounded as its source.
LEMMA WrittenLinks ==
  ASSUME NEW source, NEW mid, NEW tool, Written(source, mid, tool), Grounded(source)
  PROVE  LinksIn(source) /\ LinksIn(tool) /\ Grounded(tool)
<1>1. \A n \in Node : \A k \in Combinators : tool[n].sub[k] = source[n].sub[k]
  <2> TAKE n \in Node
  <2>1. Prepared(source[n], mid[n]) /\ tool[n] = Draft7(mid[n])
    BY DEF Written
  <2> QED BY <2>1, LinksWritten
<1>2. \A n \in Node : \A k \in Kinds \cup {"prefix"} : \A x \in DOMAIN tool[n].sub[k] :
        k \in Kinds /\ x \in DOMAIN mid[n].sub[k] /\ tool[n].sub[k][x] = mid[n].sub[k][x]
  <2> TAKE n \in Node
  <2>1. Prepared(source[n], mid[n]) /\ tool[n] = Draft7(mid[n])
    BY DEF Written
  <2> QED BY <2>1, LinksWritten
<1>3. LinksIn(tool)
  BY <1>2 DEF LinksIn, Written
<1>4. LinksIn(source)
  BY DEF LinksIn, Written, IsSchema
<1>5. Grounded(tool)
  <2> SUFFICES ASSUME NEW S \in SUBSET Node, S # {}
               PROVE  \E n \in S : \A k \in Combinators : \A x \in DOMAIN tool[n].sub[k] :
                        tool[n].sub[k][x] \notin S
    BY Zenon DEF Grounded
  <2>1. PICK n \in S : \A k \in Combinators : \A x \in DOMAIN source[n].sub[k] :
                         source[n].sub[k][x] \notin S
    BY Zenon DEF Grounded
  <2>2. \A k \in Combinators : tool[n].sub[k] = source[n].sub[k]
    BY <1>1
  <2>3. \A k \in Combinators : \A x \in DOMAIN tool[n].sub[k] : tool[n].sub[k][x] \notin S
    BY <2>1, <2>2, Zenon
  <2> QED BY <2>3
<1> QED BY <1>3, <1>4, <1>5

\* The schemas a tool is given (schemaConversionDraft7.go, after
\* oas31_preprocess.go) against the document's.  R is closed under links and
\* sound, J holds what is judged in it and is exact: what the document allows the
\* tool allows, with whatever links are cut, and in J no more than that.
THEOREM ConversionKeeps ==
  ASSUME NEW source, NEW mid, NEW tool, Written(source, mid, tool), Grounded(source),
         NEW gone, NEW R \in SUBSET Node, NEW J \in SUBSET R,
         Closed(mid, Kinds, R), Closed(mid, Kinds, J),
         \A n \in R : Sound(source[n]),
         \A n \in J : Exact(source[n]),
         \A n \in R, k \in {"oneOf", "not"} : \A x \in DOMAIN mid[n].sub[k] : mid[n].sub[k][x] \in J,
         \A e \in gone : e.from \notin J /\ e.kind \notin {"oneOf", "not"}
  PROVE  \A n \in R, v \in Values :
           /\ Accepts(source, {}, n, v) => Accepts(tool, gone, n, v)
           /\ n \in J => (Accepts(tool, gone, n, v) => Accepts(source, {}, n, v))
<1>1. LinksIn(source) /\ LinksIn(tool) /\ Grounded(tool)
  BY WrittenLinks
<1> DEFINE y == Meaning(source, {})
           z == Meaning(tool, gone)
           Good(n, v) == /\ y[<<n, v>>] => z[<<n, v>>]
                         /\ n \in J => (z[<<n, v>>] => y[<<n, v>>])
           T == {p \in Pairs : p[1] \in R /\ ~Good(p[1], p[2])}
<1>2. SUFFICES ASSUME T # {} PROVE FALSE
  <2>1. \A n \in R, v \in Values : <<n, v>> \in Pairs /\ <<n, v>>[1] = n /\ <<n, v>>[2] = v
    BY DEF Pairs
  <2>2. T = {} => \A n \in R, v \in Values : Good(n, v)
    <3> HIDE DEF y, z
    <3> SUFFICES ASSUME T = {}, NEW n \in R, NEW v \in Values PROVE Good(n, v)
      OBVIOUS
    <3>1. <<n, v>> \notin T
      OBVIOUS
    <3> QED BY <2>1, <3>1
  <2> QED BY <2>2, Zenon DEF Accepts
<1>3. PICK n \in Node, v \in Values :
        /\ <<n, v>> \in T
        /\ \A m \in Node, w \in Values : Needs(source, n, v, m, w) => <<m, w>> \notin T
  <2>1. T \in SUBSET Pairs
    OBVIOUS
  <2> HIDE DEF T
  <2> QED BY <1>2, <2>1, LeastPair
<1>4. n \in R /\ ~Good(n, v)
  <2> HIDE DEF Good
  <2> QED BY <1>3
<1>5. \A m \in R, w \in Values : Needs(source, n, v, m, w) => Good(m, w)
  <2> HIDE DEF Good
  <2>1. \A m \in R, w \in Values : <<m, w>> \in Pairs /\ <<m, w>>[1] = m /\ <<m, w>>[2] = w
    BY DEF Pairs
  <2> QED BY <1>3, <2>1
<1>6. /\ y[<<n, v>>] <=> Level(source, {}, y, n, v)
      /\ z[<<n, v>>] <=> Level(tool, gone, z, n, v)
  BY <1>1, AcceptsLevel, Zenon DEF Accepts
<1> HIDE DEF y, z
<1> DEFINE s == source[n]
           m == mid[n]
           t == tool[n]
<1>7. /\ IsSchema(s) /\ Prepared(s, m) /\ t = Draft7(m) /\ Sound(s) /\ IsValue(v)
      /\ n \in J => Exact(s)
  BY <1>4, ToolSchemaAssumption DEF Written
<1>8. /\ \A k \in Combinators : t.sub[k] = m.sub[k] /\ m.sub[k] = s.sub[k]
      /\ \A k \in Kinds \cup {"prefix"} : \A x \in DOMAIN t.sub[k] :
           k \in Kinds /\ x \in DOMAIN m.sub[k] /\ t.sub[k][x] = m.sub[k][x]
  BY <1>7, LinksWritten
<1>9. /\ DOMAIN s.sub["prefix"] = {}
      /\ \A k \in {"items", "props", "extra"} : \A x \in DOMAIN t.sub[k] :
           x \in DOMAIN s.sub[k] /\ t.sub[k][x] = s.sub[k][x]
      /\ t.closed => s.closed
      /\ \A p \in DOMAIN s.sub["props"] : p \notin DOMAIN t.sub["props"] =>
           ~t.closed /\ DOMAIN t.sub["extra"] = {}
  BY <1>7, LinksKept
<1>10. "prefix" \notin Kinds /\ Combinators \subseteq Kinds /\ {"items", "props", "extra"} \subseteq Kinds
  BY DEF Kinds, Combinators
<1>11. DOMAIN t.sub["prefix"] = {}
  BY <1>8, <1>10
<1>12. \A k \in Kinds : \A x \in DOMAIN t.sub[k] :
         /\ t.sub[k][x] \in R
         /\ n \in J => t.sub[k][x] \in J
         /\ k \in {"oneOf", "not"} => t.sub[k][x] \in J
  BY <1>4, <1>8 DEF Closed
<1>13. \A k \in Kinds : \A x \in DOMAIN t.sub[k] : \A w \in Values :
         x \in DOMAIN s.sub[k] /\ t.sub[k][x] = s.sub[k][x]
  <2>1. \A k \in Kinds : k \in Combinators \/ k \in {"items", "props", "extra"}
    BY DEF Kinds, Combinators
  <2>2. \A k \in Combinators : t.sub[k] = s.sub[k]
    BY <1>8
  <2>3. \A k \in Kinds : \A x \in DOMAIN t.sub[k] :
          x \in DOMAIN s.sub[k] /\ t.sub[k][x] = s.sub[k][x]
    <3> TAKE k \in Kinds
    <3>1. CASE k \in Combinators
      BY <2>2, <3>1
    <3>2. CASE k \in {"items", "props", "extra"}
      BY <1>9, <3>2, Zenon
    <3> QED BY <2>1, <3>1, <3>2
  <2> QED BY <2>3, Zenon
<1> HIDE DEF Good, T
<1>14. \A k \in Kinds : \A x \in DOMAIN t.sub[k] : \A w \in Values :
         (k \in Combinators /\ w = v) \/ Depth[w] < Depth[v] => Good(t.sub[k][x], w)
  <2>1. \A k \in Kinds : \A x \in DOMAIN t.sub[k] : \A w \in Values :
          (k \in Combinators /\ w = v) \/ Depth[w] < Depth[v] => Needs(source, n, v, t.sub[k][x], w)
    BY <1>13 DEF Needs
  <2> QED BY <1>5, <1>12, <2>1
<1>15. \A k \in Kinds : \A x \in DOMAIN t.sub[k] : \A w \in Values :
         (k \in Combinators /\ w = v) \/ Depth[w] < Depth[v] =>
           /\ Ok(source, {}, y, n, k, x, w) => Ok(tool, gone, z, n, k, x, w)
           /\ n \in J \/ k \in {"oneOf", "not"} =>
                (Ok(tool, gone, z, n, k, x, w) => Ok(source, {}, y, n, k, x, w))
  <2> SUFFICES ASSUME NEW k \in Kinds, NEW x \in DOMAIN t.sub[k], NEW w \in Values,
                      (k \in Combinators /\ w = v) \/ Depth[w] < Depth[v]
               PROVE  /\ Ok(source, {}, y, n, k, x, w) => Ok(tool, gone, z, n, k, x, w)
                      /\ n \in J \/ k \in {"oneOf", "not"} =>
                           (Ok(tool, gone, z, n, k, x, w) => Ok(source, {}, y, n, k, x, w))
    OBVIOUS
  <2>1. Good(t.sub[k][x], w)
    BY <1>14
  <2>2. t.sub[k][x] = s.sub[k][x]
    BY <1>13
  <2>3. Ok(source, {}, y, n, k, x, w) <=> y[<<t.sub[k][x], w>>]
    BY <2>2 DEF Ok
  <2>4. Ok(tool, gone, z, n, k, x, w) <=> LinkAt(tool, n, k, x) \in gone \/ z[<<t.sub[k][x], w>>]
    BY DEF Ok
  <2>5. n \in J \/ k \in {"oneOf", "not"} => LinkAt(tool, n, k, x) \notin gone
    <3>1. LinkAt(tool, n, k, x).from = n /\ LinkAt(tool, n, k, x).kind = k
      BY DEF LinkAt
    <3> QED BY <3>1
  <2>6. n \in J \/ k \in {"oneOf", "not"} => t.sub[k][x] \in J
    BY <1>12
  <2> HIDE DEF t
  <2> QED BY <2>1, <2>3, <2>4, <2>5, <2>6 DEF Good
<1>16. v.kind = "array" => \A i \in DOMAIN v.elems :
         v.elems[i] \in Values /\ Depth[v.elems[i]] < Depth[v]
  BY <1>7, Zenon DEF IsValue
<1>17. v.kind = "object" => \A p \in DOMAIN v.fields :
         v.fields[p] \in Values /\ Depth[v.fields[p]] < Depth[v]
  BY <1>7, Zenon DEF IsValue
<1>18. Level(source, {}, y, n, v) => Level(tool, gone, z, n, v)
  <2>1. Keywords(s, v) => Keywords(t, v)
    BY <1>7, KeywordsKept
  <2>2. \A k \in Combinators : \A x \in DOMAIN s.sub[k] :
          /\ Ok(source, {}, y, n, k, x, v) => Ok(tool, gone, z, n, k, x, v)
          /\ k \in {"oneOf", "not"} => (Ok(tool, gone, z, n, k, x, v) => Ok(source, {}, y, n, k, x, v))
    BY <1>8, <1>10, <1>15
  <2>3. v.kind = "array" => \A i \in DOMAIN v.elems : \A x \in DOMAIN t.sub["items"] :
          Ok(source, {}, y, n, "items", x, v.elems[i]) => Ok(tool, gone, z, n, "items", x, v.elems[i])
    BY <1>10, <1>15, <1>16
  <2>4. v.kind = "object" => \A p \in DOMAIN v.fields :
          \A k \in {"props", "extra"} : \A x \in DOMAIN t.sub[k] :
            Ok(source, {}, y, n, k, x, v.fields[p]) => Ok(tool, gone, z, n, k, x, v.fields[p])
    BY <1>10, <1>15, <1>17
  <2>5. \A k \in Combinators : t.sub[k] = s.sub[k]
    BY <1>8
  <2>6. \A k \in {"items", "props", "extra"} : DOMAIN t.sub[k] \subseteq DOMAIN s.sub[k]
    BY <1>9
  <2> QED BY <1>9, <1>11, <2>1, <2>2, <2>3, <2>4, <2>5, <2>6, MoreAllowed
<1>19. n \in J => (Level(source, {}, y, n, v) <=> Level(tool, gone, z, n, v))
  <2> SUFFICES ASSUME n \in J PROVE Level(source, {}, y, n, v) <=> Level(tool, gone, z, n, v)
    OBVIOUS
  <2>1. Keywords(s, v) <=> Keywords(t, v)
    BY <1>7, KeywordsSame
  <2>2. /\ s.closed <=> t.closed
        /\ \A k \in Kinds \cup {"prefix"} : DOMAIN s.sub[k] = DOMAIN t.sub[k]
    BY <1>7, LinksSame
  <2>3. \A k \in Combinators : \A x \in DOMAIN s.sub[k] :
          Ok(source, {}, y, n, k, x, v) <=> Ok(tool, gone, z, n, k, x, v)
    BY <1>10, <1>15, <2>2
  <2>4. v.kind = "array" => \A i \in DOMAIN v.elems :
          \A k \in {"prefix", "items"} : \A x \in DOMAIN s.sub[k] :
            Ok(source, {}, y, n, k, x, v.elems[i]) <=> Ok(tool, gone, z, n, k, x, v.elems[i])
    BY <1>9, <1>10, <1>15, <1>16, <2>2
  <2>5. v.kind = "object" => \A p \in DOMAIN v.fields :
          \A k \in {"props", "extra"} : \A x \in DOMAIN s.sub[k] :
            Ok(source, {}, y, n, k, x, v.fields[p]) <=> Ok(tool, gone, z, n, k, x, v.fields[p])
    BY <1>10, <1>15, <1>17, <2>2
  <2> QED BY <2>1, <2>2, <2>3, <2>4, <2>5, SameLevel
<1>20. Good(n, v)
  BY <1>6, <1>18, <1>19 DEF Good
<1> QED BY <1>4, <1>20

-----------------------------------------------------------------------------
\* Reach is the least set that holds S and is closed under links.
LEMMA ReachIsLeast ==
  ASSUME NEW schemas, NEW kinds, NEW S \in SUBSET Node
  PROVE  \A C \in SUBSET Node : S \subseteq C /\ Closed(schemas, kinds, C) =>
           Reach(schemas, kinds, S) \subseteq C
BY DEF Reach

\* What is reached from S has S in it, and all that its own links lead to.
LEMMA ReachIsClosed ==
  ASSUME NEW schemas, NEW kinds, NEW S \in SUBSET Node,
         \A n \in Node, k \in kinds : \A x \in DOMAIN schemas[n].sub[k] :
           schemas[n].sub[k][x] \in Node
  PROVE  /\ Reach(schemas, kinds, S) \in SUBSET Node
         /\ S \subseteq Reach(schemas, kinds, S)
         /\ Closed(schemas, kinds, Reach(schemas, kinds, S))
<1> DEFINE R == Reach(schemas, kinds, S)
           closed == {C \in SUBSET Node : S \subseteq C /\ Closed(schemas, kinds, C)}
<1>1. R = {n \in Node : \A C \in closed : n \in C}
  BY DEF Reach
<1>2. ASSUME NEW n \in R, NEW k \in kinds, NEW x \in DOMAIN schemas[n].sub[k]
      PROVE  schemas[n].sub[k][x] \in R
  <2>1. n \in Node /\ schemas[n].sub[k][x] \in Node
    BY <1>1, <1>2
  <2>2. \A C \in closed : n \in C
    BY <1>1
  <2>3. \A C \in closed : schemas[n].sub[k][x] \in C
    BY <2>2 DEF Closed
  <2> HIDE DEF closed, R
  <2> QED BY <1>1, <2>1, <2>3
<1>3. S \subseteq R
  BY <1>1
<1>4. R \subseteq Node
  BY <1>1
<1> HIDE DEF R
<1>5. Closed(schemas, kinds, R)
  BY <1>2 DEF Closed
<1> QED BY <1>3, <1>4, <1>5 DEF R

\* The operation at hand.
LEMMA OperationIs ==
  ASSUME TypeOK
  PROVE  /\ IsDocument(op.doc)
         /\ op.schemas = Schemas(op.doc)
         /\ op.tool = [n \in Node |-> Draft7(op.schemas[n])]
         /\ op.form.plain \in Seq(Nat) /\ op.form.files \in Seq(Nat)
         /\ op.walks = Walks(op.doc, op.form)
         /\ op.args = Args(op.doc, op.upload, op.form)
         /\ op.upload \in {"none", "file", "form"}
         /\ op.upload = "form" => IsForm(op.schemas, op.doc, op.form)
         /\ op.walks \in Seq([use : {"request", "response"}, roots : SUBSET Link])
         /\ \A n \in Node, k \in Kinds : \A x \in DOMAIN op.schemas[n].sub[k] :
              op.schemas[n].sub[k][x] \in Node
<1>1. chosen \in Documents
  BY DEF TypeOK
<1>2. LET o == Operations[chosen]
      IN  /\ IsDocument(o.doc)
          /\ o.schemas = Schemas(o.doc)
          /\ o.tool = [n \in Node |-> Draft7(o.schemas[n])]
          /\ {o.form.plain, o.form.files} \subseteq Seq(Nat)
          /\ o.walks = Walks(o.doc, o.form)
          /\ o.args = Args(o.doc, o.upload, o.form)
          /\ o.upload \in {"none", "file", "form"}
          /\ o.upload = "form" => IsForm(o.schemas, o.doc, o.form)
  BY <1>1, ToolSchemaAssumption
<1>3. \A n \in Node, k \in Kinds : \A x \in DOMAIN op.schemas[n].sub[k] :
        op.schemas[n].sub[k][x] \in Node
  BY <1>1, WalkAssumption DEF op
<1>4. op.walks \in Seq([use : {"request", "response"}, roots : SUBSET Link])
  BY <1>1, WalkAssumption DEF op
<1>5. op.form.plain \in Seq(Nat) /\ op.form.files \in Seq(Nat)
  BY <1>2 DEF op
<1> QED BY <1>2, <1>3, <1>4, <1>5 DEF op

\* Its three sets of schemas belong together.
LEMMA OperationWritten ==
  ASSUME TypeOK
  PROVE  Written(op.doc.source, op.schemas, op.tool)
<1>1. /\ IsDocument(op.doc)
      /\ op.schemas = Schemas(op.doc)
      /\ op.tool = [n \in Node |-> Draft7(op.schemas[n])]
      /\ \A n \in Node, k \in Kinds : \A x \in DOMAIN op.schemas[n].sub[k] :
           op.schemas[n].sub[k][x] \in Node
  BY OperationIs
<1>2. \A n \in Node : Prepared(op.doc.source[n], op.schemas[n])
  BY <1>1, SchemasPrepared
<1>3. \A n \in Node : IsSchema(op.doc.source[n])
  BY <1>1 DEF IsDocument
<1> QED BY <1>1, <1>2, <1>3 DEF Written

\* A walk begins with links.
LEMMA WalkRoots ==
  ASSUME TypeOK, NEW w \in DOMAIN op.walks
  PROVE  op.walks[w].roots \subseteq Link
<1>1. op.walks \in Seq([use : {"request", "response"}, roots : SUBSET Link])
  BY OperationIs
<1>2. w \in 1 .. Len(op.walks)
  BY <1>1
<1>3. op.walks[w] \in [use : {"request", "response"}, roots : SUBSET Link]
  BY <1>1, <1>2, ElementOfSeq
<1> QED BY <1>3

\* What a walk reaches and what it judges, closed under links.
LEMMA ReachedIs ==
  ASSUME TypeOK, NEW w \in DOMAIN op.walks
  PROVE  /\ Reached(w) \in SUBSET Node
         /\ Closed(op.schemas, Kinds, Reached(w))
         /\ \A e \in op.walks[w].roots : e.to \in Reached(w)
         /\ Judged(w) \in SUBSET Reached(w)
         /\ Closed(op.schemas, Kinds, Judged(w))
         /\ \A n \in Reached(w), k \in {"oneOf", "not"} : \A x \in DOMAIN op.schemas[n].sub[k] :
              op.schemas[n].sub[k][x] \in Judged(w)
<1> DEFINE S == {e.to : e \in op.walks[w].roots}
           R == Reached(w)
           M == {m \in Node : \E n \in R, k \in {"oneOf", "not"} :
                   \E x \in DOMAIN op.schemas[n].sub[k] : op.schemas[n].sub[k][x] = m}
           J == Judged(w)
<1>1. \A n \in Node, k \in Kinds : \A x \in DOMAIN op.schemas[n].sub[k] :
        op.schemas[n].sub[k][x] \in Node
  BY OperationIs
<1>2. S \in SUBSET Node
  BY WalkRoots DEF Link
<1>3. R = Reach(op.schemas, Kinds, S) /\ J = Reach(op.schemas, Kinds, M)
  BY Zenon DEF Reached, Judged
<1> HIDE DEF R, J, S
<1>4. R \in SUBSET Node /\ S \subseteq R /\ Closed(op.schemas, Kinds, R)
  BY <1>1, <1>2, <1>3, ReachIsClosed
<1>5. M \in SUBSET Node
  OBVIOUS
<1>6. {"oneOf", "not"} \subseteq Kinds
  BY DEF Kinds
<1>7. M \subseteq R
  BY <1>4, <1>6 DEF Closed
<1>8. \A n \in R, k \in {"oneOf", "not"} : \A x \in DOMAIN op.schemas[n].sub[k] :
        op.schemas[n].sub[k][x] \in M
  BY <1>1, <1>4, <1>6
<1> HIDE DEF M
<1>9. J \in SUBSET Node /\ M \subseteq J /\ Closed(op.schemas, Kinds, J)
  BY <1>1, <1>3, <1>5, ReachIsClosed
<1>10. J \in SUBSET R
  BY <1>3, <1>4, <1>5, <1>7, ReachIsLeast
<1>11. \A e \in op.walks[w].roots : e.to \in R
  BY <1>4 DEF S
<1> QED BY <1>4, <1>8, <1>9, <1>10, <1>11 DEF R, J

\* A walk that loses nothing but what makes its schemas more permissive...
LEMMA WalkKeeps ==
  ASSUME TypeOK, NEW w \in DOMAIN op.walks, Grounded(op.doc.source), OnlyPermissive(w)
  PROVE  \A e \in op.walks[w].roots, v \in Values :
           Accepts(op.doc.source, {}, e.to, v) => Accepts(op.tool, results[w], e.to, v)
<1> DEFINE R == Reached(w)
           J == Judged(w)
           gone == results[w]
<1>1. /\ \A n \in R : Sound(op.doc.source[n])
      /\ \A n \in J : Exact(op.doc.source[n])
      /\ \A e \in gone : e.from \notin J /\ e.kind \notin {"oneOf", "not"}
  BY DEF OnlyPermissive
<1>2. /\ R \in SUBSET Node /\ Closed(op.schemas, Kinds, R)
      /\ \A e \in op.walks[w].roots : e.to \in R
      /\ J \in SUBSET R /\ Closed(op.schemas, Kinds, J)
      /\ \A n \in R, k \in {"oneOf", "not"} : \A x \in DOMAIN op.schemas[n].sub[k] :
           op.schemas[n].sub[k][x] \in J
  BY ReachedIs
<1>3. Written(op.doc.source, op.schemas, op.tool)
  BY OperationWritten
<1> HIDE DEF R, J, gone
<1>4. \A n \in R, v \in Values :
        Accepts(op.doc.source, {}, n, v) => Accepts(op.tool, gone, n, v)
  BY <1>1, <1>2, <1>3, ConversionKeeps
<1> QED BY <1>2, <1>4 DEF gone

\* ...and one that loses nothing.
LEMMA WalkSame ==
  ASSUME TypeOK, NEW w \in DOMAIN op.walks, Grounded(op.doc.source),
         \A n \in Reached(w) : Exact(op.doc.source[n])
  PROVE  \A e \in op.walks[w].roots, v \in Values :
           Accepts(op.doc.source, {}, e.to, v) <=> Accepts(op.tool, {}, e.to, v)
<1> DEFINE R == Reached(w)
<1>1. /\ R \in SUBSET Node /\ Closed(op.schemas, Kinds, R)
      /\ \A e \in op.walks[w].roots : e.to \in R
  BY ReachedIs
<1>2. Written(op.doc.source, op.schemas, op.tool)
  BY OperationWritten
<1>3. \A n \in R : Sound(op.doc.source[n]) /\ Exact(op.doc.source[n])
  BY DEF Exact
<1>4. \A n \in R, k \in {"oneOf", "not"} : \A x \in DOMAIN op.schemas[n].sub[k] :
        op.schemas[n].sub[k][x] \in R
  BY <1>1 DEF Closed, Kinds
<1> HIDE DEF R
<1>5. \A n \in R, v \in Values :
        /\ Accepts(op.doc.source, {}, n, v) => Accepts(op.tool, {}, n, v)
        /\ n \in R => (Accepts(op.tool, {}, n, v) => Accepts(op.doc.source, {}, n, v))
  <2>1. R \in SUBSET R
    OBVIOUS
  <2> QED BY <1>1, <1>2, <1>3, <1>4, <2>1, ConversionKeeps
<1> QED BY <1>1, <1>5

\* When the operation is done every walk has its result.
LEMMA ResultsOfWalks ==
  ASSUME TypeOK
  PROVE  /\ DOMAIN results \subseteq DOMAIN op.walks
         /\ Done => DOMAIN results = DOMAIN op.walks
<1>1. /\ results \in Seq(SUBSET Link) /\ Len(results) = walk - 1
      /\ walk \in 1 .. Len(op.walks) + 1
  BY DEF TypeOK
<1>2. op.walks \in Seq([use : {"request", "response"}, roots : SUBSET Link])
  BY OperationIs
<1>3. Len(op.walks) \in Nat
  BY <1>2
<1>4. DOMAIN results = 1 .. walk - 1 /\ DOMAIN op.walks = 1 .. Len(op.walks)
  BY <1>1, <1>2
<1>5. Done => walk = Len(op.walks) + 1
  BY <1>1, <1>3 DEF Done, Walking
<1> QED BY <1>1, <1>3, <1>4, <1>5

\* For every document, argument and value: an argument whose schema has lost
\* nothing accepts what the document's schema accepts.
THEOREM ExactSchemas == Spec => []ExactWithoutLoss
<1>1. TypeOK => ExactWithoutLoss
  <2> SUFFICES ASSUME TypeOK, Grounded(op.doc.source), NEW w \in DOMAIN results,
                      \A n \in Reached(w) : Exact(op.doc.source[n])
               PROVE  \A e \in op.walks[w].roots : \A v \in Values :
                        Accepts(op.doc.source, {}, e.to, v) <=> Accepts(op.tool, {}, e.to, v)
    BY Zenon DEF ExactWithoutLoss
  <2>1. w \in DOMAIN op.walks
    BY ResultsOfWalks
  <2> QED BY <2>1, WalkSame
<1> QED BY <1>1, TypeCorrect, PTL

-----------------------------------------------------------------------------
Joined(r, s, t) ==
  /\ Len(r) = Len(s) + Len(t)
  /\ \A i \in 1 .. Len(s) : r[i] = s[i]
  /\ \A i \in 1 .. Len(t) : r[Len(s) + i] = t[i]

\* Where the elements of two sequences are in their concatenation...
LEMMA ConcatAt ==
  ASSUME NEW S, NEW s \in Seq(S), NEW t \in Seq(S)
  PROVE  s \o t \in Seq(S) /\ Joined(s \o t, s, t)
<1>1. /\ s \o t \in Seq(S)
      /\ Len(s \o t) = Len(s) + Len(t)
      /\ \A i \in 1 .. Len(s) + Len(t) : (s \o t)[i] = IF i <= Len(s) THEN s[i] ELSE t[i - Len(s)]
  BY ConcatProperties
<1>2. Len(s) \in Nat /\ Len(t) \in Nat
  OBVIOUS
<1>3. \A i \in 1 .. Len(s) : (s \o t)[i] = s[i]
  BY <1>1, <1>2
<1>4. ASSUME NEW i \in 1 .. Len(t) PROVE (s \o t)[Len(s) + i] = t[i]
  <2>1. Len(s) + i \in 1 .. Len(s) + Len(t) /\ ~(Len(s) + i <= Len(s)) /\ (Len(s) + i) - Len(s) = i
    BY <1>2
  <2> QED BY <1>1, <2>1
<1> QED BY <1>1, <1>3, <1>4 DEF Joined

\* A function on 1 .. n is a sequence.
LEMMA FunctionIsSeq ==
  ASSUME NEW S, NEW n \in Nat, NEW f, f = [i \in 1 .. n |-> f[i]], \A i \in 1 .. n : f[i] \in S
  PROVE  f \in Seq(S) /\ Len(f) = n /\ DOMAIN f = 1 .. n
<1>1. f \in [1 .. n -> S]
  OBVIOUS
<1>2. f \in Seq(S)
  BY <1>1
<1>3. DOMAIN f = 1 .. n /\ DOMAIN f = 1 .. Len(f) /\ Len(f) \in Nat
  BY <1>1, <1>2
<1> QED BY <1>2, <1>3

Places(f, a, b, e, p, q, n) ==
  /\ DOMAIN f = 1 .. p + 1 + q + n
  /\ \A i \in 1 .. p : f[i] = a[i]
  /\ f[p + 1] = b[1]
  /\ \A i \in 1 .. n : f[p + 1 + q + i] = e[i]

\* ...and where those of the first, second and last of four are.
LEMMA FourParts ==
  ASSUME NEW S, NEW a \in Seq(S), NEW b \in Seq(S), NEW c \in Seq(S), NEW e \in Seq(S),
         NEW p, Len(a) = p, Len(b) = 1, NEW q, Len(c) = q, NEW n, Len(e) = n,
         NEW ab \in Seq(S), Joined(ab, a, b), NEW abc \in Seq(S), Joined(abc, ab, c),
         NEW f \in Seq(S), Joined(f, abc, e)
  PROVE  Places(f, a, b, e, p, q, n)
<1>1. p \in Nat /\ q \in Nat /\ n \in Nat
  OBVIOUS
<1>2. /\ Len(ab) = p + 1
      /\ \A i \in 1 .. p : ab[i] = a[i]
      /\ \A i \in 1 .. 1 : ab[p + i] = b[i]
  BY DEF Joined
<1>3. /\ Len(abc) = p + 1 + q
      /\ \A i \in 1 .. p + 1 : abc[i] = ab[i]
  BY <1>2 DEF Joined
<1>4. /\ Len(f) = p + 1 + q + n
      /\ \A i \in 1 .. p + 1 + q : f[i] = abc[i]
      /\ \A i \in 1 .. n : f[p + 1 + q + i] = e[i]
  BY <1>3 DEF Joined
<1>5. \A i \in 1 .. p : i \in 1 .. p + 1 /\ i \in 1 .. p + 1 + q
  BY <1>1
<1>6. p + 1 \in 1 .. p + 1 /\ p + 1 \in 1 .. p + 1 + q /\ 1 \in 1 .. 1
  BY <1>1
<1>7. f[p + 1] = b[1]
  <2>1. f[p + 1] = abc[p + 1]
    BY <1>4, <1>6, Zenon
  <2>2. abc[p + 1] = ab[p + 1]
    BY <1>3, <1>6, Zenon
  <2>3. ab[p + 1] = b[1]
    BY <1>2, <1>6, Zenon
  <2> QED BY <2>1, <2>2, <2>3, Zenon
<1>8. \A i \in 1 .. p : f[i] = a[i]
  BY <1>2, <1>3, <1>4, <1>5
<1>9. DOMAIN f = 1 .. p + 1 + q + n
  BY <1>4
<1> QED BY <1>4, <1>7, <1>8, <1>9 DEF Places

\* Which walk is a parameter's, the body's, a field's.
LEMMA WalksAt ==
  ASSUME TypeOK
  PROVE  LET d == op.doc
             before == Len(d.params) + 1 + Len(d.responses)
         IN  /\ \A i \in DOMAIN d.params :
                  i \in DOMAIN op.walks /\ op.walks[i] = Asked({Root(1, d.params[i].root)})
             /\ Len(d.params) + 1 \in DOMAIN op.walks
             /\ op.walks[Len(d.params) + 1] = BodyWalk(d)
             /\ \A i \in DOMAIN op.form.plain :
                  /\ before + i \in DOMAIN op.walks
                  /\ op.walks[before + i] = Asked({Root(1, op.form.fields[op.form.plain[i]])})
<1> DEFINE d == op.doc
           a == ParamWalks(d)
           b == <<BodyWalk(d)>>
           c == ResponseWalks(d)
           e == FormWalks(op.form)
           P == Len(d.params)
           Q == Len(d.responses)
           N == Len(op.form.plain)
           S == {a[i] : i \in 1 .. P} \cup {BodyWalk(d)} \cup {c[i] : i \in 1 .. Q}
                  \cup {e[i] : i \in 1 .. N}
<1>1. /\ d.params \in Seq([name : Nat, required : BOOLEAN, root : Node])
      /\ d.responses \in Seq(Node)
      /\ op.form.plain \in Seq(Nat)
      /\ op.walks = ((a \o b) \o c) \o e
  BY OperationIs DEF IsDocument, Walks
<1>2. P \in Nat /\ Q \in Nat /\ N \in Nat /\ DOMAIN d.params = 1 .. P /\ DOMAIN op.form.plain = 1 .. N
  BY <1>1
<1>3. /\ a = [i \in 1 .. P |-> Asked({Root(1, d.params[i].root)})]
      /\ e = [i \in 1 .. N |-> Asked({Root(1, op.form.fields[op.form.plain[i]])})]
      /\ \E F : c = [i \in 1 .. Q |-> F[i]]
  <2>1. c = [i \in 1 .. Q |-> c[i]]
    BY DEF ResponseWalks
  <2> QED BY <2>1 DEF ParamWalks, FormWalks
<1>4. b[1] = BodyWalk(d) /\ b = [i \in 1 .. 1 |-> b[i]]
  OBVIOUS
<1>5. /\ \A i \in 1 .. P : a[i] \in S
      /\ \A i \in 1 .. Q : c[i] \in S
      /\ \A i \in 1 .. N : e[i] \in S
      /\ \A i \in 1 .. 1 : b[i] \in S
  OBVIOUS
<1>6. a = [i \in 1 .. P |-> a[i]] /\ c = [i \in 1 .. Q |-> c[i]] /\ e = [i \in 1 .. N |-> e[i]]
  BY <1>3
<1> HIDE DEF a, b, c, e, S, d, P, Q, N
<1>7. a \in Seq(S) /\ Len(a) = P
  BY <1>2, <1>5, <1>6, FunctionIsSeq
<1>8. b \in Seq(S) /\ Len(b) = 1
  BY <1>4, <1>5, FunctionIsSeq
<1>9. c \in Seq(S) /\ Len(c) = Q
  BY <1>2, <1>5, <1>6, FunctionIsSeq
<1>10. e \in Seq(S) /\ Len(e) = N
  BY <1>2, <1>5, <1>6, FunctionIsSeq
<1>11. /\ DOMAIN op.walks = 1 .. P + 1 + Q + N
       /\ \A i \in 1 .. P : op.walks[i] = a[i]
       /\ op.walks[P + 1] = b[1]
       /\ \A i \in 1 .. N : op.walks[P + 1 + Q + i] = e[i]
  <2>1. a \o b \in Seq(S) /\ Joined(a \o b, a, b)
    BY <1>7, <1>8, ConcatAt, Zenon
  <2>2. (a \o b) \o c \in Seq(S) /\ Joined((a \o b) \o c, a \o b, c)
    BY <2>1, <1>9, ConcatAt, Zenon
  <2>3. op.walks \in Seq(S) /\ Joined(op.walks, (a \o b) \o c, e)
    BY <1>1, <1>10, <2>2, ConcatAt, Zenon
  <2>4. Places(op.walks, a, b, e, P, Q, N)
    BY <1>7, <1>8, <1>9, <1>10, <2>1, <2>2, <2>3, FourParts, Zenon
  <2> QED BY <2>4 DEF Places
<1>12. /\ \A i \in 1 .. P : i \in 1 .. P + 1 + Q + N
       /\ P + 1 \in 1 .. P + 1 + Q + N
       /\ \A i \in 1 .. N : P + 1 + Q + i \in 1 .. P + 1 + Q + N
  BY <1>2
<1>13. ASSUME NEW i \in DOMAIN d.params
       PROVE  i \in DOMAIN op.walks /\ op.walks[i] = Asked({Root(1, d.params[i].root)})
  BY <1>2, <1>3, <1>11, <1>12, <1>13
<1>14. P + 1 \in DOMAIN op.walks /\ op.walks[P + 1] = BodyWalk(d)
  BY <1>4, <1>11, <1>12
<1>15. ASSUME NEW i \in DOMAIN op.form.plain
       PROVE  /\ P + 1 + Q + i \in DOMAIN op.walks
              /\ op.walks[P + 1 + Q + i] = Asked({Root(1, op.form.fields[op.form.plain[i]])})
  BY <1>2, <1>3, <1>11, <1>12, <1>15
<1> QED BY <1>13, <1>14, <1>15 DEF d, P, Q

\* The arguments there can be.
IsArg(a, at, name, required, made) ==
  a.at = at /\ a.name = name /\ a.required = required /\ a.made = made

NextPlace == Len(op.doc.params) + 1

IsParamArg(a) ==
  \E i \in DOMAIN op.doc.params :
    IsArg(a, i, op.doc.params[i].name, op.doc.params[i].required, i)

IsBodyArg(a) ==
  /\ op.upload = "none" /\ op.doc.content # <<>>
  /\ IsArg(a, NextPlace, Body, op.doc.bodyRequired, NextPlace)

IsFileArg(a) == op.upload = "file" /\ IsArg(a, NextPlace, File, TRUE, ByReference)

IsPlainArg(a) ==
  /\ op.upload = "form"
  /\ \E i \in DOMAIN op.form.plain :
       IsArg(a, Len(op.doc.params) + i, op.form.plain[i], op.form.plain[i] \in op.form.needed,
             Len(op.doc.params) + 1 + Len(op.doc.responses) + i)

IsFilesArg(a) ==
  /\ op.upload = "form"
  /\ \E i \in DOMAIN op.form.files :
       IsArg(a, Len(op.doc.params) + Len(op.form.plain) + i, op.form.files[i],
             op.form.files[i] \in op.form.needed, ByReference)

\* What Arg makes.
LEMMA ArgFields ==
  ASSUME NEW at, NEW name, NEW required, NEW made, NEW a, a = Arg(at, name, required, made)
  PROVE  IsArg(a, at, name, required, made)
BY Zenon DEF Arg, IsArg

\* Positions are numbers, and not that of a file.
LEMMA Sums ==
  ASSUME NEW x \in Nat, NEW y \in Nat, NEW i \in Nat
  PROVE  x + i \in Nat /\ x + y + i \in Nat /\ x + 1 + y + i # 0
OBVIOUS

\* There are no others.
LEMMA ArgCases ==
  ASSUME TypeOK, NEW a \in op.args
  PROVE  IsParamArg(a) \/ IsBodyArg(a) \/ IsFileArg(a) \/ IsPlainArg(a) \/ IsFilesArg(a)
<1>1. op.args = Args(op.doc, op.upload, op.form) /\ op.upload \in {"none", "file", "form"}
  BY OperationIs
<1>2. \A b \in ParamArgs(op.doc) : IsParamArg(b)
  BY ArgFields, Zenon DEF ParamArgs, IsParamArg
<1>3. \A b \in WithoutBody(op.doc) : IsParamArg(b)
  BY <1>2 DEF WithoutBody
<1>4. CASE op.upload = "none"
  <2>1. \A b : b = Arg(NextPlace, Body, op.doc.bodyRequired, NextPlace) /\ op.doc.content # <<>> =>
          IsBodyArg(b)
    BY <1>4, ArgFields, Zenon DEF IsBodyArg
  <2> QED BY <1>1, <1>2, <1>4, <2>1 DEF Args, NextPlace
<1>5. CASE op.upload = "file"
  <2>1. \A b : b = Arg(NextPlace, File, TRUE, ByReference) => IsFileArg(b)
    BY <1>5, ArgFields, Zenon DEF IsFileArg
  <2> QED BY <1>1, <1>3, <1>5, <2>1 DEF Args, NextPlace
<1>6. CASE op.upload = "form"
  <2>1. \A b \in FormArgs(op.doc, op.form) : IsPlainArg(b) \/ IsFilesArg(b)
    BY <1>6, ArgFields, Zenon DEF FormArgs, IsPlainArg, IsFilesArg
  <2> QED BY <1>1, <1>3, <1>6, <2>1 DEF Args
<1> QED BY <1>1, <1>4, <1>5, <1>6

\* The lists that arguments come from.
LEMMA ArgNumbers ==
  ASSUME TypeOK
  PROVE  /\ Len(op.doc.params) \in Nat /\ DOMAIN op.doc.params = 1 .. Len(op.doc.params)
         /\ Len(op.doc.responses) \in Nat
         /\ Len(op.form.plain) \in Nat /\ DOMAIN op.form.plain = 1 .. Len(op.form.plain)
         /\ Len(op.form.files) \in Nat /\ DOMAIN op.form.files = 1 .. Len(op.form.files)
<1>1. /\ op.doc.params \in Seq([name : Nat, required : BOOLEAN, root : Node])
      /\ op.doc.responses \in Seq(Node)
      /\ op.form.plain \in Seq(Nat) /\ op.form.files \in Seq(Nat)
  BY OperationIs DEF IsDocument
<1> QED BY <1>1

\* Only files are given by reference.
LEMMA ArgPlaces ==
  ASSUME TypeOK, NEW a \in op.args
  PROVE  /\ a.at \in Nat
         /\ a.made = ByReference => IsFileArg(a) \/ IsFilesArg(a)
<1>1. CASE IsParamArg(a)
  BY <1>1, ArgNumbers DEF IsArg, IsParamArg, ByReference
<1>2. CASE IsBodyArg(a)
  BY <1>2, ArgNumbers DEF IsArg, IsBodyArg, ByReference, NextPlace
<1>3. CASE IsFileArg(a)
  <2>1. a.at = NextPlace
    BY <1>3 DEF IsArg, IsFileArg
  <2>2. NextPlace \in Nat
    BY ArgNumbers DEF NextPlace
  <2> QED BY <1>3, <2>1, <2>2
<1>4. CASE IsPlainArg(a)
  <2>1. PICK i \in DOMAIN op.form.plain :
          /\ a.at = Len(op.doc.params) + i
          /\ a.made = Len(op.doc.params) + 1 + Len(op.doc.responses) + i
    BY <1>4 DEF IsArg, IsPlainArg
  <2> i \in Nat
    BY ArgNumbers
  <2>2. /\ Len(op.doc.params) + i \in Nat
        /\ Len(op.doc.params) + 1 + Len(op.doc.responses) + i # 0
    BY ArgNumbers, Sums, Zenon
  <2>3. a.at \in Nat
    BY <2>1, <2>2, Zenon
  <2>4. a.made # 0
    BY <2>1, <2>2, Zenon
  <2> QED BY <2>3, <2>4 DEF ByReference
<1>5. CASE IsFilesArg(a)
  <2>1. PICK i \in DOMAIN op.form.files : a.at = Len(op.doc.params) + Len(op.form.plain) + i
    BY <1>5 DEF IsArg, IsFilesArg
  <2> i \in Nat
    BY ArgNumbers
  <2>2. Len(op.doc.params) + Len(op.form.plain) + i \in Nat
    BY ArgNumbers, Sums, Zenon
  <2>3. a.at \in Nat
    BY <2>1, <2>2, Zenon
  <2> QED BY <1>5, <2>3
<1> QED BY <1>1, <1>2, <1>3, <1>4, <1>5, ArgCases

\* An argument with a name of its own is judged by its own schema.
LEMMA ArgIs ==
  ASSUME TypeOK, Unmixed, NEW a \in op.args, NEW v
  PROVE  ArgAccepts(a.name, v) <=>
           IF a.made = ByReference THEN v.kind = "string" ELSE MadeAccepts(a.made, v)
<1> DEFINE named == {b \in op.args : b.name = a.name}
           arg == CHOOSE b \in named : \A c \in named : c.at <= b.at
<1>1. \A b \in op.args : b.name = a.name => b = a
  BY DEF Unmixed
<1>2. named = {a}
  BY <1>1
<1>3. a.at \in Nat
  BY ArgPlaces
<1>4. arg \in named
  BY <1>2, <1>3
<1>5. arg = a
  BY <1>2, <1>4
<1>6. ArgAccepts(a.name, v) <=>
        (named # {} => IF arg.made = ByReference THEN v.kind = "string" ELSE MadeAccepts(arg.made, v))
  BY DEF ArgAccepts
<1> HIDE DEF named, arg
<1> QED BY <1>2, <1>5, <1>6

\* An argument that one walk makes of one schema.
LEMMA MadeFrom ==
  ASSUME TypeOK, Grounded(op.doc.source), NEW w \in DOMAIN op.walks, OnlyPermissive(w),
         NEW r, op.walks[w] = Asked({r}), NEW v \in Values, Accepts(op.doc.source, {}, r.to, v)
  PROVE  MadeAccepts(w, v)
<1>1. op.walks[w].roots = {r}
  BY DEF Asked
<1>2. Accepts(op.tool, results[w], r.to, v)
  BY <1>1, WalkKeeps
<1>3. {e \in op.walks[w].roots : e \in results[w] \/ Accepts(op.tool, results[w], e.to, v)} = {r}
  BY <1>1, <1>2
<1>4. Cardinality({r}) = 1
  BY FS_Singleton
<1> QED BY <1>3, <1>4 DEF MadeAccepts

\* What holds of a call where every argument's schema is at most more permissive.
Safe ==
  /\ Grounded(op.doc.source) /\ Unmixed
  /\ \A w \in DOMAIN op.walks : Asks(w) => OnlyPermissive(w)

\* The same, by the schema.
LEMMA MadeOf ==
  ASSUME TypeOK, Safe, NEW w \in DOMAIN op.walks, NEW key, NEW n,
         op.walks[w] = Asked({Root(key, n)}), NEW v \in Values, Accepts(op.doc.source, {}, n, v)
  PROVE  MadeAccepts(w, v)
<1>1. Asks(w)
  BY DEF Asks, Asked
<1>2. Grounded(op.doc.source) /\ OnlyPermissive(w)
  BY <1>1 DEF Safe
<1>3. Accepts(op.doc.source, {}, Root(key, n).to, v)
  BY DEF Root
<1> QED BY <1>2, <1>3, MadeFrom

\* What the document's schemas say of an object: its required properties are
\* there, its fields satisfy their schemas, and it satisfies what it is all of.
LEMMA SourceLevel ==
  ASSUME TypeOK, Grounded(op.doc.source), NEW n \in Node, NEW v \in Values, v.kind = "object",
         Accepts(op.doc.source, {}, n, v)
  PROVE  /\ op.schemas[n].required \subseteq DOMAIN v.fields
         /\ \A p \in DOMAIN op.schemas[n].sub["props"] : p \in DOMAIN v.fields =>
              Accepts(op.doc.source, {}, op.schemas[n].sub["props"][p], v.fields[p])
         /\ \A x \in DOMAIN op.schemas[n].sub["allOf"] :
              Accepts(op.doc.source, {}, op.schemas[n].sub["allOf"][x], v)
<1> DEFINE s == op.doc.source
           yes == Meaning(s, {})
<1>1. Written(s, op.schemas, op.tool)
  BY OperationWritten
<1>2. LinksIn(s)
  BY <1>1, WrittenLinks
<1>3. Level(s, {}, yes, n, v)
  BY <1>2, AcceptsLevel
<1>4. Prepared(s[n], op.schemas[n])
  BY <1>1 DEF Written
<1> HIDE DEF s, yes
<1>5. Keywords(s[n], v) /\ FieldsOk(s, {}, yes, n, v) /\ CombinedOk(s, {}, yes, n, v)
  BY <1>3, LevelParts, Zenon
<1>6. op.schemas[n].required \subseteq DOMAIN v.fields
  <2>1. s[n].required \subseteq DOMAIN v.fields
    BY <1>5 DEF Keywords
  <2>2. op.schemas[n].required = s[n].required
    BY <1>4 DEF Prepared
  <2> QED BY <2>1, <2>2
<1>7. ASSUME NEW p \in DOMAIN op.schemas[n].sub["props"], p \in DOMAIN v.fields
      PROVE  yes[<<op.schemas[n].sub["props"][p], v.fields[p]>>]
  <2>1. p \in DOMAIN s[n].sub["props"] /\ op.schemas[n].sub["props"][p] = s[n].sub["props"][p]
    BY <1>4 DEF Prepared
  <2>2. Ok(s, {}, yes, n, "props", p, v.fields[p])
    BY <1>5, <1>7, <2>1, Zenon DEF FieldsOk
  <2> QED BY <2>1, <2>2 DEF Ok
<1>8. ASSUME NEW x \in DOMAIN op.schemas[n].sub["allOf"]
      PROVE  yes[<<op.schemas[n].sub["allOf"][x], v>>]
  <2>1. op.schemas[n].sub["allOf"] = s[n].sub["allOf"]
    BY <1>4 DEF Prepared, Kinds
  <2>2. Ok(s, {}, yes, n, "allOf", x, v)
    BY <1>5, <1>8, <2>1, Zenon DEF CombinedOk, AllOk
  <2> QED BY <2>1, <2>2 DEF Ok
<1> QED BY <1>6, <1>7, <1>8, Zenon DEF Accepts, s, yes

\* An object that satisfies a schema has what the schemas it is all of require.
LEMMA AllOfRequired ==
  ASSUME TypeOK, Grounded(op.doc.source), NEW n \in Node, NEW v \in Values, v.kind = "object",
         Accepts(op.doc.source, {}, n, v)
  PROVE  \A m \in Reach(op.schemas, {"allOf"}, {n}) : op.schemas[m].required \subseteq DOMAIN v.fields
<1> DEFINE C == {m \in Node : Accepts(op.doc.source, {}, m, v)}
<1>1. \A m \in C : /\ op.schemas[m].required \subseteq DOMAIN v.fields
                   /\ \A x \in DOMAIN op.schemas[m].sub["allOf"] :
                        Accepts(op.doc.source, {}, op.schemas[m].sub["allOf"][x], v)
  BY SourceLevel, Zenon
<1>2. \A m \in Node : \A x \in DOMAIN op.schemas[m].sub["allOf"] :
        op.schemas[m].sub["allOf"][x] \in Node
  <2>1. "allOf" \in Kinds
    BY DEF Kinds
  <2> QED BY <2>1, OperationIs, Zenon
<1>3. \A m \in C : \A x \in DOMAIN op.schemas[m].sub["allOf"] : op.schemas[m].sub["allOf"][x] \in C
  BY <1>1, <1>2, Zenon
<1>4. {n} \in SUBSET Node /\ {n} \subseteq C /\ C \in SUBSET Node
  OBVIOUS
<1> HIDE DEF C
<1>5. Closed(op.schemas, {"allOf"}, C)
  BY <1>3 DEF Closed
<1>6. Reach(op.schemas, {"allOf"}, {n}) \subseteq C
  BY <1>4, <1>5, ReachIsLeast
<1> QED BY <1>1, <1>6

\* What is called for is there to be called.
LEMMA ArgsThere ==
  ASSUME TypeOK, Unmixed
  PROVE  /\ \A i \in DOMAIN op.doc.params :
              Arg(i, op.doc.params[i].name, op.doc.params[i].required, i) \in op.args
         /\ op.upload = "none" /\ op.doc.content # <<>> =>
              Arg(NextPlace, Body, op.doc.bodyRequired, NextPlace) \in op.args
         /\ op.upload = "file" => Arg(NextPlace, File, TRUE, ByReference) \in op.args
<1>1. op.args = Args(op.doc, op.upload, op.form) /\ op.upload \in {"none", "file", "form"}
  BY OperationIs
<1>2. ASSUME NEW i \in DOMAIN op.doc.params
      PROVE  LET a == Arg(i, op.doc.params[i].name, op.doc.params[i].required, i)
             IN  a \in ParamArgs(op.doc) /\ a \in WithoutBody(op.doc)
  <2> DEFINE a == Arg(i, op.doc.params[i].name, op.doc.params[i].required, i)
  <2>1. a \in ParamArgs(op.doc)
    BY DEF ParamArgs
  <2>2. a.name = op.doc.params[i].name
    <3> HIDE DEF a
    <3>1. a = Arg(i, op.doc.params[i].name, op.doc.params[i].required, i)
      BY DEF a
    <3>2. IsArg(a, i, op.doc.params[i].name, op.doc.params[i].required, i)
      BY <3>1, ArgFields, Zenon
    <3> QED BY <3>2, Zenon DEF IsArg
  <2>3. op.doc.params[i].name # Body
    BY DEF Unmixed
  <2> HIDE DEF a
  <2>4. a \in WithoutBody(op.doc)
    BY <2>1, <2>2, <2>3 DEF WithoutBody
  <2> QED BY <2>1, <2>4 DEF a
<1>3. /\ ParamArgs(op.doc) \subseteq op.args \/ WithoutBody(op.doc) \subseteq op.args
      /\ op.upload = "none" /\ op.doc.content # <<>> =>
           Arg(NextPlace, Body, op.doc.bodyRequired, NextPlace) \in op.args
      /\ op.upload = "file" => Arg(NextPlace, File, TRUE, ByReference) \in op.args
  <2>1. CASE op.upload = "none"
    BY <1>1, <2>1 DEF Args, NextPlace
  <2>2. CASE op.upload = "file"
    BY <1>1, <2>2 DEF Args, NextPlace
  <2>3. CASE op.upload = "form"
    BY <1>1, <2>3 DEF Args
  <2> QED BY <1>1, <2>1, <2>2, <2>3
<1> QED BY <1>2, <1>3

\* What the API accepts of a parameter, its argument accepts.
LEMMA ParamAccepted ==
  ASSUME TypeOK, Safe, NEW i \in DOMAIN op.doc.params, NEW v \in Values,
         Accepts(op.doc.source, {}, op.doc.params[i].root, v)
  PROVE  ArgAccepts(op.doc.params[i].name, v)
<1>1. PICK a \in op.args : a.name = op.doc.params[i].name /\ a.made = i
  <2>1. Arg(i, op.doc.params[i].name, op.doc.params[i].required, i) \in op.args
    BY ArgsThere DEF Safe
  <2>2. PICK a \in op.args :
          a = Arg(i, op.doc.params[i].name, op.doc.params[i].required, i)
    BY <2>1, Zenon
  <2>3. IsArg(a, i, op.doc.params[i].name, op.doc.params[i].required, i)
    BY <2>2, ArgFields, Zenon
  <2> QED BY <2>3, Zenon DEF IsArg
<1>2. i # ByReference
  BY ArgNumbers DEF ByReference
<1>3. i \in DOMAIN op.walks /\ op.walks[i] = Asked({Root(1, op.doc.params[i].root)})
  BY WalksAt
<1>4. MadeAccepts(i, v)
  BY <1>3, MadeOf, Zenon
<1>5. Unmixed
  BY DEF Safe
<1> QED BY <1>1, <1>2, <1>4, <1>5, ArgIs, Zenon

\* With one content type the body's walk is of its schema.
LEMMA OneContent ==
  ASSUME TypeOK, Unmixed, NEW i \in DOMAIN op.doc.content
  PROVE  /\ op.doc.content # <<>>
         /\ \A j \in DOMAIN op.doc.content : j = i
         /\ BodyWalk(op.doc) = Asked({Root(i, op.doc.content[i].root)})
<1>1. op.doc.content \in Seq([media : STRING, root : Node]) /\ Len(op.doc.content) <= 1
  BY OperationIs DEF IsDocument, Unmixed
<1>2. \A j \in DOMAIN op.doc.content : j = i
  BY <1>1
<1>3. op.doc.content # <<>>
  BY <1>1
<1>4. {Root(j, op.doc.content[j].root) : j \in DOMAIN op.doc.content} = {Root(i, op.doc.content[i].root)}
  BY <1>2, Zenon
<1> QED BY <1>2, <1>3, <1>4 DEF BodyWalk

\* What the API accepts of a body that is sent as it is, its argument accepts.
LEMMA BodyAccepted ==
  ASSUME TypeOK, Safe, op.upload = "none", NEW i \in DOMAIN op.doc.content, NEW v \in Values,
         Accepts(op.doc.source, {}, op.doc.content[i].root, v)
  PROVE  ArgAccepts(Body, v)
<1>1. Unmixed
  BY DEF Safe
<1>2. PICK a \in op.args : a.name = Body /\ a.made = NextPlace
  <2>1. Arg(NextPlace, Body, op.doc.bodyRequired, NextPlace) \in op.args
    BY <1>1, OneContent, ArgsThere
  <2>2. PICK a \in op.args : a = Arg(NextPlace, Body, op.doc.bodyRequired, NextPlace)
    BY <2>1, Zenon
  <2>3. IsArg(a, NextPlace, Body, op.doc.bodyRequired, NextPlace)
    BY <2>2, ArgFields, Zenon
  <2> QED BY <2>3, Zenon DEF IsArg
<1>3. NextPlace # ByReference
  BY ArgNumbers DEF ByReference, NextPlace
<1>4. NextPlace \in DOMAIN op.walks /\ op.walks[NextPlace] = BodyWalk(op.doc)
  BY WalksAt DEF NextPlace
<1>5. op.walks[NextPlace] = Asked({Root(i, op.doc.content[i].root)})
  BY <1>1, <1>4, OneContent
<1>6. MadeAccepts(NextPlace, v)
  BY <1>4, <1>5, MadeOf, Zenon
<1> QED BY <1>1, <1>2, <1>3, <1>6, ArgIs, Zenon

\* A file's argument takes one file, by its URI, and nothing else.
LEMMA UriAccepted ==
  ASSUME TypeOK, Unmixed, NEW a \in op.args, a.made = ByReference, NEW v
  PROVE  ArgAccepts(a.name, ByUri(v)) <=> v.kind = "string"
<1>1. AURI.kind = "string"
  BY DEF AURI
<1>2. ByUri(v).kind = "string" <=> v.kind = "string"
  BY <1>1 DEF ByUri
<1>3. ArgAccepts(a.name, ByUri(v)) <=> ByUri(v).kind = "string"
  BY ArgIs, Zenon
<1> QED BY <1>2, <1>3, Zenon

\* The arguments of a body, by the kind of upload.
LEMMA BodyCallIs ==
  ASSUME NEW v
  PROVE  /\ op.upload = "none" => BodyCall(v) = [p \in {Body} |-> v]
         /\ op.upload = "file" => BodyCall(v) = [p \in {File} |-> ByUri(v)]
         /\ op.upload = "form" =>
              BodyCall(v) =
                [p \in DOMAIN v.fields |-> IF p \in FileNames THEN ByUri(v.fields[p]) ELSE v.fields[p]]
BY DEF BodyCall

\* What the API accepts of a field of a form, its argument accepts: the part of
\* the form it comes from is one that the form satisfies.
LEMMA PlainAccepted ==
  ASSUME TypeOK, Safe, op.upload = "form", NEW v \in Values, FitsForm(v),
         NEW i \in DOMAIN op.form.plain, op.form.plain[i] \in DOMAIN v.fields,
         NEW a \in op.args, a.name = op.form.plain[i], a.made # ByReference,
         a.made = Len(op.doc.params) + 1 + Len(op.doc.responses) + i
  PROVE  ArgAccepts(op.form.plain[i], v.fields[op.form.plain[i]])
<1> DEFINE p == op.form.plain[i]
           w == Len(op.doc.params) + 1 + Len(op.doc.responses) + i
<1>1. Unmixed /\ Grounded(op.doc.source)
  BY DEF Safe
<1>2. IsForm(op.schemas, op.doc, op.form)
  BY OperationIs
<1>3. PICK n \in FormParts :
        /\ p \in DOMAIN op.schemas[n].sub["props"]
        /\ op.form.fields[p] = op.schemas[n].sub["props"][p]
  BY <1>2 DEF IsForm, FormParts
<1>4. n \in Node
  BY <1>3 DEF FormParts, Reach
<1>5. v.kind = "object" /\ Accepts(op.doc.source, {}, n, v)
  BY <1>3 DEF FitsForm, Fields
<1>6. Accepts(op.doc.source, {}, op.form.fields[p], v.fields[p])
  BY <1>1, <1>3, <1>4, <1>5, SourceLevel
<1>7. v.fields[p] \in Values
  BY <1>5, ToolSchemaAssumption DEF IsValue
<1>8. w \in DOMAIN op.walks /\ op.walks[w] = Asked({Root(1, op.form.fields[p])})
  BY WalksAt
<1> HIDE DEF p, w
<1>9. MadeAccepts(w, v.fields[p])
  BY <1>6, <1>7, <1>8, MadeOf, Zenon
<1>10. a.made = w /\ a.name = p
  BY DEF p, w
<1>11. ArgAccepts(p, v.fields[p])
  BY <1>1, <1>9, <1>10, ArgIs, Zenon
<1> QED BY <1>11 DEF p

\* Every field of a form is accepted, by its URI, as a value or for want of an
\* argument, except those that should hold a file and hold something else.
LEMMA FieldAccepted ==
  ASSUME TypeOK, Safe, op.upload = "form", NEW v \in Values, FitsForm(v), NEW p \in DOMAIN v.fields
  PROVE  ArgAccepts(p, IF p \in FileNames THEN ByUri(v.fields[p]) ELSE v.fields[p])
           <=> (p \in FileNames => v.fields[p].kind = "string")
<1>1. Unmixed
  BY DEF Safe
<1>2. CASE \A a \in op.args : a.name # p
  BY <1>2 DEF ArgAccepts, FileNames
<1>3. CASE \E a \in op.args : a.name = p
  <2>1. PICK a \in op.args : a.name = p
    BY <1>3
  <2>2. ~IsParamArg(a)
    <3>1. \A i \in DOMAIN op.doc.params : op.doc.params[i].name # p
      BY DEF FitsForm
    <3> QED BY <2>1, <3>1, Zenon DEF IsParamArg, IsArg
  <2>3. ~IsBodyArg(a) /\ ~IsFileArg(a)
    BY DEF IsBodyArg, IsFileArg
  <2>4. CASE a.made = ByReference
    <3>1. p \in FileNames
      BY <2>1, <2>4 DEF FileNames
    <3>2. ArgAccepts(p, ByUri(v.fields[p])) <=> v.fields[p].kind = "string"
      BY <1>1, <2>1, <2>4, UriAccepted
    <3> QED BY <3>1, <3>2, Zenon
  <2>5. CASE a.made # ByReference
    <3>1. ~IsFilesArg(a)
      BY <2>5, Zenon DEF IsFilesArg, IsArg
    <3>2. IsPlainArg(a)
      BY <2>2, <2>3, <3>1, ArgCases
    <3>3. PICK i \in DOMAIN op.form.plain :
            IsArg(a, Len(op.doc.params) + i, op.form.plain[i], op.form.plain[i] \in op.form.needed,
                  Len(op.doc.params) + 1 + Len(op.doc.responses) + i)
      BY <3>2, Zenon DEF IsPlainArg
    <3>4. /\ a.name = op.form.plain[i]
          /\ a.made = Len(op.doc.params) + 1 + Len(op.doc.responses) + i
      BY <3>3, Zenon DEF IsArg
    <3>5. p = op.form.plain[i] /\ op.form.plain[i] \in DOMAIN v.fields
      BY <2>1, <3>4
    <3>6. ArgAccepts(op.form.plain[i], v.fields[op.form.plain[i]])
      BY <2>5, <3>4, <3>5, PlainAccepted, Zenon
    <3>7. p \notin FileNames
      BY <1>1, <2>1, <2>5 DEF FileNames, Unmixed
    <3> QED BY <3>5, <3>6, <3>7
  <2> QED BY <2>4, <2>5
<1> QED BY <1>2, <1>3

\* An element of a sequence over S is in S.
LEMMA ElementIn ==
  ASSUME NEW S, NEW s \in Seq(S), NEW i \in DOMAIN s
  PROVE  s[i] \in S
OBVIOUS

\* A call that carries a body the API accepts has every argument that is required.
LEMMA FieldNeeded ==
  ASSUME TypeOK, Safe, op.upload = "form", NEW v \in Values, v.kind = "object",
         NEW j \in DOMAIN op.doc.content, Accepts(op.doc.source, {}, op.doc.content[j].root, v)
  PROVE  op.form.needed \subseteq DOMAIN v.fields
<1>1. Unmixed /\ Grounded(op.doc.source)
  BY DEF Safe
<1>2. IsForm(op.schemas, op.doc, op.form)
  BY OperationIs
<1>3. PICK i \in DOMAIN op.doc.content : op.doc.content[i].root = op.form.root
  BY <1>2 DEF IsForm
<1>4. j = i
  BY <1>1, OneContent
<1>5. Accepts(op.doc.source, {}, op.form.root, v)
  BY <1>3, <1>4
<1>6. op.form.root \in Node
  <2>1. op.doc.content \in Seq([media : STRING, root : Node])
    BY OperationIs DEF IsDocument
  <2>2. op.doc.content[i] \in [media : STRING, root : Node]
    BY <2>1, ElementIn, Zenon
  <2> QED BY <1>3, <2>2
<1>7. \A m \in Reach(op.schemas, {"allOf"}, {op.form.root}) : op.schemas[m].required \subseteq DOMAIN v.fields
  BY <1>1, <1>5, <1>6, AllOfRequired
<1>8. \A p \in op.form.needed :
        \E m \in Reach(op.schemas, {"allOf"}, {op.form.root}) : p \in op.schemas[m].required
  BY <1>2, Zenon DEF IsForm
<1> QED BY <1>7, <1>8

\* A parameter's argument that is required is a parameter that is.
LEMMA NeededParam ==
  ASSUME NEW a, IsParamArg(a), a.required
  PROVE  a.name \in NeededByParams
<1>1. PICK i \in DOMAIN op.doc.params :
        IsArg(a, i, op.doc.params[i].name, op.doc.params[i].required, i)
  BY Zenon DEF IsParamArg
<1>2. a.name = op.doc.params[i].name /\ op.doc.params[i].required
  BY <1>1, Zenon DEF IsArg
<1> QED BY <1>2, Zenon DEF NeededByParams

\* A call that carries a body the API accepts is accepted, if it asks for single
\* files...
LEMMA CallAccepted ==
  ASSUME TypeOK, Safe, NEW v \in Bodies
  PROVE  (\A p \in DOMAIN BodyCall(v) : ArgAccepts(p, BodyCall(v)[p])) <=> SingleFiles(v)
<1>1. Unmixed /\ op.upload \in {"none", "file", "form"}
  BY OperationIs DEF Safe
<1>2. v \in Values /\ (op.upload = "form" => FitsForm(v))
  BY DEF Bodies
<1>3. CASE op.upload = "none"
  <2>1. PICK i \in DOMAIN op.doc.content : Accepts(op.doc.source, {}, op.doc.content[i].root, v)
    BY DEF Bodies
  <2>2. ArgAccepts(Body, v)
    BY <1>2, <1>3, <2>1, BodyAccepted
  <2>3. BodyCall(v) = [p \in {Body} |-> v]
    BY <1>3, BodyCallIs
  <2>4. SingleFiles(v)
    BY <1>3 DEF SingleFiles
  <2> QED BY <2>2, <2>3, <2>4
<1>4. CASE op.upload = "file"
  <2>1. PICK a \in op.args : a = Arg(NextPlace, File, TRUE, ByReference)
    BY <1>1, <1>4, ArgsThere, Zenon
  <2>2. IsArg(a, NextPlace, File, TRUE, ByReference)
    BY <2>1, ArgFields, Zenon
  <2>3. a.name = File /\ a.made = ByReference
    BY <2>2, Zenon DEF IsArg
  <2>4. ArgAccepts(File, ByUri(v)) <=> v.kind = "string"
    BY <1>1, <2>3, UriAccepted, Zenon
  <2>5. BodyCall(v) = [p \in {File} |-> ByUri(v)]
    BY <1>4, BodyCallIs
  <2>6. (\A p \in DOMAIN BodyCall(v) : ArgAccepts(p, BodyCall(v)[p])) <=> ArgAccepts(File, ByUri(v))
    BY <2>5
  <2>7. SingleFiles(v) <=> v.kind = "string"
    BY <1>4 DEF SingleFiles
  <2> QED BY <2>4, <2>6, <2>7, Zenon
<1>5. CASE op.upload = "form"
  <2>1. \A p \in DOMAIN v.fields :
          ArgAccepts(p, IF p \in FileNames THEN ByUri(v.fields[p]) ELSE v.fields[p])
            <=> (p \in FileNames => v.fields[p].kind = "string")
    BY <1>2, <1>5, FieldAccepted
  <2>2. BodyCall(v) =
          [p \in DOMAIN v.fields |-> IF p \in FileNames THEN ByUri(v.fields[p]) ELSE v.fields[p]]
    BY <1>5, BodyCallIs
  <2>3. SingleFiles(v) <=> \A p \in DOMAIN v.fields : p \in FileNames => v.fields[p].kind = "string"
    BY <1>5 DEF SingleFiles
  <2>4. DOMAIN BodyCall(v) = DOMAIN v.fields
    BY <2>2
  <2>5. \A p \in DOMAIN v.fields :
          BodyCall(v)[p] = IF p \in FileNames THEN ByUri(v.fields[p]) ELSE v.fields[p]
    BY <2>2
  <2>6. \A p \in DOMAIN v.fields :
          ArgAccepts(p, BodyCall(v)[p]) <=> (p \in FileNames => v.fields[p].kind = "string")
    BY <2>1, <2>5
  <2> QED BY <2>3, <2>4, <2>6, Zenon
<1> QED BY <1>1, <1>3, <1>4, <1>5

\* ...and complete.
LEMMA CallComplete ==
  ASSUME TypeOK, Safe, NEW v \in Bodies, NEW a \in op.args, a.required
  PROVE  a.name \in DOMAIN BodyCall(v) \cup NeededByParams
<1>1. CASE IsParamArg(a)
  BY <1>1, NeededParam
<1>2. CASE IsBodyArg(a)
  <2>1. op.upload = "none" /\ a.name = Body
    BY <1>2, Zenon DEF IsBodyArg, IsArg
  <2> QED BY <2>1, BodyCallIs
<1>3. CASE IsFileArg(a)
  <2>1. op.upload = "file" /\ a.name = File
    BY <1>3, Zenon DEF IsFileArg, IsArg
  <2> QED BY <2>1, BodyCallIs
<1>4. CASE IsPlainArg(a) \/ IsFilesArg(a)
  <2>1. op.upload = "form"
    BY <1>4 DEF IsPlainArg, IsFilesArg
  <2>2. a.name \in op.form.needed
    <3>1. CASE IsPlainArg(a)
      <4>1. PICK i \in DOMAIN op.form.plain :
              IsArg(a, Len(op.doc.params) + i, op.form.plain[i],
                    op.form.plain[i] \in op.form.needed,
                    Len(op.doc.params) + 1 + Len(op.doc.responses) + i)
        BY <3>1, Zenon DEF IsPlainArg
      <4> QED BY <4>1, Zenon DEF IsArg
    <3>2. CASE IsFilesArg(a)
      <4>1. PICK i \in DOMAIN op.form.files :
              IsArg(a, Len(op.doc.params) + Len(op.form.plain) + i, op.form.files[i],
                    op.form.files[i] \in op.form.needed, ByReference)
        BY <3>2, Zenon DEF IsFilesArg
      <4> QED BY <4>1, Zenon DEF IsArg
    <3> QED BY <1>4, <3>1, <3>2
  <2>3. v \in Values /\ FitsForm(v) /\ v.kind = "object"
    BY <2>1 DEF Bodies, FitsForm
  <2>4. PICK j \in DOMAIN op.doc.content : Accepts(op.doc.source, {}, op.doc.content[j].root, v)
    BY DEF Bodies
  <2>5. op.form.needed \subseteq DOMAIN v.fields
    BY <2>1, <2>3, <2>4, FieldNeeded
  <2>6. DOMAIN BodyCall(v) = DOMAIN v.fields
    BY <2>1, BodyCallIs
  <2> QED BY <2>2, <2>5, <2>6
<1> QED BY <1>1, <1>2, <1>3, <1>4, ArgCases

\* Without a body only what the parameters need is required.
LEMMA NoBodyComplete ==
  ASSUME TypeOK, Safe, ~op.doc.bodyRequired, NEW a \in op.args, a.required
  PROVE  a.name \in NeededByParams
<1>1. op.upload = "none"
  <2>1. Unmixed
    BY DEF Safe
  <2> QED BY <2>1 DEF Unmixed
<1>2. ~IsFileArg(a) /\ ~IsPlainArg(a) /\ ~IsFilesArg(a)
  BY <1>1 DEF IsFileArg, IsPlainArg, IsFilesArg
<1>3. ~IsBodyArg(a)
  BY Zenon DEF IsBodyArg, IsArg
<1>4. IsParamArg(a)
  BY <1>2, <1>3, ArgCases
<1> QED BY <1>4, NeededParam

\* For every document, request and value: what the API accepts can be called,
\* unless it has something else than one file where the tool asks for a file, and
\* no argument is asked for that the request need not have.
THEOREM RequestsCanBeMade == Spec => []RequestsAccepted
<1>1. TypeOK => RequestsAccepted
  <2> SUFFICES ASSUME TypeOK, Done, Grounded(op.doc.source), Unmixed,
                      \A w \in DOMAIN results : Asks(w) => OnlyPermissive(w)
               PROVE  /\ \A i \in DOMAIN op.doc.params : \A v \in Values :
                           Accepts(op.doc.source, {}, op.doc.params[i].root, v) =>
                             ArgAccepts(op.doc.params[i].name, v)
                      /\ \A v \in Bodies :
                           /\ (\A p \in DOMAIN BodyCall(v) : ArgAccepts(p, BodyCall(v)[p]))
                                <=> SingleFiles(v)
                           /\ Required \subseteq DOMAIN BodyCall(v) \cup NeededByParams
                      /\ ~op.doc.bodyRequired => Required \subseteq NeededByParams
    BY Zenon DEF RequestsAccepted
  <2>1. Safe
    <3>1. DOMAIN results = DOMAIN op.walks
      BY ResultsOfWalks
    <3> QED BY <3>1, Zenon DEF Safe
  <2>2. \A p \in Required : \E a \in op.args : a.required /\ a.name = p
    BY DEF Required
  <2>3. ASSUME NEW v \in Bodies PROVE Required \subseteq DOMAIN BodyCall(v) \cup NeededByParams
    <3>1. \A a \in op.args : a.required => a.name \in DOMAIN BodyCall(v) \cup NeededByParams
      BY <2>1, CallComplete
    <3> QED BY <2>2, <3>1
  <2>4. ~op.doc.bodyRequired => Required \subseteq NeededByParams
    <3>1. ~op.doc.bodyRequired => \A a \in op.args : a.required => a.name \in NeededByParams
      BY <2>1, NoBodyComplete
    <3> QED BY <2>2, <3>1
  <2> QED BY <2>1, <2>3, <2>4, ParamAccepted, CallAccepted, Zenon
<1> QED BY <1>1, TypeCorrect, PTL
=============================================================================
