----------------------------- MODULE ToolSchema -----------------------------
(***************************************************************************)
(* From an operation of an OpenAPI document to the arguments of its tool   *)
(* and their JSON schema (converter/): the document is normalised from 3.1 *)
(* to 3.0 (oas31_preprocess.go), its schemas are walked (SchemaWalk), and  *)
(* what the walks found is written as JSON Schema Draft 7                  *)
(* (schemaConversion*.go), after the fields of an upload have taken the    *)
(* place of its body (requestHandlers.go).                                 *)
(*                                                                         *)
(* A schema is a record of its keywords.  The same record serves for 3.1,  *)
(* 3.0 and Draft 7, which differ in which keywords they use; Accepts says  *)
(* which values a schema allows, and is what the conversion is judged by.  *)
(***************************************************************************)
EXTENDS SchemaWalk

CONSTANTS
  Reserved,  \* property names that are keywords of 3.1 only, such as `const`
  Values,    \* JSON values to tell schemas apart with
  Depth      \* how deep each of them nests

(***************************************************************************)
(* JSON values and what a schema says of them.                             *)
(***************************************************************************)
Null == [kind |-> "null"]

Size(v) ==
  CASE v.kind \in {"string", "number"} -> v.num
    [] v.kind = "array" -> Len(v.elems)
    [] v.kind = "object" -> Cardinality(DOMAIN v.fields)
    [] OTHER -> 0

\* least and most bound a number, the length of a string or array and the
\* number of properties; openMin and openMax are 3.0's Boolean exclusive bounds,
\* above and below the numeric ones of 3.1 and Draft 7.
Within(s, v) ==
  /\ v.kind \in DOMAIN s.least => s.least[v.kind] <= Size(v)
  /\ v.kind \in DOMAIN s.most => Size(v) <= s.most[v.kind]
  /\ v.kind = "number" =>
       /\ s.openMin /\ "number" \in DOMAIN s.least => s.least["number"] # v.num
       /\ s.openMax /\ "number" \in DOMAIN s.most => s.most["number"] # v.num
       /\ \A x \in s.above : v.num > x
       /\ \A x \in s.below : v.num < x

\* What a schema says without looking behind its links.
Keywords(s, v) ==
  /\ s.types = <<>> \/ HasType(s, v.kind) \/ (s.nullable /\ v = Null)
  /\ s.enum = {} \/ v \in s.enum
  /\ s.const \subseteq {v}
  /\ Within(s, v)
  /\ v.kind = "object" => s.required \subseteq DOMAIN v.fields

LinkAt(schemas, n, k, x) == [from |-> n, kind |-> k, key |-> x, to |-> schemas[n].sub[k][x]]

\* What a schema says, if yes is what the schemas behind its links say.  A link
\* in gone reads as the empty schema, which allows everything.
Level(schemas, gone, yes, n, v) ==
  LET s == schemas[n]
      Ok(k, x, w) == LinkAt(schemas, n, k, x) \in gone \/ yes[<<s.sub[k][x], w>>]
      All(k, w) == \A x \in DOMAIN s.sub[k] : Ok(k, x, w)
      Some(k) == {x \in DOMAIN s.sub[k] : Ok(k, x, v)}
  IN  /\ Keywords(s, v)
      /\ v.kind = "array" =>
           \A i \in DOMAIN v.elems :
             IF i \in DOMAIN s.sub["prefix"] THEN Ok("prefix", i, v.elems[i])
                                             ELSE All("items", v.elems[i])
      /\ v.kind = "object" =>
           \A p \in DOMAIN v.fields :
             IF p \in DOMAIN s.sub["props"] THEN Ok("props", p, v.fields[p])
                                            ELSE ~s.closed /\ All("extra", v.fields[p])
      /\ All("allOf", v)
      /\ DOMAIN s.sub["anyOf"] # {} => Some("anyOf") # {}
      /\ DOMAIN s.sub["oneOf"] # {} => Cardinality(Some("oneOf")) = 1
      /\ Some("not") = {}

Meaning(schemas, gone) ==
  LET yes[p \in Node \X Values] == Level(schemas, gone, yes, p[1], p[2])
  IN  yes

Accepts(schemas, gone, n, v) == Meaning(schemas, gone)[<<n, v>>]

(***************************************************************************)
(* 3.1 to 3.0.                                                             *)
(***************************************************************************)

\* exclusiveMinimum: x becomes minimum: x unless there is a minimum already...
OldBound(bound, given) ==
  IF given = {} THEN bound
  ELSE [k \in DOMAIN bound \cup {"number"} |->
          IF k \in DOMAIN bound THEN bound[k] ELSE CHOOSE x \in given : TRUE]

\* ...and the minimum, whichever it is, becomes exclusive.
ConvertExclusiveMinMax(s) ==
  [s EXCEPT !.least = OldBound(@, s.above), !.openMin = @ \/ s.above # {}, !.above = {},
            !.most  = OldBound(@, s.below), !.openMax = @ \/ s.below # {}, !.below = {}]

ListsNull(s) == Len(s.types) > 1 /\ HasType(s, "null")

NonNull(s) == {i \in DOMAIN s.types : s.types[i] # "null"}

\* Of several types and null the first type stays.
ConvertArrayTypeNull(s) ==
  IF ~ListsNull(s) THEN s
  ELSE [s EXCEPT !.nullable = TRUE,
                 !.types = IF NonNull(s) = {} THEN @
                           ELSE <<@[CHOOSE i \in NonNull(s) : \A j \in NonNull(s) : i <= j]>>]

\* The first item's schema becomes that of all.
ConvertPrefixItems(s) ==
  IF DOMAIN s.sub["prefix"] = {} THEN s
  ELSE [s EXCEPT !.sub["items"] = <<s.sub["prefix"][1]>>, !.sub["prefix"] = <<>>]

\* The map of properties is taken for a schema: properties with the name of a
\* keyword go like the keyword.
RemoveKeywords(s) ==
  [s EXCEPT !.const = {}, !.sub["props"] = [p \in DOMAIN @ \ Reserved |-> @[p]]]

Normalized(s) ==
  RemoveKeywords(ConvertPrefixItems(ConvertArrayTypeNull(ConvertExclusiveMinMax(s))))

Is31(d) == d.version = "3.1"

Schemas(d) == [n \in Node |-> IF Is31(d) THEN Normalized(d.source[n]) ELSE d.source[n]]

(***************************************************************************)
(* What is written of a schema that was expanded.                          *)
(***************************************************************************)

\* Mutant: the numeric bounds stay inclusive.
OpenAt(flag, bound) == {}

\* An exclusive bound is the bound itself in Draft 7, and says nothing alone.
Exclusive(flag, bound) ==
  IF flag /\ "number" \in DOMAIN bound THEN {bound["number"]} ELSE {}

\* Bounds are written for the types listed.
Inclusive(s, flag, bound) ==
  [k \in {k \in DOMAIN bound : HasType(s, k) /\ ~(k = "number" /\ flag)} |-> bound[k]]

\* Mutant: nullable is left to the type.
TypesOnly(s) == s.types

\* Null joins the types there are, of which there may be none.
TypesWithNull(s) ==
  IF s.nullable /\ ~HasType(s, "null") THEN Append(s.types, "null") ELSE s.types

\* required and additionalProperties: false belong to objects.
ObjectPart(s) ==
  IF HasType(s, "object") THEN s ELSE [s EXCEPT !.required = {}, !.closed = FALSE]

\* Of the schemas below, those the walk has seen.
Below(s) == [k \in DOMAIN s.sub |-> IF k \in Followed(s, "request") THEN s.sub[k] ELSE <<>>]

Draft7(s) ==
  LET number == HasType(s, "number")
  IN  [ObjectPart(s) EXCEPT
         !.types = TypesWithNull(s), !.nullable = FALSE,
         !.least = Inclusive(s, s.openMin, @), !.openMin = FALSE,
         !.above = IF number THEN Exclusive(s.openMin, s.least) ELSE {},
         !.most = Inclusive(s, s.openMax, @), !.openMax = FALSE,
         !.below = IF number THEN Exclusive(s.openMax, s.most) ELSE {},
         !.sub = Below(s)]

(***************************************************************************)
(* The operation.  A document is an operation's parameters and content     *)
(* types, in alphabetical order, and its schemas.  If there is an upload,  *)
(* form is what is known of its fields (Uploads).                          *)
(***************************************************************************)
Body == 0
File == 9

Root(key, n) == [from |-> "operation", kind |-> "root", key |-> key, to |-> n]

Asked(roots) == [use |-> "request", roots |-> roots]

ParamWalks(d) == [i \in 1 .. Len(d.params) |-> Asked({Root(1, d.params[i].root)})]

BodyWalk(d) == Asked({Root(i, d.content[i].root) : i \in DOMAIN d.content})

ResponseWalks(d) ==
  [i \in 1 .. Len(d.responses) |-> [use |-> "response", roots |-> {Root(1, d.responses[i])}]]

FormWalks(form) ==
  [i \in 1 .. Len(form.plain) |-> Asked({Root(1, form.fields[form.plain[i]])})]

Walks(d, form) == ParamWalks(d) \o <<BodyWalk(d)>> \o ResponseWalks(d) \o FormWalks(form)

Arg(at, name, required, made) ==
  [at |-> at, name |-> name, required |-> required, made |-> made]

ByReference == 0  \* a file's argument is a URI; the others are made by a walk

ParamArgs(d) ==
  {Arg(i, d.params[i].name, d.params[i].required, i) : i \in DOMAIN d.params}

\* replaceBodyWithFileRefArgs drops whatever is named body.
WithoutBody(d) == {a \in ParamArgs(d) : a.name # Body}

FormArgs(d, form) ==
  LET params == Len(d.params)
      before == params + 1 + Len(d.responses)
      plain == Len(form.plain)
  IN  {Arg(params + i, form.plain[i], form.plain[i] \in form.needed, before + i) :
         i \in DOMAIN form.plain}
      \cup {Arg(params + plain + i, form.files[i], form.files[i] \in form.needed, ByReference) :
              i \in DOMAIN form.files}

\* The arguments, each with its place among them.
Args(d, upload, form) ==
  LET next == Len(d.params) + 1
  IN  CASE upload = "none" ->
             ParamArgs(d) \cup IF d.content = <<>> THEN {}
                               ELSE {Arg(next, Body, d.bodyRequired, next)}
        [] upload = "file" -> WithoutBody(d) \cup {Arg(next, File, TRUE, ByReference)}
        [] upload = "form" -> WithoutBody(d) \cup FormArgs(d, form)

\* A single schema, or one of several content types' schemas and only one.
MadeAccepts(w, v) ==
  LET roots == op.walks[w].roots
      fit == {e \in roots : e \in results[w] \/ Accepts(op.tool, results[w], e.to, v)}
  IN  Cardinality(fit) = 1

\* GenerateJSONSchemaDraft7: of two arguments with one name the later stays.
ArgAccepts(p, v) ==
  LET named == {a \in op.args : a.name = p}
      arg == CHOOSE a \in named : \A b \in named : b.at <= a.at
  IN  named # {} =>
        IF arg.made = ByReference THEN v.kind = "string" ELSE MadeAccepts(arg.made, v)

Required == {a.name : a \in {b \in op.args : b.required}}

-----------------------------------------------------------------------------
(***************************************************************************)
(* What can be said of the result.                                         *)
(***************************************************************************)

\* What is reached from S behind links of the given kinds.
Closed(schemas, kinds, C) ==
  \A n \in C, k \in kinds : \A x \in DOMAIN schemas[n].sub[k] : schemas[n].sub[k][x] \in C

Reach(schemas, kinds, S) ==
  LET closed == {C \in SUBSET Node : S \subseteq C /\ Closed(schemas, kinds, C)}
  IN  {n \in Node : \A C \in closed : n \in C}

Combinators == {"allOf", "anyOf", "oneOf", "not"}

\* No schema is combined from itself: every set of schemas has one that is not
\* combined from another of them.  What others say is not defined.
Grounded(schemas) ==
  \A S \in SUBSET Node :
    S # {} => \E n \in S : \A k \in Combinators : \A x \in DOMAIN schemas[n].sub[k] :
                schemas[n].sub[k][x] \notin S

(***************************************************************************)
(* What documents are.                                                     *)
(***************************************************************************)

\* A value's parts are values too, and nest less deep.
IsValue(v) ==
  LET Inside(w) == w \in Values /\ Depth[w] < Depth[v]
  IN  /\ v.kind \in {"null", "boolean", "number", "string", "array", "object"}
      /\ v.kind = "null" => v = Null
      /\ v.kind = "number" => v.num \in Int
      /\ v.kind = "array" => \A i \in DOMAIN v.elems : Inside(v.elems[i])
      /\ v.kind = "object" => \A p \in DOMAIN v.fields : Inside(v.fields[p])

KeywordNames ==
  {"types", "nullable", "binary", "enum", "const", "least", "most", "openMin", "openMax",
   "above", "below", "required", "closed", "sub"}

IsBound(b) ==
  /\ DOMAIN b \subseteq {"string", "number", "array", "object"}
  /\ b = [k \in DOMAIN b |-> b[k]]
  /\ \A k \in DOMAIN b : b[k] \in Int

IsSchema(s) ==
  /\ s = [k \in KeywordNames |-> s[k]]
  /\ s.types \in Seq(STRING)
  /\ {s.nullable, s.openMin, s.openMax, s.closed} \subseteq BOOLEAN
  /\ IsBound(s.least) /\ IsBound(s.most)
  /\ \A x, y \in s.above : x \in Int /\ x = y
  /\ \A x, y \in s.below : x \in Int /\ x = y
  /\ s.sub = [k \in Kinds \cup {"prefix"} |-> s.sub[k]]
  /\ \A k \in Kinds \cup {"prefix"} : \A x \in DOMAIN s.sub[k] : s.sub[k][x] \in Node

IsDocument(d) ==
  /\ \A n \in Node : /\ IsSchema(d.source[n])
                     /\ Is31(d) \/ d.source[n].above \cup d.source[n].below = {}
  /\ d.params \in Seq([name : Nat, required : BOOLEAN, root : Node])
  /\ d.content \in Seq([media : STRING, root : Node])
  /\ d.responses \in Seq(Node)

\* The fields of a form come from the schemas it is combined from, and those
\* needed are required by one that no choice leads to.
IsForm(schemas, d, form) ==
  /\ \E i \in DOMAIN d.content : d.content[i].root = form.root
  /\ \A i \in DOMAIN form.plain :
       LET p == form.plain[i]
       IN  \E n \in Reach(schemas, {"allOf", "oneOf", "anyOf"}, {form.root}) :
             p \in DOMAIN schemas[n].sub["props"] /\ form.fields[p] = schemas[n].sub["props"][p]
  /\ \A p \in form.needed :
       \E n \in Reach(schemas, {"allOf"}, {form.root}) : p \in schemas[n].required

ASSUME ToolSchemaAssumption ==
  /\ Depth \in [Values -> Nat]
  /\ \A v \in Values : IsValue(v)
  /\ \A c \in Documents :
       LET o == Operations[c]
       IN  /\ IsDocument(o.doc)
           /\ o.schemas = Schemas(o.doc)
           /\ o.tool = [n \in Node |-> Draft7(o.schemas[n])]
           /\ {o.form.plain, o.form.files} \subseteq Seq(Nat)
           /\ o.walks = Walks(o.doc, o.form)
           /\ o.args = Args(o.doc, o.upload, o.form)
           /\ o.upload \in {"none", "file", "form"}
           /\ o.upload = "form" => IsForm(o.schemas, o.doc, o.form)

\* The schema's keywords survive, or are dropped where that allows more values.
Sound(s) ==
  /\ s.nullable => s.types # <<>>
  /\ ListsNull(s) => \E i \in NonNull(s) : NonNull(s) = {i}
  /\ s.above # {} \/ s.below # {} => "number" \notin DOMAIN s.least \cup DOMAIN s.most
  /\ DOMAIN s.sub["prefix"] = {}
  /\ s.closed \/ DOMAIN s.sub["extra"] # {} => DOMAIN s.sub["props"] \cap Reserved = {}

\* No keyword is dropped at all.
Exact(s) ==
  /\ Sound(s)
  /\ s.const = {}
  /\ DOMAIN s.sub["props"] \cap Reserved = {}
  /\ \A k \in DOMAIN s.least \cup DOMAIN s.most : HasType(s, k)
  /\ s.above # {} \/ s.below # {} => HasType(s, "number")
  /\ \A k \in Kinds : DOMAIN s.sub[k] # {} => k \in Followed(s, "request")
  /\ s.required # {} \/ s.closed => HasType(s, "object")

Asks(w) == op.walks[w].use = "request"

Reached(w) == Reach(op.schemas, Kinds, {e.to : e \in op.walks[w].roots})

\* The schemas of a walk where allowing more values means refusing others:
\* what is below a oneOf or a not.
Judged(w) ==
  Reach(op.schemas, Kinds,
        {m \in Node : \E n \in Reached(w), k \in {"oneOf", "not"} :
           \E x \in DOMAIN op.schemas[n].sub[k] : op.schemas[n].sub[k][x] = m})

\* What is lost in a walk only makes its argument's schema more permissive.
OnlyPermissive(w) ==
  LET judged == Judged(w)
  IN  /\ \A n \in Reached(w) : Sound(op.doc.source[n])
      /\ \A n \in judged : Exact(op.doc.source[n])
      /\ \A e \in results[w] : e.from \notin judged /\ e.kind \notin {"oneOf", "not"}

\* The schemas a form is combined from.
FormParts == Reach(op.schemas, {"allOf", "oneOf", "anyOf"}, {op.form.root})

Fields(n) == DOMAIN op.schemas[n].sub["props"]

\* Arguments that do not get into each other's way.
Unmixed ==
  LET d == op.doc
  IN  /\ \A a, b \in op.args : a.name = b.name => a = b
      /\ \A i \in DOMAIN d.params : d.params[i].name # Body
      /\ Len(d.content) <= 1
      /\ op.upload # "none" => d.bodyRequired

AURI == [kind |-> "string", num |-> 1]

FileNames == {a.name : a \in {b \in op.args : b.made = ByReference}}

\* One file, which is a string of bytes, is uploaded before the call and named by
\* its URI; anything else can only be passed as it is.
ByUri(v) == IF v.kind = "string" THEN AURI ELSE v

\* The arguments that carry a body.
BodyCall(v) ==
  CASE op.upload = "none" -> [p \in {Body} |-> v]
    [] op.upload = "file" -> [p \in {File} |-> ByUri(v)]
    [] op.upload = "form" ->
         [p \in DOMAIN v.fields |-> IF p \in FileNames THEN ByUri(v.fields[p]) ELSE v.fields[p]]

\* Wherever the tool asks for a file the body has one: not an array of files,
\* not null and not what an alternative without a file allows.
SingleFiles(v) ==
  /\ op.upload = "file" => v.kind = "string"
  /\ op.upload = "form" => \A p \in DOMAIN v.fields \cap FileNames : v.fields[p].kind = "string"

\* A form is an object with the fields of alternatives that it satisfies, and
\* none with the name of a parameter.
FitsForm(v) ==
  /\ v.kind = "object"
  /\ \A n \in FormParts :
       Fields(n) \cap DOMAIN v.fields # {} => Accepts(op.doc.source, {}, n, v)
  /\ \A i \in DOMAIN op.doc.params : op.doc.params[i].name \notin DOMAIN v.fields

\* Bodies the API accepts.
Bodies ==
  {v \in Values :
     /\ \E i \in DOMAIN op.doc.content : Accepts(op.doc.source, {}, op.doc.content[i].root, v)
     /\ op.upload = "form" => FitsForm(v)}

NeededByParams ==
  {op.doc.params[i].name : i \in {j \in DOMAIN op.doc.params : op.doc.params[j].required}}

\* A request the API accepts can be made as a call of the tool that the tool's
\* schema accepts, provided that what was lost only makes it more permissive and
\* that the arguments are unmixed: sharing, cycles, dropped keywords and the
\* rewriting of 3.1 schemas then refuse nothing.  The rewriting of uploads, which
\* makes one URI of every field with a file in it (requestHandlers.go:289-300),
\* refuses exactly the bodies that have something else there than one file.
RequestsAccepted ==
  /\ Done /\ Grounded(op.doc.source) /\ Unmixed
  /\ \A w \in DOMAIN results : Asks(w) => OnlyPermissive(w)
  =>
    LET d == op.doc
    IN  /\ \A i \in DOMAIN d.params : \A v \in Values :
             Accepts(d.source, {}, d.params[i].root, v) => ArgAccepts(d.params[i].name, v)
        /\ \A v \in Bodies :
             /\ (\A p \in DOMAIN BodyCall(v) : ArgAccepts(p, BodyCall(v)[p])) <=> SingleFiles(v)
             /\ Required \subseteq DOMAIN BodyCall(v) \cup NeededByParams
        /\ ~d.bodyRequired => Required \subseteq NeededByParams

\* An argument whose schema has lost nothing means what the document says: the
\* same values are accepted, with nullable, exclusive bounds and the keywords of
\* 3.1 in whatever form they were written.
ExactWithoutLoss ==
  Done /\ Grounded(op.doc.source) =>
    \A w \in DOMAIN results :
      Asks(w) /\ results[w] = {} /\ (\A n \in Reached(w) : Exact(op.doc.source[n])) =>
        \A e \in op.walks[w].roots : \A v \in Values :
          Accepts(op.doc.source, {}, e.to, v) <=> Accepts(op.tool, {}, e.to, v)
=============================================================================
