------------------------------ MODULE Uploads ------------------------------
(***************************************************************************)
(* Which operations take an upload, and the fields of its form: the part   *)
(* of the conversion that is recursive (requestHandlers.go).               *)
(***************************************************************************)
EXTENDS ToolSchema, SequencesExt

Listed(f) == [i \in 1 .. Cardinality(DOMAIN f) |-> f[i]]

\* collectObjectProperties: fields of the schema itself and of those it is
\* combined from, each combined schema once.  A later definition of a field
\* replaces an earlier one; `required` counts where no choice leads to it.
RECURSIVE Collect(_, _, _, _)
Collect(schemas, found, n, applies) ==
  LET s == schemas[n]
      own == [met    |-> found.met \cup {n},
              fields |-> s.sub["props"] @@ found.fields,
              needed |-> found.needed \cup
                IF applies /\ DOMAIN s.sub["props"] # {} THEN s.required ELSE {}]
      Each(k, a, f) == FoldLeft(LAMBDA g, m : Collect(schemas, g, m, a), f, Listed(s.sub[k]))
  IN  IF n \in found.met THEN found
      ELSE Each("anyOf", FALSE, Each("oneOf", FALSE, Each("allOf", applies, own)))

Form(schemas, n) == Collect(schemas, [met |-> {}, fields |-> <<>>, needed |-> {}], n, TRUE)

\* isBinaryFileSchema, through combinators and the items of an array.
RECURSIVE IsBinary(_, _, _)
IsBinary(schemas, met, n) ==
  LET s == schemas[n]
  IN  \/ s.binary /\ (s.types = <<>> \/ HasType(s, "string"))
      \/ \E k \in {"allOf", "oneOf", "anyOf"} \cup IF HasType(s, "array") THEN {"items"} ELSE {} :
           \E x \in DOMAIN s.sub[k] :
             s.sub[k][x] \notin met /\ IsBinary(schemas, met \cup {n}, s.sub[k][x])

FilesOf(schemas, n) ==
  LET form == Form(schemas, n)
  IN  {p \in DOMAIN form.fields : IsBinary(schemas, {}, form.fields[p])}

Multipart(d) == {i \in DOMAIN d.content : d.content[i].media = "multipart"}

\* The multipart content with a file among its fields, if there is one.
WithFiles(d, schemas) == {i \in Multipart(d) : FilesOf(schemas, d.content[i].root) # {}}

PlainBinary(d, schemas) ==
  \E i \in Multipart(d) :
    LET s == schemas[d.content[i].root]
    IN  s.types # <<>> /\ ~HasType(s, "object") /\ s.binary

Upload(d, schemas) ==
  IF WithFiles(d, schemas) # {} THEN "form"
  ELSE IF \/ Multipart(d) # {} /\ PlainBinary(d, schemas)
          \/ Multipart(d) = {} /\ \E i \in DOMAIN d.content : d.content[i].media = "binary"
  THEN "file" ELSE "none"

FormRoot(d, schemas) == d.content[Min(WithFiles(d, schemas))].root

\* A field is an argument or a file, in alphabetical order.
FormOf(schemas, n) ==
  LET form == Form(schemas, n)
      files == FilesOf(schemas, n)
  IN  [root |-> n, fields |-> form.fields, needed |-> form.needed,
       plain |-> SetToSortSeq(DOMAIN form.fields \ files, <), files |-> SetToSortSeq(files, <)]

NoForm == [plain |-> <<>>, files |-> <<>>]

\* The document parsed, the walks convertOperation makes of it, the arguments
\* they are for, and what is written of each schema.
Converted(d) ==
  LET schemas == Schemas(d)
      upload == Upload(d, schemas)
      form == IF upload = "form" THEN FormOf(schemas, FormRoot(d, schemas)) ELSE NoForm
  IN  [doc |-> d,
       schemas |-> schemas,
       upload |-> upload,
       form |-> form,
       walks |-> Walks(d, form),
       args |-> Args(d, upload, form),
       tool |-> [n \in Node |-> Draft7(schemas[n])]]
=============================================================================
