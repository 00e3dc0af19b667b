---------------------------- MODULE MCToolSchema ----------------------------
(* Documents of four schemas for TLC: r refers to s and t, s to t and u. *)
EXTENDS Uploads

MCNode == {"r", "s", "t", "u"}

Keyword == 3  \* the place of a property named `const`

MCReserved == {Keyword}

Empty ==
  [types |-> <<>>, nullable |-> FALSE, binary |-> FALSE, enum |-> {}, const |-> {},
   least |-> <<>>, most |-> <<>>, openMin |-> FALSE, openMax |-> FALSE,
   above |-> {}, below |-> {}, required |-> {}, closed |-> FALSE,
   sub |-> [k \in Kinds \cup {"prefix"} |-> <<>>]]

String == [Empty EXCEPT !.types = <<"string">>]
Number == [Empty EXCEPT !.types = <<"number">>]
Object(props) == [Empty EXCEPT !.types = <<"object">>, !.sub["props"] = props]
Of(kind, links) == [Empty EXCEPT !.sub[kind] = links]

Str(k) == [kind |-> "string", num |-> k]
Num(k) == [kind |-> "number", num |-> k]
Arr(s) == [kind |-> "array", elems |-> s]
Obj(f) == [kind |-> "object", fields |-> f]

Scalars == {Null, Str(1), Num(0), Num(1), Num(2)}
Few == {Null, Str(1), Num(1)}
Flat == {Arr(<<>>), Obj(<<>>)} \cup {Arr(<<a>>) : a \in Few} \cup {Arr(<<Num(1), a>>) : a \in Few}
          \cup {Obj(1 :> a) : a \in Few} \cup {Obj(2 :> a) : a \in Few}
          \cup {Obj((1 :> a) @@ (2 :> b)) : a, b \in Few}
          \cup {Obj((1 :> a) @@ (Keyword :> Num(1))) : a \in Few}
Deep == {Arr(<<a>>) : a \in Flat} \cup {Obj(1 :> a) : a \in Flat} \cup {Obj((1 :> a) @@ (2 :> b)) : a \in Flat, b \in {Num(1)}}
MCValues == Scalars \cup Flat \cup Deep
MCDepth == [v \in MCValues |-> IF v \in Scalars THEN 0 ELSE IF v \in Flat THEN 1 ELSE 2]

\* Leaves as 3.0 writes them, and as 3.1 does.
Leaves30 ==
  <<String,
    [String EXCEPT !.nullable = TRUE],
    [String EXCEPT !.enum = {Str(1)}],
    [Number EXCEPT !.least = "number" :> 1, !.openMin = TRUE],
    [Number EXCEPT !.most = "number" :> 1, !.nullable = TRUE],
    [Empty EXCEPT !.nullable = TRUE],
    [Empty EXCEPT !.least = "number" :> 1]>>

Leaves31 ==
  <<[Empty EXCEPT !.types = <<"string", "null">>],
    [Empty EXCEPT !.types = <<"null", "number", "string">>],
    [Number EXCEPT !.above = {0}],
    [Number EXCEPT !.above = {0}, !.least = "number" :> 1],
    [Number EXCEPT !.below = {2}],
    [Empty EXCEPT !.const = {Num(1)}]>>

Middles ==
  <<[Object(1 :> "t") EXCEPT !.required = {1}],
    [Object(1 :> "t") EXCEPT !.closed = TRUE],
    Object((1 :> "s") @@ (2 :> "t")),
    [Object(<<>>) EXCEPT !.sub["extra"] = <<"t">>],
    [Empty EXCEPT !.types = <<"array">>, !.sub["items"] = <<"t">>, !.least = "array" :> 1],
    [Empty EXCEPT !.types = <<"null", "array">>, !.sub["items"] = <<"t">>],
    Of("allOf", <<"t">>),
    Of("anyOf", <<"t", "u">>),
    Of("oneOf", <<"t", "u">>),
    Of("not", <<"t">>)>>

\* With keywords of 3.1.
Middles31 ==
  <<Of("prefix", <<"t", "u">>),
    [Object((1 :> "t") @@ (Keyword :> "u")) EXCEPT !.required = {Keyword}],
    [Object((1 :> "t") @@ (Keyword :> "u")) EXCEPT !.closed = TRUE],
    [Object(Keyword :> "u") EXCEPT !.sub["extra"] = <<"t">>]>>

Roots ==
  <<Object((1 :> "s") @@ (2 :> "s")),
    Object((1 :> "s") @@ (2 :> "t")),
    Of("allOf", <<"s", "t">>),
    Of("oneOf", <<"s", "t">>),
    Of("not", <<"s">>),
    [Object(1 :> "s") EXCEPT !.sub["extra"] = <<"t">>],
    [Empty EXCEPT !.types = <<"array">>, !.sub["items"] = <<"s">>]>>

BinaryString == [String EXCEPT !.binary = TRUE]

\* Forms with a file of their own or in a part, with several files in a field or
\* a file among alternatives, and a file alone.
FormRoots ==
  <<[Object((1 :> "s") @@ (2 :> "t")) EXCEPT !.required = {1}],
    [Object((1 :> "t") @@ (2 :> "u")) EXCEPT !.required = {1, 2}],
    [Object(2 :> "u") EXCEPT !.sub["allOf"] = <<"s">>, !.required = {2}],
    [Of("oneOf", <<"s", "t">>) EXCEPT !.types = <<"object">>, !.required = {2}],
    BinaryString,
    [Of("anyOf", <<"s", "t">>) EXCEPT !.types = <<"object">>]>>

FormMiddles ==
  <<[Object(1 :> "t") EXCEPT !.required = {1}],
    [Object((1 :> "t") @@ (2 :> "u")) EXCEPT !.required = {1}],
    [Empty EXCEPT !.types = <<"array">>, !.sub["items"] = <<"t">>],
    Of("oneOf", <<"t", "u">>)>>

FormLeaves == <<<<BinaryString, Number>>, <<String, Number>>, <<Object(<<>>), BinaryString>>>>

Graph(r, s, t, u) ==
  [n \in MCNode |-> CASE n = "r" -> r [] n = "s" -> s [] n = "t" -> t [] n = "u" -> u]

Content(media, n) == [media |-> media, root |-> n]
Param(name, required, n) == [name |-> name, required |-> required, root |-> n]

Document(version, graph, params, content, required, responses) ==
  [version |-> version, source |-> graph, params |-> params, content |-> content,
   bodyRequired |-> required, responses |-> responses]

\* Two parameters, with names of their own or one in common.
Params == <<<<Param(1, TRUE, "t"), Param(2, FALSE, "s")>>,
            <<Param(1, TRUE, "t"), Param(1, FALSE, "u")>>>>

\* One content type, one schema under two of them, and two schemas.
Contents == <<<<Content("plain", "r")>>,
              <<Content("plain", "r"), Content("plain", "r")>>,
              <<Content("plain", "u"), Content("plain", "t")>>>>

\* Which document: a family and the shapes in it, in every combination.
Shapes(family, is, js, ks, ls) ==
  LET jkl == Len(js) * Len(ks) * Len(ls)
      kl == Len(ks) * Len(ls)
  IN  [m \in 1 .. Len(is) * jkl |->
        <<family, 1 + ((m - 1) \div jkl), 1 + (((m - 1) % jkl) \div kl),
          1 + (((m - 1) % kl) \div Len(ls)), 1 + ((m - 1) % Len(ls))>>]

Ids == Shapes("body30", Roots, Middles, Leaves30, <<1>>)
         \o Shapes("body31", Roots, Middles \o Middles31, Leaves31, <<1>>)
         \o Shapes("mixed", Roots, Middles, Params, Contents)
         \o Shapes("upload", FormRoots, FormMiddles, FormLeaves, <<"multipart", "binary">>)

MCDocuments == DOMAIN Ids

DocumentOf(id) ==
  LET i == id[2] j == id[3] k == id[4] l == id[5]
  IN  CASE id[1] = "body30" ->
             Document("3.0", Graph(Roots[i], Middles[j], Leaves30[k], Number), <<>>,
                      <<Content("plain", "r")>>, TRUE, <<"r">>)
        [] id[1] = "body31" ->
             Document("3.1", Graph(Roots[i], (Middles \o Middles31)[j], Leaves31[k], Number), <<>>,
                      <<Content("plain", "r")>>, FALSE, <<>>)
        [] id[1] = "mixed" ->
             Document("3.0", Graph(Roots[i], Middles[j], String, Number), Params[k], Contents[l], TRUE, <<>>)
        [] id[1] = "upload" ->
             Document("3.0", Graph(FormRoots[i], FormMiddles[j], FormLeaves[k][1], FormLeaves[k][2]),
                      <<Param(4, TRUE, "u")>>,
                      <<Content(<<"multipart", "binary">>[l], "r")>>, i # 4, <<>>)

MCOperations ==
  LET DocumentAt(i) == DocumentOf(Ids[i])
  IN  [i \in MCDocuments |-> Converted(DocumentAt(i))]
=============================================================================
