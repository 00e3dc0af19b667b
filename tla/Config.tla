------------------------------- MODULE Config -------------------------------
(***************************************************************************)
(* The configuration of a generated server (templates/config.templ): the   *)
(* defaults with what config.yaml gives, which is Decoding, and over them  *)
(* the environment variables with the prefix MCP__, each of which names a  *)
(* place by its path.  The code walks Go values by reflection; here it     *)
(* walks the trees of Settings.                                            *)
(*                                                                         *)
(* Names of fields are compared without case and separators, so they are   *)
(* values here, and so are the texts of a number.  The keys of a map keep  *)
(* their separators.                                                       *)
(***************************************************************************)
EXTENDS Settings

CONSTANTS
  EnvForm,     \* by map key with a dash: the same with an underscore
  Decoded(_),  \* the settings of a file over the defaults (Decoding)
  Paths        \* the places to look at: what variables name and what there is

-----------------------------------------------------------------------------
\* strconv.ParseInt; anything is a string, and what is not true is false.
Takes(v, val) == v.kind \in {"string", "bool"} \/ (v.kind = "int" /\ val \in DOMAIN Index)

Taken(v, val) ==
  IF v.kind # "bool" THEN val ELSE IF val \in {"true", "1"} THEN "true" ELSE "false"

Assign(v, val) == IF Takes(v, val) THEN [v EXCEPT !.value = Taken(v, val)] ELSE v

\* What a pointer points to, and putting it back.
Deref(v) == IF v.kind = "ptr" THEN Pointee(v) ELSE v
Onto(v, w) == IF v.kind = "ptr" THEN [v EXCEPT !.elems = <<w>>] ELSE w

\* A pointer is allocated even if nothing is assigned then.
setLeafValue(v, val) == Onto(v, Assign(Deref(v), val))

Elem(v, i) == IF i < Len(v.elems) THEN v.elems[i + 1] ELSE v.zero

\* What a segment finds.  Any index is found: the slice grows to it, by zeros.
HasPart(v, seg) ==
  \/ v.kind = "struct" /\ seg \in DOMAIN v.fields
  \/ v.kind = "map" /\ seg \in DOMAIN v.entries
  \/ v.kind = "slice" /\ seg \in DOMAIN Index /\ Index[seg] >= 0

Part(v, seg) ==
  CASE v.kind = "struct" -> v.fields[seg]
    [] v.kind = "map" -> v.entries[seg]
    [] v.kind = "slice" -> Elem(v, Index[seg])

WithPart(v, seg, part) ==
  CASE v.kind = "struct" -> [v EXCEPT !.fields[seg] = part]
    [] v.kind = "map" -> [v EXCEPT !.entries[seg] = part]
    [] v.kind = "slice" ->
         LET i == Index[seg]
         IN  [v EXCEPT !.elems = [j \in 1 .. (IF i < Len(@) THEN Len(@) ELSE i + 1) |->
                IF j = i + 1 THEN part ELSE Elem(v, j - 1)]]

\* The walk along a path: what is found after so many segments, as far as they
\* are there.
Down(v, path) ==
  LET down[i \in 0 .. Len(path)] ==
        IF i = 0 THEN v ELSE Part(Deref(down[i - 1]), path[i])
  IN  down

Reaches(v, path, n) == \A i \in 1 .. n : HasPart(Deref(Down(v, path)[i - 1]), path[i])

\* And back: the last is assigned to if it is reached, and each part is put back
\* into a copy of what it was found in.
Up(v, path, val) ==
  LET down == Down(v, path)
      up[i \in 0 .. Len(path)] ==
        IF i = Len(path) THEN setLeafValue(down[i], val)
        ELSE LET w == Deref(down[i])
             IN  Onto(down[i], IF HasPart(w, path[i + 1])
                               THEN WithPart(w, path[i + 1], up[i + 1]) ELSE w)
  IN  up

setByPath(v, path, val) == Up(v, path, val)[0]

\* Where the walk panics: an entry of a map that is itself a leaf cannot be set
\* in place, and an index may be negative.
Panics(v, path, val) ==
  \E i \in DOMAIN path :
    /\ Reaches(v, path, i - 1)
    /\ LET w == Deref(Down(v, path)[i - 1])
       IN  \/ /\ w.kind = "map" /\ path[i] \in DOMAIN w.entries
              /\ i = Len(path) /\ Takes(w.entries[path[i]], val)
           \/ w.kind = "slice" /\ path[i] \in DOMAIN Index /\ Index[path[i]] < 0

EnvSegment(key) == IF key \in DOMAIN EnvForm THEN EnvForm[key] ELSE key

Upstreams(c) == DOMAIN c.fields["upstream"].entries

IsUpstreamField(path) ==
  /\ Len(path) = 3 /\ path[1] = "upstream"
  /\ path[3] \in DOMAIN UpstreamEntryConfig("", "").fields

\* collectEnvKeys gives each field of each upstream the name of a variable: of
\* upstreams that share a name the one visited last has it.
Winners(c) ==
  {w \in [{EnvSegment(k) : k \in Upstreams(c)} -> Upstreams(c)] :
     \A n \in DOMAIN w : EnvSegment(w[n]) = n}

\* Any other variable is taken by its segments as they are.
Path(path, winner) ==
  IF IsUpstreamField(path) /\ path[2] \in DOMAIN winner
  THEN [path EXCEPT ![2] = winner[@]] ELSE path

\* Mutant: an entry of a map is changed, and not put back.
lostEntries(c, environ, winner) ==
  LET after[i \in 0 .. Len(environ)] ==
        IF i = 0 THEN c
        ELSE LET last == after[i - 1]
                 e == environ[i]
                 p == Path(e.path, winner)
             IN  IF last = Panicked \/ Panics(last, p, e.value) THEN Panicked
                 ELSE IF p[1] = "upstream" THEN last
                 ELSE setByPath(last, p, e.value)
  IN  after[Len(environ)]

\* The variables are applied in the order of os.Environ.
After(c, environ, winner) ==
  LET after[i \in 0 .. Len(environ)] ==
        IF i = 0 THEN c
        ELSE LET last == after[i - 1]
                 e == environ[i]
                 p == Path(e.path, winner)
             IN  IF last = Panicked \/ Panics(last, p, e.value) THEN Panicked
                 ELSE setByPath(last, p, e.value)
  IN  after

applyEnvToConfig(c, environ, winner) == After(c, environ, winner)[Len(environ)]

\* A file that cannot be read or decoded is an error, and the environment is not
\* looked at; one that is not there is like an empty one.  The set is over the
\* orders of a map.
LoadConfig(file, environ) ==
  IF ~file.decodes THEN {Failed}
  ELSE LET c == Decoded(file.settings)
       IN  {applyEnvToConfig(c, environ, w) : w \in Winners(c)}

-----------------------------------------------------------------------------
(***************************************************************************)
(* What a configuration says, place by place.                              *)
(***************************************************************************)
IsPlace(c, q) == Reaches(c, q, Len(q))
At(c, q) == Down(c, q)[Len(q)]

IsLeaf(v) == v.kind \in {"string", "bool", "int"}

\* The variable that names a place, or a place above the one.
EnvName(q) ==
  IF Len(q) >= 2 /\ q[1] = "upstream" THEN [q EXCEPT ![2] = EnvSegment(@)] ELSE q

Begins(path, q) == Len(q) <= Len(path) /\ \A i \in 1 .. Len(q) : path[i] = q[i]

\* No other upstream shares the name.
Alone(c, q) ==
  Len(q) >= 2 /\ q[1] = "upstream" =>
    /\ IsUpstreamField(q)
    /\ \A k \in Upstreams(c) : EnvSegment(k) = EnvSegment(q[2]) => k = q[2]

\* Every place stays.  What no variable names, as a whole or in part, is as it
\* was, with the lengths of its slices and the pointers that are nil.  A leaf has
\* what a variable with its name gives, or else it is as it was, and then no such
\* variable can be read as a value of it, or the name is that of another.  Beyond
\* the end of a slice and behind a nil pointer there are zeros.
Overridden(before, after, environ) ==
  LET Named(q) == {q, EnvName(q)}
      Variables == {environ[i] : i \in DOMAIN environ}
      Given(leaf, names) ==
        {Taken(leaf, e.value) : e \in {x \in Variables : x.path \in names /\ Takes(leaf, x.value)}}
  IN  \A q \in Paths : IsPlace(before, q) =>
        LET old == Deref(At(before, q))
            new == Deref(At(after, q))
        IN  /\ IsPlace(after, q) /\ new.kind = old.kind
            /\ (\A e \in Variables, n \in Named(q) : ~Begins(e.path, n)) =>
                 At(after, q) = At(before, q)
            /\ IsLeaf(old) =>
                 \/ new.value \in Given(old, Named(q))
                 \/ new = old /\ (Alone(before, q) => Given(old, {EnvName(q)}) = {})
=============================================================================
