-------------------------- MODULE ConfiguredServer --------------------------
(***************************************************************************)
(* The process of Server with the configurations that Config gives it.     *)
(***************************************************************************)
EXTENDS Server, Config

\* Decoding gives Go values of the types of the configuration, an index has one
\* text, and `Paths` has what the variables name.
ASSUME ConfigAssumption ==
  /\ \A s, t \in DOMAIN Index : Index[s] = Index[t] => s = t
  /\ Paths \subseteq Seq(STRING)
  /\ \A s \in Starts :
       /\ s.environ \in Seq([path : Seq(STRING), value : STRING])
       /\ \A f \in {s.file, s.edited} : Loaded(f, s.environ) = LoadConfig(f, s.environ)
       /\ s.file.decodes =>
            LET c == Decoded(s.file.settings)
            IN  /\ c.kind = "struct" /\ "upstream" \in DOMAIN c.fields
                /\ c.fields["upstream"].kind = "map"
                /\ \A q \in Paths : \A i \in 0 .. Len(q) : Reaches(c, q, i) => IsNode(Down(c, q)[i])
                /\ \A i \in DOMAIN s.environ, w \in Winners(c) : Path(s.environ[i].path, w) \in Paths

-----------------------------------------------------------------------------
\* A variable of the environment changes the setting it names and no other:
\* what the file and the defaults say elsewhere stays, in whatever order the
\* variables and the entries of maps are visited (setByPath copies an entry,
\* changes it and puts it back, allocates pointers and grows slices).
OverridesAreLocal ==
  main = "configured" /\ file.decodes =>
    Overridden(Decoded(file.settings), cfg, start.environ)
=============================================================================
