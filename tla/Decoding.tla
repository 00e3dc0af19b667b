------------------------------ MODULE Decoding ------------------------------
(***************************************************************************)
(* The settings before the environment is looked at: the defaults, and     *)
(* over them what config.yaml gives.  The operator recurs over the tree,   *)
(* which is why it is apart from Config.                                   *)
(***************************************************************************)
EXTENDS Settings, TLC

DefaultConfig ==
  ConfigOf("30", "default" :> UpstreamEntryConfig("httpbin", "true"), <<Bool("true")>>)

\* viper's Unmarshal into the defaults: a struct keeps the fields that are not
\* given, a map keeps the other entries, and an entry that is given starts from
\* zero, whatever its defaults were.
RECURSIVE Unmarshal(_, _)
Unmarshal(v, given) ==
  CASE v.kind = "struct" ->
         [v EXCEPT !.fields = [f \in DOMAIN @ |->
            IF f \in DOMAIN given THEN Unmarshal(@[f], given[f]) ELSE @[f]]]
    [] v.kind = "ptr" -> [v EXCEPT !.elems = <<Unmarshal(Pointee(v), given)>>]
    [] v.kind = "slice" ->
         [v EXCEPT !.elems = [i \in DOMAIN given |-> Unmarshal(v.zero, given[i])]]
    [] v.kind = "map" ->
         [v EXCEPT !.entries = [k \in DOMAIN given |-> Unmarshal(v.zero, given[k])] @@ @]
    [] OTHER -> [v EXCEPT !.value = given]
=============================================================================
