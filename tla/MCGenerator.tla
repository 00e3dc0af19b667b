---------------------------- MODULE MCGenerator ----------------------------
(* Instances of Generator for TLC. *)
EXTENDS Generator

CONSTANTS r1, r2, r3, r4

Op(id, request) == [id |-> id, request |-> request]

MCPascalCase ==
  [id \in Ids |-> CASE id = "getUser" -> "GetUser"
                    [] id = "addLabels" -> "AddLabels"
                    [] id = "addlabels" -> "Addlabels"
                    [] id = "2fa" -> "2fa"]

MCToLower ==
  [n \in {"GetUser", "AddLabels", "Addlabels", "2fa"} |->
     CASE n = "GetUser" -> "getuser"
       [] n = "2fa" -> "2fa"
       [] OTHER -> "addlabels"]

MCIdentifiers == {"GetUser", "AddLabels", "Addlabels"}

\* Two operations; a later version with the first one changed and a name that
\* collides; and one with a name that is no identifier.
Evolving ==
  {{Op("getUser", r1), Op("addLabels", r2)},
   {Op("getUser", r3), Op("addLabels", r2), Op("addlabels", r4)},
   {Op("getUser", r1), Op("2fa", r4)}}

\* One document whose operation ids differ only in case.
OneDocument == {{Op("addLabels", r2), Op("addlabels", r4)}}

\* An operation that moves to another path.
Moving == {{Op("getUser", r1)}, {Op("getUser", r3)}}

MCFilters == {{}, {"getUser"}}
NoFilters == {{}}
=============================================================================
