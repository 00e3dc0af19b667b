------------------------------- MODULE MCTFS -------------------------------
(* File stores for TLC. *)
EXTENDS TFS, TLC

CONSTANTS u1, u2, s1, f1, a, b, c

\* Every writer has a name of its own...
Apart == u1 :> a @@ s1 :> c @@ f1 :> b

\* ...or the two have the same, as an upload that is repeated has.
Same == u1 :> a @@ u2 :> a @@ s1 :> c @@ f1 :> b
=============================================================================
