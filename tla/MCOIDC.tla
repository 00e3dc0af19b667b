------------------------------- MODULE MCOIDC -------------------------------
(* Token managers for TLC; a unit of time is the HTTP client's timeout. *)
EXTENDS OIDC, TLC

CONSTANTS c1, c2, c3

\* One upstream has its own token, one falls back to the default's.
Fallback == "default" :> "oidc" @@ "own" :> "static" @@ "bare" :> "none"

\* One upstream has an OIDC client of its own.
TwoClients == "default" :> "oidc" @@ "own" :> "oidc" @@ "bare" :> "none"

Calls == c1 :> "default" @@ c2 :> "bare"

StaticCalls == c1 :> "default" @@ c2 :> "bare" @@ c3 :> "own"
=============================================================================
