------------------------------ MODULE MCEvents ------------------------------
(* Two agents of different owners and a client of one of the owners.       *)
EXTENDS Events, TLC

CONSTANTS a, b, o, p, c, h1, h2

MCOwner == (a :> o) @@ (b :> p)
MCPrincipal == c :> o
=============================================================================
