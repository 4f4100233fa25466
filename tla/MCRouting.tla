------------------------------ MODULE MCRouting ------------------------------
(***************************************************************************)
(* Small instances of Routing for TLC: one or two workspaces whose class   *)
(* has up to one HTTP and two SSH/TCP endpoints.                           *)
(***************************************************************************)
EXTENDS Routing, TLC

Endpoint(n, t) == [name |-> n, tcp |-> t]
Symmetric == Permutations(Workspaces)
OnlySsh == <<Endpoint("ssh", TRUE)>>
WebSshDb == <<Endpoint("web", FALSE), Endpoint("ssh", TRUE), Endpoint("db", TRUE)>>
==============================================================================
