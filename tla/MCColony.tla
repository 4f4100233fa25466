------------------------------- MODULE MCColony -------------------------------
(***************************************************************************)
(* Small instances of Colony for TLC: up to two clusters.                  *)
(***************************************************************************)
EXTENDS Colony, TLC

Symmetric == Permutations(Clusters)
AllNodePort == [c \in Clusters |-> "NodePort"]
AllLoadBalancer == [c \in Clusters |-> "LoadBalancer"]

\* An entry that cannot be decoded fails like a call that fails.
AllEntries == [c \in Clusters |-> {"none", "bare", "v1"}]
\* Nobody can decode the entry of a once it is there; b comes and goes.
OneBroken == [c \in Clusters |-> IF c = "a" THEN {"bad"} ELSE {"none", "v2"}]
==============================================================================
