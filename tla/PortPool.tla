------------------------------- MODULE PortPool -------------------------------
(***************************************************************************)
(* What the port pool of a tenant Gateway promises: a port has at most one *)
(* holder, a holder has at most one port, a port changes hands only by     *)
(* being released first, and a workspace gives all of its ports back at    *)
(* once.                                                                   *)
(***************************************************************************)
CONSTANTS
    Ports,      \* TCP listener ports of the pool
    Holders,    \* SSH/TCP endpoints of workspaces
    Nobody,     \* not a holder
    Owner(_)    \* Owner(h): the workspace the endpoint h belongs to

VARIABLE holder     \* holder[p]: who has port p

PoolInit == holder = [p \in Ports |-> Nobody]

Acquire(p, h) ==
    /\ holder[p] = Nobody
    /\ \A q \in Ports : holder[q] # h
    /\ holder' = [holder EXCEPT ![p] = h]

Release(w) ==
    holder' = [p \in Ports |->
                 IF holder[p] # Nobody /\ Owner(holder[p]) = w THEN Nobody ELSE holder[p]]

PoolNext ==
    \/ \E h \in Holders : Release(Owner(h))
    \/ \E p \in Ports, h \in Holders : Acquire(p, h)

PoolSpec == PoolInit /\ [][PoolNext]_holder
==============================================================================
