---------------------------- MODULE RoutingProofs ----------------------------
(***************************************************************************)
(* Proofs about Routing for any workspaces, endpoints and ports: types,    *)
(* exclusive ports, the refinement of PortPool, and what a workspace that  *)
(* no sweep missed keeps and advertises.                                   *)
(***************************************************************************)
EXTENDS Routing, TLAPS

(***************************************************************************)
(* Facts about the operators of the model                                  *)
(***************************************************************************)
\* The endpoint an EnsureTCPRoute step works on has a TCP entry.
LEMMA TcpEndpointInPass ==
    ASSUME TypeOK, NEW w \in Workspaces, InPass(w), Endpoints[pass.next].tcp
    PROVE  Endpoints[pass.next].name \in TcpEndpoints
<1>1. pass.next \in DOMAIN Endpoints
    BY RoutingAssumption DEF TypeOK, InPass
<1> QED BY <1>1 DEF TcpEndpoints

\* The endpoint an EnsureHTTPRoute step works on is an HTTP endpoint.
LEMMA HttpEndpointInPass ==
    ASSUME TypeOK, NEW w \in Workspaces, InPass(w), ~Endpoints[pass.next].tcp
    PROVE  Endpoints[pass.next].name \in HttpEndpoints
<1>1. pass.next \in DOMAIN Endpoints
    BY RoutingAssumption DEF TypeOK, InPass
<1> QED BY <1>1 DEF HttpEndpoints

\* ensureTCPRoute keeps the port an endpoint holds, or takes one that no
\* TCPRoute holds.
LEMMA AllocatedPortIsOwnOrFree ==
    ASSUME NEW w \in Workspaces, NEW e \in TcpEndpoints, NEW p \in AllocatedPort(w, e)
    PROVE  \/ p = tcp[w][e]
           \/ /\ tcp[w][e] = NoPort
              /\ p \in pass.pool /\ p \notin Allocated
BY DEF AllocatedPort, LowestFree, FreePorts

\* The port it ends up with is one of the Gateway's, or none.
LEMMA AllocatedPortType ==
    ASSUME TypeOK, NEW w \in Workspaces, NEW e \in TcpEndpoints, NEW p \in AllocatedPort(w, e)
    PROVE  p \in Ports \cup {NoPort}
BY AllocatedPortIsOwnOrFree DEF TypeOK, Entries

\* The empty table of a workspace is well typed.
LEMMA NoEntriesType == NoEntries \in Entries
BY DEF NoEntries, Entries

\* The idle pass is well typed.
LEMMA IdleType ==
    Idle \in [ws : Workspaces \cup {NoWorkspace}, pool : SUBSET Ports,
              next : 1 .. Len(Endpoints) + 1, entries : Entries]
<1>1. Len(Endpoints) \in Nat
    BY RoutingAssumption
<1> QED BY <1>1, NoEntriesType DEF Idle

(***************************************************************************)
(* Type correctness                                                        *)
(***************************************************************************)
\* One EnsureTCPRoute step keeps the types.
LEMMA EnsureTCPRouteType ==
    ASSUME TypeOK, NEW w \in Workspaces, EnsureTCPRoute(w)
    PROVE  TypeOK'
<1> DEFINE e == Endpoints[pass.next].name
<1>1. e \in TcpEndpoints
    BY TcpEndpointInPass DEF EnsureTCPRoute
<1>2. PICK p \in AllocatedPort(w, e) :
          /\ tcp' = [tcp EXCEPT ![w][e] = p]
          /\ pass' = [pass EXCEPT !.next = @ + 1,
                         !.entries[e] = IF p \in pass.pool THEN p ELSE NoPort]
    BY DEF EnsureTCPRoute
<1>3. p \in Ports \cup {NoPort}
    BY <1>1, AllocatedPortType
<1>4. tcp' \in [Workspaces -> Entries]
    BY <1>1, <1>2, <1>3 DEF TypeOK, Entries
<1>5. pass.next + 1 \in 1 .. Len(Endpoints) + 1
    BY RoutingAssumption DEF TypeOK, EnsureTCPRoute, InPass
<1>6. [pass.entries EXCEPT ![e] = IF p \in pass.pool THEN p ELSE NoPort] \in Entries
    BY <1>1, <1>3 DEF TypeOK, Entries
<1>7. pass' \in [ws : Workspaces \cup {NoWorkspace}, pool : SUBSET Ports,
                 next : 1 .. Len(Endpoints) + 1, entries : Entries]
    BY <1>2, <1>5, <1>6 DEF TypeOK
<1> QED BY <1>4, <1>7 DEF TypeOK, EnsureTCPRoute, adminVars

\* Spec => []TypeOK: every step of the provider, the sweeper and the world
\* around them keeps the types.
THEOREM TypeCorrect == Spec => []TypeOK
<1>1. Init => TypeOK
    BY IdleType, NoEntriesType, RoutingAssumption DEF Init, TypeOK, Asleep
<1>2. TypeOK /\ [Next]_vars => TypeOK'
  <2> SUFFICES ASSUME TypeOK, [Next]_vars PROVE TypeOK'
    OBVIOUS
  <2> USE DEF regionalVars, adminVars
  <2>1. CASE UNCHANGED vars
    BY <2>1 DEF TypeOK, vars
  <2>2. ASSUME NEW w \in Workspaces, EnsureMirrorNamespace(w) PROVE TypeOK'
    <3>1. pass' \in [ws : Workspaces \cup {NoWorkspace}, pool : SUBSET Ports,
                     next : 1 .. Len(Endpoints) + 1, entries : Entries]
        BY <2>2, IdleType DEF EnsureMirrorNamespace, TypeOK
    <3> QED BY <2>2, <3>1 DEF EnsureMirrorNamespace, TypeOK
  <2>3. ASSUME NEW w \in Workspaces, EnsureHTTPRoute(w) PROVE TypeOK'
    <3>1. Endpoints[pass.next].name \in HttpEndpoints
        BY <2>3, HttpEndpointInPass DEF EnsureHTTPRoute
    <3>2. pass.next + 1 \in 1 .. Len(Endpoints) + 1
        BY <2>3, RoutingAssumption DEF TypeOK, EnsureHTTPRoute, InPass
    <3> QED BY <2>3, <3>1, <3>2 DEF EnsureHTTPRoute, TypeOK
  <2>4. ASSUME NEW w \in Workspaces, EnsureTCPRoute(w) PROVE TypeOK'
    BY <2>4, EnsureTCPRouteType
  <2>5. ASSUME NEW w \in Workspaces, EnsureFails(w) PROVE TypeOK'
    BY <2>5, IdleType DEF EnsureFails, TypeOK
  <2>6. ASSUME NEW w \in Workspaces, WriteAccess(w) PROVE TypeOK'
    BY <2>6, IdleType DEF WriteAccess, TypeOK
  <2>7. ASSUME NEW w \in Workspaces, CleanupRoutes(w) PROVE TypeOK'
    BY <2>7, NoEntriesType DEF CleanupRoutes, FreedPorts, Terminate, TypeOK
  <2>8. ASSUME NEW w \in Workspaces, CleanupSkipped(w) PROVE TypeOK'
    BY <2>8, NoEntriesType DEF CleanupSkipped, TypeOK
  <2>9. ASSUME NEW w \in Workspaces, BecomesRunning(w) \/ DeleteWorkspace(w) PROVE TypeOK'
    BY <2>9 DEF BecomesRunning, DeleteWorkspace, TypeOK
  <2>10. ASSUME NEW w \in Workspaces, MirrorTerminated(w) PROVE TypeOK'
    BY <2>10, NoEntriesType DEF MirrorTerminated, TypeOK
  <2>11. CASE SweepStart \/ SweepList \/ SweepEnd
    <3>1. CASE SweepStart
        BY <3>1 DEF SweepStart, TypeOK
    <3>2. CASE SweepList
      <4> DEFINE todo == {w \in Workspaces \ sweep.active : mirror[w] = "active"}
      <4>1. todo \in SUBSET Workspaces
          OBVIOUS
      <4> HIDE DEF todo
      <4>2. sweep' \in {[sweep EXCEPT !.step = "listed", !.todo = todo], Asleep}
          BY <3>2 DEF SweepList, todo
      <4> QED BY <3>2, <4>1, <4>2 DEF SweepList, Asleep, TypeOK
    <3>3. CASE SweepEnd
        BY <3>3 DEF SweepEnd, Asleep, TypeOK
    <3> QED BY <2>11, <3>1, <3>2, <3>3
  <2>12. ASSUME NEW w \in Workspaces, SweepRoutes(w) PROVE TypeOK'
    BY <2>12, NoEntriesType DEF SweepRoutes, FreedPorts, TypeOK
  <2>13. ASSUME NEW w \in Workspaces, SweepNamespace(w) \/ SweepSkips(w) PROVE TypeOK'
    <3> DEFINE next == [sweep EXCEPT !.step = "listed", !.todo = @ \ {w}]
    <3>1. sweep' = next
        BY <2>13 DEF SweepNamespace, SweepSkips
    <3>2. next \in [step : {"asleep", "started", "listed"} \cup Workspaces,
                   active : SUBSET Workspaces, todo : SUBSET Workspaces]
        BY DEF TypeOK
    <3>3. mirror' \in [Workspaces -> {"none", "active", "terminating"}]
        BY <2>13 DEF SweepNamespace, SweepSkips, Terminate, TypeOK
    <3>4. UNCHANGED <<wsd, access, http, tcp, pool, infra, pass, missed>>
        BY <2>13 DEF SweepNamespace, SweepSkips
    <3> HIDE DEF next
    <3> QED BY <3>1, <3>2, <3>3, <3>4 DEF TypeOK
  <2>14. ASSUME NEW p \in Ports, ResizePool(p) PROVE TypeOK'
    BY <2>14 DEF ResizePool, TypeOK
  <2>15. CASE InfraChanges
    BY <2>15 DEF InfraChanges, TypeOK
  <2> QED
    BY <2>1, <2>2, <2>3, <2>4, <2>5, <2>6, <2>7, <2>8, <2>9, <2>10, <2>11, <2>12,
       <2>13, <2>14, <2>15 DEF Next, EnsureRoutes, SweepOrphans
<1> QED BY <1>1, <1>2, PTL DEF Spec

(***************************************************************************)
(* Exclusive ports                                                         *)
(***************************************************************************)
\* A step that only gives ports back keeps the others where they are.
LEMMA FreeingKeepsExclusive ==
    ASSUME TypeOK, PortExclusive,
           \A w \in Workspaces, e \in TcpEndpoints : tcp'[w][e] \in {tcp[w][e], NoPort}
    PROVE  PortExclusive'
BY DEF PortExclusive

\* CleanupRoutes, a sweep and namespace termination only give ports back.
LEMMA FreedPortsFrees ==
    ASSUME TypeOK, NEW v \in Workspaces, tcp' = [tcp EXCEPT ![v] = NoEntries]
    PROVE  \A w \in Workspaces, e \in TcpEndpoints : tcp'[w][e] \in {tcp[w][e], NoPort}
BY DEF TypeOK, NoEntries, Entries

\* EnsureTCPRoute gives out a port nobody holds.
LEMMA EnsureTCPRouteExclusive ==
    ASSUME TypeOK, PortExclusive, NEW x \in Workspaces, EnsureTCPRoute(x)
    PROVE  PortExclusive'
<1> DEFINE d == Endpoints[pass.next].name
<1>1. d \in TcpEndpoints
    BY TcpEndpointInPass DEF EnsureTCPRoute
<1>2. PICK p \in AllocatedPort(x, d) : tcp' = [tcp EXCEPT ![x][d] = p]
    BY DEF EnsureTCPRoute
<1> HIDE DEF d
<1>3. ASSUME NEW w \in Workspaces, NEW e \in TcpEndpoints
      PROVE  tcp'[w][e] = IF w = x /\ e = d THEN p ELSE tcp[w][e]
    BY <1>1, <1>2 DEF TypeOK, Entries
<1>4. CASE p = tcp[x][d]
    BY <1>3, <1>4 DEF PortExclusive
<1>5. CASE p \notin Allocated /\ tcp[x][d] = NoPort
  <2>1. \A w \in Workspaces, e \in TcpEndpoints : tcp[w][e] # NoPort => tcp[w][e] # p
      BY <1>5 DEF Allocated
  <2> QED BY <1>1, <1>3, <2>1 DEF PortExclusive
<1> QED BY <1>1, <1>4, <1>5, AllocatedPortIsOwnOrFree

\* Spec => []PortExclusive: for any number of workspaces, endpoints and
\* ports, whatever the sweeper, admins and deletions do between the API
\* calls of a pass, no two TCPRoutes sit on one listener.
THEOREM PortExclusiveHolds == Spec => []PortExclusive
<1>1. Init => PortExclusive
    BY DEF Init, PortExclusive, NoEntries
<1>2. TypeOK /\ PortExclusive /\ [Next]_vars => PortExclusive'
  <2> SUFFICES ASSUME TypeOK, PortExclusive, [Next]_vars PROVE PortExclusive'
    OBVIOUS
  <2> USE DEF regionalVars
  <2>1. CASE UNCHANGED tcp
    BY <2>1 DEF PortExclusive
  <2>2. ASSUME NEW w \in Workspaces, EnsureTCPRoute(w) PROVE PortExclusive'
    BY <2>2, EnsureTCPRouteExclusive
  <2>3. ASSUME NEW w \in Workspaces, CleanupRoutes(w) \/ SweepRoutes(w) \/ MirrorTerminated(w)
        PROVE  PortExclusive'
    <3>1. tcp' = [tcp EXCEPT ![w] = NoEntries]
        BY <2>3 DEF CleanupRoutes, SweepRoutes, MirrorTerminated, FreedPorts
    <3> QED BY <3>1, FreedPortsFrees, FreeingKeepsExclusive
  <2>4. ASSUME NEW w \in Workspaces,
               \/ EnsureMirrorNamespace(w) \/ EnsureHTTPRoute(w) \/ EnsureFails(w)
               \/ WriteAccess(w) \/ CleanupSkipped(w) \/ BecomesRunning(w)
               \/ DeleteWorkspace(w) \/ SweepNamespace(w) \/ SweepSkips(w)
        PROVE  UNCHANGED tcp
    BY <2>4 DEF EnsureMirrorNamespace, EnsureHTTPRoute, EnsureFails, WriteAccess,
                CleanupSkipped, BecomesRunning, DeleteWorkspace, SweepNamespace, SweepSkips
  <2>5. CASE SweepStart \/ SweepList \/ SweepEnd \/ InfraChanges \/ UNCHANGED vars
    <3>1. UNCHANGED tcp
        BY <2>5 DEF SweepStart, SweepList, SweepEnd, InfraChanges, vars
    <3> QED BY <2>1, <3>1
  <2>6. ASSUME NEW p \in Ports, ResizePool(p) PROVE UNCHANGED tcp
    BY <2>6 DEF ResizePool
  <2> QED BY <2>1, <2>2, <2>3, <2>4, <2>5, <2>6 DEF Next, EnsureRoutes, SweepOrphans
<1> QED BY <1>1, <1>2, TypeCorrect, PTL DEF Spec

(***************************************************************************)
(* What a sweep can reach                                                  *)
(***************************************************************************)
\* A sweep works on names it did not list as active, and is over when asleep.
SweepShape ==
    /\ sweep.step = "asleep" => sweep = Asleep
    /\ sweep.todo \cap sweep.active = {}
    /\ \A w \in Workspaces : sweep.step = w => w \in sweep.todo

\* A workspace that is there although the sweep under way does not list it
\* was missed by it.  A name that does not exist has no pass.
UnlistedIsMissed(w) ==
    /\ Unlisted(w) /\ wsd[w] # "absent" => w \in missed
    /\ wsd[w] = "absent" => pass.ws # w

\* The namespace of a workspace that was not missed terminates, and is about
\* to be deleted by a sweep, only without routes.
FreedBeforeTerminating(w) ==
    w \notin missed /\ (mirror[w] = "terminating" \/ sweep.step = w) => tcp[w] = NoEntries

SweepInv ==
    SweepShape /\ \A w \in Workspaces : UnlistedIsMissed(w) /\ FreedBeforeTerminating(w)

\* A step of a workspace's own pass keeps its ports and adds none to a
\* namespace that is terminating.
LEMMA EnsureTCPRouteSticky ==
    ASSUME TypeOK, NEW x \in Workspaces, EnsureTCPRoute(x),
           NEW w \in Workspaces, NEW e \in TcpEndpoints
    PROVE  /\ tcp[w][e] # NoPort => tcp'[w][e] = tcp[w][e]
           /\ mirror[w] = "terminating" \/ w # x => tcp'[w] = tcp[w]
<1> DEFINE d == Endpoints[pass.next].name
<1>1. d \in TcpEndpoints
    BY TcpEndpointInPass DEF EnsureTCPRoute
<1>2. PICK p \in AllocatedPort(x, d) :
          /\ CanEnsure(x, p = tcp[x][d])
          /\ tcp' = [tcp EXCEPT ![x][d] = p]
    BY DEF EnsureTCPRoute
<1> HIDE DEF d
<1>3. p = tcp[x][d] \/ tcp[x][d] = NoPort
    BY <1>1, AllocatedPortIsOwnOrFree
<1>4. mirror[x] = "terminating" => p = tcp[x][d]
    BY <1>2 DEF CanEnsure
<1>5. p = tcp[x][d] => tcp' = tcp
    BY <1>1, <1>2 DEF TypeOK, Entries
<1> QED BY <1>1, <1>2, <1>3, <1>4, <1>5 DEF TypeOK, Entries

\* A workspace in whose namespace a sweep is working is unlisted by it.
LEMMA SweptIsUnlisted ==
    ASSUME SweepInv, NEW w \in Workspaces, w \in sweep.todo
    PROVE  Unlisted(w)
BY DEF SweepInv, SweepShape, Unlisted, Asleep

\* The shape of a sweep survives every step.
LEMMA SweepShapeStep ==
    ASSUME TypeOK, SweepShape, [Next]_vars
    PROVE  SweepShape'
<1> USE RoutingAssumption
<1>1. CASE UNCHANGED sweep
    BY <1>1 DEF SweepShape, Asleep
<1>2. CASE SweepStart
    BY <1>2 DEF SweepStart, SweepShape
<1>3. CASE SweepList
  <2> DEFINE todo == {w \in Workspaces \ sweep.active : mirror[w] = "active"}
  <2>1. todo \cap sweep.active = {} /\ todo \subseteq Workspaces
      OBVIOUS
  <2>2. sweep' = [sweep EXCEPT !.step = "listed", !.todo = todo] \/ sweep' = Asleep
      BY <1>3 DEF SweepList
  <2> HIDE DEF todo
  <2>3. CASE sweep' = [sweep EXCEPT !.step = "listed", !.todo = todo]
    <3>1. sweep'.step = "listed" /\ sweep'.active = sweep.active /\ sweep'.todo = todo
        BY <2>3 DEF TypeOK
    <3> QED BY <2>1, <3>1 DEF SweepShape
  <2>4. CASE sweep' = Asleep
      BY <2>4 DEF SweepShape, Asleep
  <2> QED BY <2>2, <2>3, <2>4
<1>4. CASE SweepEnd
    BY <1>4 DEF SweepEnd, SweepShape, Asleep
<1>5. ASSUME NEW w \in Workspaces, SweepRoutes(w) PROVE SweepShape'
    BY <1>5 DEF SweepRoutes, SweepShape, TypeOK
<1>6. ASSUME NEW w \in Workspaces, SweepNamespace(w) \/ SweepSkips(w) PROVE SweepShape'
  <2>1. sweep' = [sweep EXCEPT !.step = "listed", !.todo = @ \ {w}]
      BY <1>6 DEF SweepNamespace, SweepSkips
  <2> QED BY <2>1 DEF SweepShape, TypeOK
<1>7. ASSUME NEW w \in Workspaces,
             \/ EnsureRoutes(w) \/ CleanupRoutes(w) \/ CleanupSkipped(w)
             \/ BecomesRunning(w) \/ DeleteWorkspace(w) \/ MirrorTerminated(w)
      PROVE  UNCHANGED sweep
    BY <1>7 DEF EnsureRoutes, EnsureMirrorNamespace, EnsureHTTPRoute, EnsureTCPRoute,
                EnsureFails, WriteAccess, CleanupRoutes, CleanupSkipped, BecomesRunning,
                DeleteWorkspace, MirrorTerminated
<1>8. ASSUME InfraChanges \/ (\E p \in Ports : ResizePool(p)) \/ UNCHANGED vars
      PROVE  UNCHANGED sweep
    BY <1>8 DEF InfraChanges, ResizePool, vars
<1> QED BY <1>1, <1>2, <1>3, <1>4, <1>5, <1>6, <1>7, <1>8 DEF Next, SweepOrphans

\* A sweep lists every workspace there is, and one that comes later is
\* recorded as missed.
LEMMA UnlistedStep ==
    ASSUME TypeOK, SweepInv, [Next]_vars, NEW w \in Workspaces
    PROVE  UnlistedIsMissed(w)'
<1> USE DEF regionalVars
<1>1. UnlistedIsMissed(w)
    BY DEF SweepInv
<1>2. w # NoWorkspace /\ Idle.ws = NoWorkspace
    BY RoutingAssumption DEF Idle
<1>3. CASE UNCHANGED <<wsd, missed, pass, sweep>>
    BY <1>1, <1>3 DEF UnlistedIsMissed, Unlisted, Asleep
<1>4. ASSUME NEW x \in Workspaces, EnsureRoutes(x) PROVE UnlistedIsMissed(w)'
  <2>1. UNCHANGED <<wsd, missed, sweep>>
      BY <1>4 DEF EnsureRoutes, EnsureMirrorNamespace, EnsureHTTPRoute, EnsureTCPRoute,
                  EnsureFails, WriteAccess
  <2>2. pass'.ws \in {pass.ws, NoWorkspace} \/ (pass'.ws = x /\ wsd[x] = "running")
    <3>1. CASE EnsureMirrorNamespace(x)
        BY <3>1 DEF EnsureMirrorNamespace, Idle
    <3>2. CASE EnsureHTTPRoute(x) \/ EnsureTCPRoute(x)
        BY <3>2 DEF EnsureHTTPRoute, EnsureTCPRoute, TypeOK
    <3>3. CASE EnsureFails(x) \/ WriteAccess(x)
        BY <1>2, <3>3 DEF EnsureFails, WriteAccess
    <3> QED BY <1>4, <3>1, <3>2, <3>3 DEF EnsureRoutes
  <2> QED BY <1>1, <1>2, <2>1, <2>2 DEF UnlistedIsMissed, Unlisted, Asleep
<1>5. ASSUME NEW x \in Workspaces, CleanupRoutes(x) \/ CleanupSkipped(x)
      PROVE  UnlistedIsMissed(w)'
  <2>1. /\ UNCHANGED <<missed, pass, sweep>> /\ pass = Idle /\ wsd[x] = "deleting"
        /\ wsd' = wsd \/ wsd' = [wsd EXCEPT ![x] = "absent"]
      BY <1>5 DEF CleanupRoutes, CleanupSkipped
  <2>2. wsd'[w] = "absent" \/ wsd'[w] = wsd[w]
      BY <2>1 DEF TypeOK
  <2> QED BY <1>1, <1>2, <2>1, <2>2 DEF UnlistedIsMissed, Unlisted, Asleep
<1>6. ASSUME NEW x \in Workspaces, BecomesRunning(x) PROVE UnlistedIsMissed(w)'
  <2>1. /\ UNCHANGED <<pass, sweep>>
        /\ wsd'[w] = IF w = x THEN "running" ELSE wsd[w]
      BY <1>6 DEF BecomesRunning, TypeOK
  <2>2. w # x /\ w \in missed => w \in missed'
      BY <1>6 DEF BecomesRunning
  <2>3. w = x /\ Unlisted(w) => w \in missed'
      BY <1>6 DEF BecomesRunning
  <2> QED BY <1>1, <2>1, <2>2, <2>3 DEF UnlistedIsMissed, Unlisted, Asleep
<1>7. ASSUME NEW x \in Workspaces, DeleteWorkspace(x) PROVE UnlistedIsMissed(w)'
  <2>1. /\ UNCHANGED <<missed, pass, sweep>> /\ wsd[x] = "running"
        /\ wsd'[w] = IF w = x THEN "deleting" ELSE wsd[w]
      BY <1>7 DEF DeleteWorkspace, TypeOK
  <2> QED BY <1>1, <2>1 DEF UnlistedIsMissed, Unlisted, Asleep
<1>8. CASE SweepStart
  <2>1. UNCHANGED <<wsd, missed, pass>> /\ (wsd[w] # "absent" => w \in sweep'.active)
      BY <1>8 DEF SweepStart
  <2> QED BY <1>1, <2>1 DEF UnlistedIsMissed, Unlisted
<1>9. ASSUME \/ SweepList \/ SweepEnd
             \/ \E x \in Workspaces : SweepRoutes(x) \/ SweepNamespace(x) \/ SweepSkips(x)
      PROVE  UnlistedIsMissed(w)'
  <2>1. UNCHANGED <<wsd, missed, pass>>
      BY <1>9 DEF SweepList, SweepEnd, SweepRoutes, SweepNamespace, SweepSkips
  <2>2. sweep.step # "asleep" \/ sweep.todo # {} => sweep # Asleep
      BY DEF Asleep
  <2>3. CASE SweepList \/ SweepEnd
      BY <1>1, <2>1, <2>2, <2>3 DEF SweepList, SweepEnd, UnlistedIsMissed, Unlisted, Asleep, TypeOK
  <2>4. ASSUME NEW x \in Workspaces, SweepRoutes(x) \/ SweepNamespace(x) \/ SweepSkips(x)
        PROVE  UnlistedIsMissed(w)'
    <3>1. sweep # Asleep /\ sweep'.active = sweep.active
        BY <2>2, <2>4 DEF SweepRoutes, SweepNamespace, SweepSkips, TypeOK
    <3> QED BY <1>1, <2>1, <3>1 DEF UnlistedIsMissed, Unlisted
  <2> QED BY <1>9, <2>3, <2>4
<1>10. ASSUME \/ InfraChanges \/ (\E p \in Ports : ResizePool(p)) \/ UNCHANGED vars
              \/ \E x \in Workspaces : MirrorTerminated(x)
       PROVE  UNCHANGED <<wsd, missed, pass, sweep>>
    BY <1>10 DEF InfraChanges, ResizePool, MirrorTerminated, vars
<1> QED
    BY <1>3, <1>4, <1>5, <1>6, <1>7, <1>8, <1>9, <1>10 DEF Next, SweepOrphans

\* Routes are gone before their namespace: CleanupRoutes and the sweeper both
\* remove the TCPRoutes first, and only a pass over a workspace that the
\* sweep does not list can put one in between.
LEMMA FreedStep ==
    ASSUME TypeOK, SweepInv, [Next]_vars, NEW w \in Workspaces
    PROVE  FreedBeforeTerminating(w)'
<1> USE DEF regionalVars
<1>1. FreedBeforeTerminating(w)
    BY DEF SweepInv
<1>2. w \notin {"asleep", "started", "listed"}
    BY RoutingAssumption
<1>3. ~Unlisted(w) => sweep.step # w
    BY SweptIsUnlisted DEF SweepInv, SweepShape
<1>4. CASE UNCHANGED <<mirror, tcp, sweep, missed>>
    BY <1>1, <1>4 DEF FreedBeforeTerminating
<1>5. ASSUME NEW x \in Workspaces, EnsureMirrorNamespace(x) PROVE FreedBeforeTerminating(w)'
    BY <1>1, <1>5 DEF EnsureMirrorNamespace, FreedBeforeTerminating, TypeOK
<1>6. ASSUME NEW x \in Workspaces, EnsureTCPRoute(x) PROVE FreedBeforeTerminating(w)'
  <2>1. UNCHANGED <<mirror, sweep, missed>> /\ pass.ws = x
      BY <1>6 DEF EnsureTCPRoute, InPass
  <2>2. PICK e \in TcpEndpoints : TRUE
      BY <1>6, TcpEndpointInPass DEF EnsureTCPRoute
  <2>3. mirror[w] = "terminating" \/ w # x => tcp'[w] = tcp[w]
      BY <1>6, <2>2, EnsureTCPRouteSticky
  <2>4. w = x /\ w \notin missed => sweep.step # w
      BY <1>3, <2>1 DEF SweepInv, UnlistedIsMissed
  <2> QED BY <1>1, <2>1, <2>3, <2>4 DEF FreedBeforeTerminating
<1>7. ASSUME NEW x \in Workspaces, CleanupRoutes(x) \/ MirrorTerminated(x)
      PROVE  FreedBeforeTerminating(w)'
  <2>1. UNCHANGED <<sweep, missed>>
      BY <1>7 DEF CleanupRoutes, MirrorTerminated
  <2>2. IF w = x THEN tcp'[w] = NoEntries ELSE tcp'[w] = tcp[w] /\ mirror'[w] = mirror[w]
      BY <1>7 DEF CleanupRoutes, MirrorTerminated, FreedPorts, Terminate, TypeOK
  <2> QED BY <1>1, <2>1, <2>2 DEF FreedBeforeTerminating
<1>8. ASSUME NEW x \in Workspaces, BecomesRunning(x) PROVE FreedBeforeTerminating(w)'
  <2>1. UNCHANGED <<mirror, tcp, sweep>>
      BY <1>8 DEF BecomesRunning
  <2>2. w # x => (w \in missed <=> w \in missed')
      BY <1>8 DEF BecomesRunning
  <2>3. w = x /\ w \notin missed' =>
           ~Unlisted(w) /\ (mirror[w] = "terminating" => w \notin missed)
      BY <1>8 DEF BecomesRunning
  <2> QED BY <1>1, <1>3, <2>1, <2>2, <2>3 DEF FreedBeforeTerminating
<1>9. ASSUME NEW x \in Workspaces, SweepRoutes(x) PROVE FreedBeforeTerminating(w)'
  <2>1. UNCHANGED <<mirror, missed>> /\ sweep'.step = x
      BY <1>9 DEF SweepRoutes, TypeOK
  <2>2. tcp'[w] = IF w = x THEN NoEntries ELSE tcp[w]
      BY <1>9 DEF SweepRoutes, FreedPorts, TypeOK
  <2> QED BY <1>1, <2>1, <2>2 DEF FreedBeforeTerminating
<1>10. ASSUME NEW x \in Workspaces, SweepNamespace(x) PROVE FreedBeforeTerminating(w)'
  <2>1. UNCHANGED <<tcp, missed>> /\ sweep'.step = "listed" /\ sweep.step = x
      BY <1>10 DEF SweepNamespace, TypeOK
  <2>2. w # x => mirror'[w] = mirror[w]
      BY <1>10 DEF SweepNamespace, Terminate, TypeOK
  <2> QED BY <1>1, <1>2, <2>1, <2>2 DEF FreedBeforeTerminating
<1>11. ASSUME SweepStart \/ SweepList \/ SweepEnd \/ \E x \in Workspaces : SweepSkips(x)
       PROVE  FreedBeforeTerminating(w)'
  <2>1. UNCHANGED <<mirror, tcp, missed>>
      BY <1>11 DEF SweepStart, SweepList, SweepEnd, SweepSkips
  <2>2. sweep'.step \in {"asleep", "started", "listed"}
    <3>1. CASE SweepStart \/ SweepEnd
        BY <3>1 DEF SweepStart, SweepEnd, Asleep
    <3>2. CASE SweepList
      <4> DEFINE todo == {v \in Workspaces \ sweep.active : mirror[v] = "active"}
      <4>1. sweep' = [sweep EXCEPT !.step = "listed", !.todo = todo] \/ sweep' = Asleep
          BY <3>2 DEF SweepList
      <4> HIDE DEF todo
      <4>2. CASE sweep' = [sweep EXCEPT !.step = "listed", !.todo = todo]
        <5>1. sweep'.step = "listed"
            BY <4>2 DEF TypeOK
        <5> QED BY <5>1
      <4>3. CASE sweep' = Asleep
          BY <4>3 DEF Asleep
      <4> QED BY <4>1, <4>2, <4>3
    <3>3. ASSUME NEW x \in Workspaces, SweepSkips(x)
          PROVE  sweep'.step \in {"asleep", "started", "listed"}
      <4>1. sweep' = [sweep EXCEPT !.step = "listed", !.todo = @ \ {x}]
          BY <3>3 DEF SweepSkips
      <4> QED BY <4>1 DEF TypeOK
    <3> QED BY <1>11, <3>1, <3>2, <3>3
  <2> QED BY <1>1, <1>2, <2>1, <2>2 DEF FreedBeforeTerminating
<1>12. ASSUME NEW x \in Workspaces,
              \/ EnsureHTTPRoute(x) \/ EnsureFails(x) \/ WriteAccess(x)
              \/ CleanupSkipped(x) \/ DeleteWorkspace(x)
       PROVE  UNCHANGED <<mirror, tcp, sweep, missed>>
    BY <1>12 DEF EnsureHTTPRoute, EnsureFails, WriteAccess, CleanupSkipped, DeleteWorkspace
<1>13. ASSUME InfraChanges \/ (\E p \in Ports : ResizePool(p)) \/ UNCHANGED vars
       PROVE  UNCHANGED <<mirror, tcp, sweep, missed>>
    BY <1>13 DEF InfraChanges, ResizePool, vars
<1> QED
    BY <1>4, <1>5, <1>6, <1>7, <1>8, <1>9, <1>10, <1>11, <1>12, <1>13
    DEF Next, EnsureRoutes, SweepOrphans

\* Spec => []SweepInv.
LEMMA SweepInvHolds == Spec => []SweepInv
<1>1. Init => SweepInv
    BY RoutingAssumption
    DEF Init, SweepInv, SweepShape, UnlistedIsMissed, Unlisted, FreedBeforeTerminating, Asleep, Idle
<1>2. TypeOK /\ SweepInv /\ [Next]_vars => SweepInv'
    BY SweepShapeStep, UnlistedStep, FreedStep DEF SweepInv
<1> QED BY <1>1, <1>2, TypeCorrect, PTL DEF Spec

(***************************************************************************)
(* Sticky ports                                                            *)
(***************************************************************************)
\* A step takes no port from a running workspace that no sweep missed.
LEMMA StickyStep ==
    ASSUME TypeOK, SweepInv, [Next]_vars,
           NEW w \in Workspaces, NEW e \in TcpEndpoints,
           wsd[w] = "running", w \notin missed, tcp[w][e] # NoPort
    PROVE  tcp'[w][e] = tcp[w][e]
<1> USE DEF regionalVars
<1>1. ASSUME NEW x \in Workspaces, EnsureTCPRoute(x) PROVE tcp'[w][e] = tcp[w][e]
    BY <1>1, EnsureTCPRouteSticky
<1>2. ASSUME NEW x \in Workspaces, CleanupRoutes(x) PROVE tcp'[w][e] = tcp[w][e]
    BY <1>2 DEF CleanupRoutes, FreedPorts, TypeOK
<1>3. ASSUME NEW x \in Workspaces, MirrorTerminated(x) PROVE tcp'[w][e] = tcp[w][e]
  <2>1. tcp[w] # NoEntries
      BY DEF NoEntries
  <2>2. mirror[w] # "terminating"
      BY <2>1 DEF SweepInv, FreedBeforeTerminating
  <2> QED BY <1>3, <2>2 DEF MirrorTerminated, TypeOK
<1>4. ASSUME NEW x \in Workspaces, SweepRoutes(x) PROVE tcp'[w][e] = tcp[w][e]
  <2>1. w \notin sweep.todo
      BY SweptIsUnlisted DEF SweepInv, UnlistedIsMissed
  <2> QED BY <1>4, <2>1 DEF SweepRoutes, FreedPorts, TypeOK
<1>5. ASSUME NEW x \in Workspaces,
             \/ EnsureMirrorNamespace(x) \/ EnsureHTTPRoute(x) \/ EnsureFails(x)
             \/ WriteAccess(x) \/ CleanupSkipped(x) \/ BecomesRunning(x) \/ DeleteWorkspace(x)
             \/ SweepNamespace(x) \/ SweepSkips(x)
      PROVE  UNCHANGED tcp
    BY <1>5 DEF EnsureMirrorNamespace, EnsureHTTPRoute, EnsureFails, WriteAccess,
                CleanupSkipped, BecomesRunning, DeleteWorkspace, SweepNamespace, SweepSkips
<1>6. ASSUME \/ SweepStart \/ SweepList \/ SweepEnd
             \/ InfraChanges \/ (\E p \in Ports : ResizePool(p)) \/ UNCHANGED vars
      PROVE  UNCHANGED tcp
    BY <1>6 DEF SweepStart, SweepList, SweepEnd, InfraChanges, ResizePool, vars
<1> QED BY <1>1, <1>2, <1>3, <1>4, <1>5, <1>6 DEF Next, EnsureRoutes, SweepOrphans

\* Spec => PortKept: with the sweeper, deletions and admins at work, a running
\* workspace that was not created in the middle of a sweep keeps every port
\* it holds, even when its listener leaves the Gateway and comes back.
THEOREM PortKeptHolds == Spec => PortKept
<1>1. TypeOK /\ SweepInv /\ [Next]_vars =>
        [\A w \in Workspaces, e \in TcpEndpoints :
            /\ wsd[w] = "running" /\ w \notin missed /\ tcp[w][e] # NoPort
            => tcp'[w][e] = tcp[w][e]]_vars
    BY StickyStep
<1> QED BY <1>1, TypeCorrect, SweepInvHolds, PTL DEF Spec, PortKept

(***************************************************************************)
(* Advertised ports                                                        *)
(***************************************************************************)
\* The inductive form of AdvertisedIsOwn: what a running workspace that no
\* sweep missed advertises, and what a pass over it is about to write, is held
\* by its own routes; a workspace that does not exist advertises nothing.
AdvertisedBy(w) ==
    /\ wsd[w] = "absent" => access[w] = NoEntries /\ pass.ws # w
    /\ wsd[w] = "running" /\ w \notin missed =>
          \A e \in TcpEndpoints :
              /\ access[w][e] # NoPort => tcp[w][e] = access[w][e]
              /\ pass.ws = w /\ pass.entries[e] # NoPort => tcp[w][e] = pass.entries[e]

Advertised == \A w \in Workspaces : AdvertisedBy(w)

\* It survives every step that keeps the ports of running workspaces and
\* touches neither the object, nor its status, nor the pass.
LEMMA AdvertisedUnchanged ==
    ASSUME NEW w \in Workspaces, AdvertisedBy(w),
           wsd'[w] = wsd[w], access'[w] = access[w], pass' = pass, missed' = missed,
           \A e \in TcpEndpoints :
               wsd[w] = "running" /\ w \notin missed /\ tcp[w][e] # NoPort =>
                   tcp'[w][e] = tcp[w][e]
    PROVE  AdvertisedBy(w)'
BY DEF AdvertisedBy

\* An EnsureTCPRoute step adds to the pass the port it just attached, or none.
LEMMA EnsureTCPRouteAdvertised ==
    ASSUME TypeOK, NEW x \in Workspaces, EnsureTCPRoute(x),
           NEW w \in Workspaces, AdvertisedBy(w),
           \A e \in TcpEndpoints :
               wsd[w] = "running" /\ w \notin missed /\ tcp[w][e] # NoPort =>
                   tcp'[w][e] = tcp[w][e]
    PROVE  AdvertisedBy(w)'
<1> DEFINE d == Endpoints[pass.next].name
<1>1. d \in TcpEndpoints
    BY TcpEndpointInPass DEF EnsureTCPRoute
<1>2. PICK p \in AllocatedPort(x, d) :
          /\ tcp' = [tcp EXCEPT ![x][d] = p]
          /\ pass' = [pass EXCEPT !.next = @ + 1,
                         !.entries[d] = IF p \in pass.pool THEN p ELSE NoPort]
    BY DEF EnsureTCPRoute
<1> HIDE DEF d
<1>3. UNCHANGED <<wsd, access, missed>> /\ pass.ws = x
    BY DEF EnsureTCPRoute, InPass
<1>4. /\ pass'.ws = pass.ws
      /\ \A e \in TcpEndpoints :
            pass'.entries[e] = IF e = d THEN IF p \in pass.pool THEN p ELSE NoPort
                               ELSE pass.entries[e]
    BY <1>1, <1>2 DEF TypeOK, Entries
<1>5. tcp'[x][d] = p
    BY <1>1, <1>2 DEF TypeOK, Entries
<1>6. CASE w # x
    BY <1>3, <1>4, <1>6 DEF AdvertisedBy
<1>7. CASE w = x
  <2>1. ASSUME NEW e \in TcpEndpoints, wsd[w] = "running", w \notin missed
        PROVE  /\ access[w][e] # NoPort => tcp'[w][e] = access[w][e]
               /\ pass'.entries[e] # NoPort => tcp'[w][e] = pass'.entries[e]
      BY <1>3, <1>4, <1>5, <1>7, <2>1 DEF AdvertisedBy
  <2> QED BY <1>3, <1>4, <1>7, <2>1 DEF AdvertisedBy
<1> QED BY <1>6, <1>7

\* Advertised is inductive.
LEMMA AdvertisedStep ==
    ASSUME TypeOK, SweepInv, Advertised, [Next]_vars
    PROVE  Advertised'
<1> SUFFICES ASSUME NEW w \in Workspaces PROVE AdvertisedBy(w)'
    BY DEF Advertised
<1> USE DEF regionalVars
<1>1. AdvertisedBy(w)
    BY DEF Advertised
<1>2. \A e \in TcpEndpoints :
         wsd[w] = "running" /\ w \notin missed /\ tcp[w][e] # NoPort => tcp'[w][e] = tcp[w][e]
    BY StickyStep
<1>3. w # NoWorkspace /\ Idle.ws = NoWorkspace /\ \A e \in TcpEndpoints : Idle.entries[e] = NoPort
    BY RoutingAssumption DEF Idle, NoEntries
<1>4. CASE UNCHANGED <<wsd, access, pass, missed>>
    BY <1>1, <1>2, <1>4, AdvertisedUnchanged
<1>5. ASSUME NEW x \in Workspaces, EnsureTCPRoute(x) PROVE AdvertisedBy(w)'
    BY <1>1, <1>2, <1>5, EnsureTCPRouteAdvertised
<1>6. ASSUME NEW x \in Workspaces, EnsureMirrorNamespace(x) PROVE AdvertisedBy(w)'
  <2>1. /\ UNCHANGED <<wsd, access, tcp, missed>> /\ wsd[x] = "running"
        /\ pass' = [Idle EXCEPT !.ws = x, !.pool = pool]
      BY <1>6 DEF EnsureMirrorNamespace
  <2>2. pass'.ws = x /\ pass'.entries = NoEntries
      BY <2>1 DEF Idle
  <2> QED BY <1>1, <2>1, <2>2 DEF AdvertisedBy, NoEntries
<1>7. ASSUME NEW x \in Workspaces, EnsureHTTPRoute(x) PROVE AdvertisedBy(w)'
  <2>1. UNCHANGED <<wsd, access, tcp, missed>> /\ pass'.ws = pass.ws /\ pass'.entries = pass.entries
      BY <1>7 DEF EnsureHTTPRoute, TypeOK
  <2> QED BY <1>1, <2>1 DEF AdvertisedBy
<1>8. ASSUME NEW x \in Workspaces, EnsureFails(x) PROVE AdvertisedBy(w)'
  <2>1. UNCHANGED <<wsd, access, tcp, missed>> /\ pass' = Idle
      BY <1>8 DEF EnsureFails
  <2> QED BY <1>1, <1>3, <2>1 DEF AdvertisedBy
<1>9. ASSUME NEW x \in Workspaces, WriteAccess(x) PROVE AdvertisedBy(w)'
  <2>1. /\ UNCHANGED <<wsd, tcp, missed>> /\ pass' = Idle /\ pass.ws = x
        /\ access' = IF wsd[x] = "running" THEN [access EXCEPT ![x] = pass.entries] ELSE access
      BY <1>9 DEF WriteAccess
  <2>2. access'[w] = access[w] \/ (w = x /\ wsd[w] = "running" /\ access'[w] = pass.entries)
      BY <2>1 DEF TypeOK
  <2> QED BY <1>1, <1>3, <2>1, <2>2 DEF AdvertisedBy
<1>10. ASSUME NEW x \in Workspaces, CleanupRoutes(x) \/ CleanupSkipped(x) PROVE AdvertisedBy(w)'
  <2>1. /\ pass = Idle /\ pass' = pass /\ missed' = missed
        /\ wsd[x] = "deleting"
        /\ \/ UNCHANGED <<wsd, access>>
           \/ /\ wsd' = [wsd EXCEPT ![x] = "absent"]
              /\ access' = [access EXCEPT ![x] = NoEntries]
      BY <1>10 DEF CleanupRoutes, CleanupSkipped
  <2>2. CASE UNCHANGED <<wsd, access>>
      BY <1>4, <2>1, <2>2
  <2>3. CASE /\ wsd' = [wsd EXCEPT ![x] = "absent"]
             /\ access' = [access EXCEPT ![x] = NoEntries]
    <3>1. CASE w = x
      <4>1. wsd'[w] = "absent" /\ access'[w] = NoEntries
          BY <2>3, <3>1 DEF TypeOK
      <4> QED BY <1>3, <2>1, <4>1 DEF AdvertisedBy
    <3>2. CASE w # x
      <4>1. wsd'[w] = wsd[w] /\ access'[w] = access[w]
          BY <2>3, <3>2 DEF TypeOK
      <4> QED BY <1>1, <1>2, <2>1, <4>1, AdvertisedUnchanged
    <3> QED BY <3>1, <3>2
  <2> QED BY <2>1, <2>2, <2>3
<1>11. ASSUME NEW x \in Workspaces, BecomesRunning(x) PROVE AdvertisedBy(w)'
  <2>1. UNCHANGED <<access, tcp, pass>> /\ wsd[x] = "absent" /\ wsd' = [wsd EXCEPT ![x] = "running"]
      BY <1>11 DEF BecomesRunning
  <2>2. wsd'[w] = IF w = x THEN "running" ELSE wsd[w]
      BY <2>1 DEF TypeOK
  <2>3. w # x => (w \in missed <=> w \in missed')
      BY <1>11 DEF BecomesRunning
  <2> QED BY <1>1, <2>1, <2>2, <2>3 DEF AdvertisedBy, NoEntries
<1>12. ASSUME NEW x \in Workspaces, DeleteWorkspace(x) PROVE AdvertisedBy(w)'
  <2>1. UNCHANGED <<access, tcp, pass, missed>> /\ wsd' = [wsd EXCEPT ![x] = "deleting"]
      BY <1>12 DEF DeleteWorkspace
  <2>2. wsd'[w] = IF w = x THEN "deleting" ELSE wsd[w]
      BY <2>1 DEF TypeOK
  <2> QED BY <1>1, <2>1, <2>2 DEF AdvertisedBy
<1>13. ASSUME SweepOrphans PROVE UNCHANGED <<wsd, access, pass, missed>>
    BY <1>13 DEF SweepOrphans, SweepStart, SweepList, SweepEnd, SweepRoutes, SweepNamespace, SweepSkips
<1>14. ASSUME \/ InfraChanges \/ (\E p \in Ports : ResizePool(p)) \/ UNCHANGED vars
              \/ \E x \in Workspaces : MirrorTerminated(x)
       PROVE  UNCHANGED <<wsd, access, pass, missed>>
    BY <1>14 DEF InfraChanges, ResizePool, MirrorTerminated, vars
<1> QED
    BY <1>4, <1>5, <1>6, <1>7, <1>8, <1>9, <1>10, <1>11, <1>12, <1>13, <1>14 DEF Next, EnsureRoutes

\* Spec => []AdvertisedIsOwn: with the sweeper, deletions and admins at work,
\* no running workspace advertises a port that leads to another endpoint,
\* unless it was created in the middle of a sweep.
THEOREM AdvertisedIsOwnHolds == Spec => []AdvertisedIsOwn
<1>1. Init => Advertised
    BY RoutingAssumption DEF Init, Advertised, AdvertisedBy, Idle
<1>2. TypeOK /\ SweepInv /\ Advertised /\ [Next]_vars => Advertised'
    BY AdvertisedStep
<1>3. PortExclusive /\ Advertised => AdvertisedIsOwn
    BY DEF PortExclusive, Advertised, AdvertisedBy, AdvertisedIsOwn
<1> QED
    BY <1>1, <1>2, <1>3, TypeCorrect, SweepInvHolds, PortExclusiveHolds, PTL DEF Spec

(***************************************************************************)
(* The routes implement the port pool                                      *)
(***************************************************************************)
\* Who holds port p in the allocation table t.
HolderIn(t, p) ==
    IF \E h \in TcpHolders : t[h[1]][h[2]] = p
    THEN CHOOSE h \in TcpHolders : t[h[1]][h[2]] = p
    ELSE Nobody

\* A table in which no two endpoints hold one port.
ExclusiveIn(t) ==
    \A v, w \in Workspaces, e, f \in TcpEndpoints :
        t[v][e] = t[w][f] /\ t[v][e] # NoPort => v = w /\ e = f

\* Nobody is not an endpoint.
LEMMA NobodyIsNoHolder == Nobody \notin TcpHolders
BY DEF TcpHolders, Nobody

\* In such a table the holder of a port is the endpoint that has it.
LEMMA HolderIsUnique ==
    ASSUME NEW t, ExclusiveIn(t), NEW p \in Ports, NEW h \in TcpHolders
    PROVE  HolderIn(t, p) = h <=> t[h[1]][h[2]] = p
<1>1. p # NoPort
    BY RoutingAssumption DEF NoPort
<1>2. h # Nobody
    BY DEF TcpHolders, Nobody
<1>3. ASSUME t[h[1]][h[2]] = p PROVE HolderIn(t, p) = h
  <2> DEFINE g == CHOOSE k \in TcpHolders : t[k[1]][k[2]] = p
  <2>1. g \in TcpHolders /\ t[g[1]][g[2]] = p
      BY <1>3
  <2>2. HolderIn(t, p) = g
      BY <1>3 DEF HolderIn
  <2> HIDE DEF g
  <2>3. g[1] = h[1] /\ g[2] = h[2]
      BY <1>1, <1>3, <2>1 DEF ExclusiveIn, TcpHolders
  <2> QED BY <2>1, <2>2, <2>3 DEF TcpHolders
<1>4. ASSUME HolderIn(t, p) = h PROVE t[h[1]][h[2]] = p
    BY <1>2, <1>4 DEF HolderIn
<1> QED BY <1>3, <1>4

\* A port nobody has is held by Nobody.
LEMMA HolderIsNobody ==
    ASSUME NEW t, NEW p
    PROVE  HolderIn(t, p) = Nobody <=> \A h \in TcpHolders : t[h[1]][h[2]] # p
<1>1. Nobody \notin TcpHolders
    BY DEF TcpHolders, Nobody
<1> QED BY <1>1 DEF HolderIn

\* The holder of a port is an endpoint or Nobody.
LEMMA HolderType ==
    ASSUME NEW t, NEW p
    PROVE  HolderIn(t, p) \in TcpHolders \cup {Nobody}
BY DEF HolderIn

\* The holder of p depends only on who has p.
LEMMA HolderSame ==
    ASSUME NEW t, NEW u, ExclusiveIn(t), ExclusiveIn(u), NEW p \in Ports,
           \A h \in TcpHolders : t[h[1]][h[2]] = p <=> u[h[1]][h[2]] = p
    PROVE  HolderIn(u, p) = HolderIn(t, p)
<1>1. CASE HolderIn(t, p) = Nobody
    BY <1>1, HolderIsNobody
<1>2. CASE HolderIn(t, p) \in TcpHolders
    BY <1>2, HolderIsUnique
<1> QED BY <1>1, <1>2, HolderType

\* The pool's variable, before and after a step.
LEMMA HolderNow ==
    ASSUME PortExclusive, PortExclusive'
    PROVE  /\ ExclusiveIn(tcp) /\ ExclusiveIn(tcp')
           /\ \A p : Holder(p) = HolderIn(tcp, p) /\ Holder(p)' = HolderIn(tcp', p)
<1>1. ExclusiveIn(tcp) /\ ExclusiveIn(tcp')
    BY DEF PortExclusive, ExclusiveIn
<1>2. ASSUME NEW p
      PROVE  Holder(p) = HolderIn(tcp, p) /\ Holder(p)' = HolderIn(tcp', p)
    BY DEF Holder, HolderIn
<1> QED BY <1>1, <1>2

\* Attaching a TCPRoute to a free listener acquires its port.
LEMMA EnsureTCPRouteAcquires ==
    ASSUME TypeOK, PortExclusive, PortExclusive', NEW x \in Workspaces, EnsureTCPRoute(x)
    PROVE  Lease!PoolNext \/ UNCHANGED [p \in Ports |-> Holder(p)]
<1> DEFINE d == Endpoints[pass.next].name
           h == <<x, d>>
<1>1. d \in TcpEndpoints
    BY TcpEndpointInPass DEF EnsureTCPRoute
<1>2. PICK p \in AllocatedPort(x, d) : tcp' = [tcp EXCEPT ![x][d] = p]
    BY DEF EnsureTCPRoute
<1> HIDE DEF d
<1>3. CASE p = tcp[x][d]
  <2>1. tcp' = tcp
      BY <1>1, <1>2, <1>3 DEF TypeOK, Entries
  <2> QED BY <2>1, HolderNow
<1>4. CASE tcp[x][d] = NoPort /\ p \in pass.pool /\ p \notin Allocated
  <2>1. p \in Ports /\ p # NoPort /\ h \in TcpHolders /\ h[1] = x /\ h[2] = d
      BY <1>1, <1>4, RoutingAssumption DEF TypeOK, NoPort, TcpHolders
  <2>2. \A k \in TcpHolders : tcp'[k[1]][k[2]] = IF k = h THEN p ELSE tcp[k[1]][k[2]]
      BY <1>1, <1>2 DEF TypeOK, Entries, TcpHolders
  <2>3. \A k \in TcpHolders : tcp[k[1]][k[2]] # p
      BY <1>4, <2>1 DEF Allocated, TcpHolders
  <2> HIDE DEF h
  <2>4. Holder(p) = Nobody
      BY <2>3, HolderNow, HolderIsNobody
  <2>5. \A q \in Ports : Holder(q) # h
    <3>1. \A q \in Ports : q # NoPort
        BY RoutingAssumption DEF NoPort
    <3> QED BY <1>4, <2>1, <3>1, HolderNow, HolderIsUnique
  <2>6. Holder(p)' = h
      BY <2>1, <2>2, HolderNow, HolderIsUnique
  <2>7. ASSUME NEW q \in Ports, q # p PROVE Holder(q)' = Holder(q)
    <3>1. \A k \in TcpHolders : tcp[k[1]][k[2]] = q <=> tcp'[k[1]][k[2]] = q
      <4>1. \A q2 \in Ports : q2 # NoPort
          BY RoutingAssumption DEF NoPort
      <4> QED BY <1>4, <2>1, <2>2, <2>7, <4>1
    <3> QED BY <3>1, HolderNow, HolderSame
  <2>8. [q \in Ports |-> Holder(q)]' = [[q \in Ports |-> Holder(q)] EXCEPT ![p] = h]
      BY <2>1, <2>6, <2>7
  <2>9. Lease!Acquire(p, h)
      BY <2>1, <2>4, <2>5, <2>8 DEF Lease!Acquire
  <2> QED BY <2>1, <2>9 DEF Lease!PoolNext
<1> QED BY <1>1, <1>3, <1>4, AllocatedPortIsOwnOrFree

\* Removing the TCPRoutes of a workspace releases all of its ports.
LEMMA FreedPortsRelease ==
    ASSUME TypeOK, PortExclusive, PortExclusive', NEW w \in Workspaces,
           tcp' = [tcp EXCEPT ![w] = NoEntries]
    PROVE  Lease!PoolNext \/ UNCHANGED [p \in Ports |-> Holder(p)]
<1>1. \A k \in TcpHolders : tcp'[k[1]][k[2]] = IF k[1] = w THEN NoPort ELSE tcp[k[1]][k[2]]
    BY DEF TypeOK, Entries, NoEntries, TcpHolders
<1>2. \A p \in Ports : p # NoPort
    BY RoutingAssumption DEF NoPort
<1>3. CASE TcpHolders = {}
  <2>1. \A p \in Ports : Holder(p) = Nobody /\ Holder(p)' = Nobody
      BY <1>3, HolderNow, HolderIsNobody
  <2> QED BY <2>1
<1>4. CASE TcpHolders # {}
  <2>1. PICK e \in TcpEndpoints : TRUE
      BY <1>4 DEF TcpHolders
  <2>2. <<w, e>> \in TcpHolders /\ <<w, e>>[1] = w
      BY DEF TcpHolders
  <2>3. ExclusiveIn(tcp) /\ ExclusiveIn(tcp')
      BY HolderNow
  <2>4. \A p \in Ports : Holder(p)' = HolderIn(tcp', p)
      BY HolderNow
  <2>5. ASSUME NEW p \in Ports
        PROVE  Holder(p)' = IF Holder(p) # Nobody /\ Holder(p)[1] = w THEN Nobody ELSE Holder(p)
    <3>1. CASE Holder(p) = Nobody
      <4>1. \A k \in TcpHolders : tcp[k[1]][k[2]] # p
          BY <3>1, HolderNow, HolderIsNobody
      <4>2. \A k \in TcpHolders : tcp'[k[1]][k[2]] # p
          BY <1>1, <1>2, <4>1
      <4>3. HolderIn(tcp', p) = Nobody
          BY <4>2, HolderIsNobody
      <4> QED BY <2>4, <3>1, <4>3
    <3>2. CASE Holder(p) \in TcpHolders
      <4>1. ASSUME NEW k \in TcpHolders
            PROVE  tcp[k[1]][k[2]] = p <=> k = Holder(p)
        <5>1. HolderIn(tcp, p) = k <=> tcp[k[1]][k[2]] = p
            BY <2>3, HolderIsUnique
        <5>2. Holder(p) = HolderIn(tcp, p)
            BY HolderNow
        <5> QED BY <5>1, <5>2
      <4>2. Holder(p) # Nobody
          BY <3>2, NobodyIsNoHolder
      <4>3. CASE Holder(p)[1] = w
        <5>1. \A k \in TcpHolders : tcp'[k[1]][k[2]] # p
            BY <1>1, <1>2, <4>1, <4>3
        <5>2. HolderIn(tcp', p) = Nobody
            BY <5>1, HolderIsNobody
        <5> QED BY <2>4, <4>2, <4>3, <5>2
      <4>4. CASE Holder(p)[1] # w
        <5>1. tcp'[Holder(p)[1]][Holder(p)[2]] = p
            BY <1>1, <3>2, <4>1, <4>4
        <5>2. HolderIn(tcp', p) = Holder(p)
            BY <2>3, <3>2, <5>1, HolderIsUnique
        <5> QED BY <2>4, <4>4, <5>2
      <4> QED BY <4>3, <4>4
    <3> QED BY <3>1, <3>2, HolderNow, HolderType
  <2>6. [p \in Ports |-> Holder(p)]' =
           [p \in Ports |-> IF [q \in Ports |-> Holder(q)][p] # Nobody
                               /\ [q \in Ports |-> Holder(q)][p][1] = w
                            THEN Nobody ELSE [q \in Ports |-> Holder(q)][p]]
      BY <2>5
  <2>7. Lease!Release(w)
      BY <2>6 DEF Lease!Release
  <2>8. Lease!Release(<<w, e>>[1])
      BY <2>2, <2>7
  <2> QED BY <2>2, <2>8 DEF Lease!PoolNext
<1> QED BY <1>3, <1>4

\* Spec => ImplementsPool: for any number of workspaces, endpoints and ports,
\* with the sweeper running beside the reconciler, TCPRoutes implement the
\* port pool.  Attaching a route acquires, removing a workspace's routes
\* releases, and everything else leaves the holders alone.
THEOREM ImplementsPoolHolds == Spec => ImplementsPool
<1>1. Init => Lease!PoolInit
  <2> SUFFICES ASSUME Init PROVE Lease!PoolInit
    OBVIOUS
  <2>1. \A p \in Ports : p # NoPort
      BY RoutingAssumption DEF NoPort
  <2>2. \A h \in TcpHolders : tcp[h[1]][h[2]] = NoPort
      BY DEF Init, NoEntries, TcpHolders
  <2>3. \A p \in Ports : Holder(p) = Nobody
      BY <2>1, <2>2 DEF Holder
  <2> QED BY <2>3 DEF Lease!PoolInit
<1>2. /\ TypeOK /\ PortExclusive /\ PortExclusive' /\ [Next]_vars
      => [Lease!PoolNext]_([p \in Ports |-> Holder(p)])
  <2> SUFFICES ASSUME TypeOK, PortExclusive, PortExclusive', [Next]_vars
               PROVE  Lease!PoolNext \/ UNCHANGED [p \in Ports |-> Holder(p)]
    OBVIOUS
  <2> USE DEF regionalVars
  <2>1. CASE UNCHANGED tcp
    BY <2>1, HolderNow
  <2>2. ASSUME NEW w \in Workspaces, EnsureTCPRoute(w)
        PROVE  Lease!PoolNext \/ UNCHANGED [p \in Ports |-> Holder(p)]
    BY <2>2, EnsureTCPRouteAcquires
  <2>3. ASSUME NEW w \in Workspaces, CleanupRoutes(w) \/ SweepRoutes(w) \/ MirrorTerminated(w)
        PROVE  Lease!PoolNext \/ UNCHANGED [p \in Ports |-> Holder(p)]
    <3>1. tcp' = [tcp EXCEPT ![w] = NoEntries]
        BY <2>3 DEF CleanupRoutes, SweepRoutes, MirrorTerminated, FreedPorts
    <3> QED BY <3>1, FreedPortsRelease
  <2>4. ASSUME NEW w \in Workspaces,
               \/ EnsureMirrorNamespace(w) \/ EnsureHTTPRoute(w) \/ EnsureFails(w)
               \/ WriteAccess(w) \/ CleanupSkipped(w) \/ BecomesRunning(w)
               \/ DeleteWorkspace(w) \/ SweepNamespace(w) \/ SweepSkips(w)
        PROVE  UNCHANGED tcp
    BY <2>4 DEF EnsureMirrorNamespace, EnsureHTTPRoute, EnsureFails, WriteAccess,
                CleanupSkipped, BecomesRunning, DeleteWorkspace, SweepNamespace, SweepSkips
  <2>5. ASSUME \/ SweepStart \/ SweepList \/ SweepEnd \/ InfraChanges \/ UNCHANGED vars
               \/ \E p \in Ports : ResizePool(p)
        PROVE  UNCHANGED tcp
    BY <2>5 DEF SweepStart, SweepList, SweepEnd, InfraChanges, ResizePool, vars
  <2> QED BY <2>1, <2>2, <2>3, <2>4, <2>5 DEF Next, EnsureRoutes, SweepOrphans
<1> QED
    BY <1>1, <1>2, TypeCorrect, PortExclusiveHolds, PTL DEF Spec, ImplementsPool, Lease!PoolSpec

==============================================================================
