------------------------------- MODULE Routing -------------------------------
(***************************************************************************)
(* Workspace access on the regional cluster: the gatewayapi provider that  *)
(* materializes routes for Running workspaces and removes them on          *)
(* deletion, and the orphan sweeper that runs beside the reconciler.       *)
(*                                                                         *)
(* The reconciler has one worker, so passes do not overlap, but every pass *)
(* is a sequence of API calls and the sweeper, users and admins act        *)
(* between them.  The set of TCPRoutes is the port-allocation table.       *)
(* Listener sections are identified with their ports; hostnames, mirror    *)
(* Services and route acceptance are left out.                             *)
(***************************************************************************)
EXTENDS Naturals, Sequences, FiniteSets

CONSTANTS
    Workspaces,     \* workspace names
    Endpoints,      \* sequence of [name, tcp] records of the class
    Ports,          \* ports a TCP listener of the tenant Gateway can have
    Resizable,      \* the ports whose listeners the admin adds and removes
    NoWorkspace

ASSUME RoutingAssumption ==
    /\ Endpoints \in Seq([name : STRING, tcp : BOOLEAN])
    /\ Ports \subseteq Nat \ {0}
    /\ Resizable \subseteq Ports
    /\ NoWorkspace \notin Workspaces
    /\ Workspaces \cap {"asleep", "started", "listed"} = {}

NoPort == 0
TcpEndpoints == {Endpoints[i].name : i \in {j \in DOMAIN Endpoints : Endpoints[j].tcp}}
HttpEndpoints == {Endpoints[i].name : i \in {j \in DOMAIN Endpoints : ~Endpoints[j].tcp}}
Entries == [TcpEndpoints -> Ports \cup {NoPort}]
NoEntries == [e \in TcpEndpoints |-> NoPort]

VARIABLES
    wsd,        \* "absent", "running" or "deleting"
    access,     \* access[w][e]: the port status.access advertises
    mirror,     \* mirror namespace: "none", "active" or "terminating"
    http,       \* http[w]: endpoints with an HTTPRoute
    tcp,        \* tcp[w][e]: listener port the TCPRoute is attached to
    pool,       \* TCP listeners on the tenant Gateway
    infra,      \* regional cluster, Gateway and waypoints are usable
    pass,       \* EnsureRoutes call in progress: workspace, the listeners it read,
                \* next endpoint, entries so far
    sweep,      \* orphan sweep in progress: step, active names, namespaces to do
    missed      \* history: workspaces that came to be under a sweep whose list
                \* of active names lacks them

regionalVars == <<mirror, http, tcp>>
adminVars == <<pool, infra>>
vars == <<wsd, access, regionalVars, adminVars, pass, sweep, missed>>

Idle == [ws |-> NoWorkspace, pool |-> {}, next |-> 1, entries |-> NoEntries]
Asleep == [step |-> "asleep", active |-> {}, todo |-> {}]

(***************************************************************************)
(* EnsureRoutes                                                            *)
(***************************************************************************)
\* Ports held by any TCPRoute attached to the Gateway (allocatedSections).
Allocated == {tcp[w][e] : w \in Workspaces, e \in TcpEndpoints} \ {NoPort}

\* Mutant: only the workspace's own routes count.
FreePortsOfOne == pass.pool \ {tcp[pass.ws][e] : e \in TcpEndpoints}

\* Free listeners among those the pass read (tcpListeners).
FreePorts == pass.pool \ Allocated

LowestFree == {p \in FreePorts : \A q \in FreePorts : p <= q}

\* Mutant: a route whose listener vanished is attached to another one.
AllocatedPortOrMove(w, e) ==
    IF tcp[w][e] \in pass.pool \/ FreePorts = {} THEN {tcp[w][e]} ELSE LowestFree

\* Mutant: the port after the last one handed out.
AllocatedPortNext(w, e) ==
    IF tcp[w][e] # NoPort THEN {tcp[w][e]}
    ELSE {p + 1 : p \in {q \in Allocated \cup {0} : \A r \in Allocated : r <= q}}

\* ensureTCPRoute: the allocation is sticky; a new route takes the lowest
\* free port, and none when the pool is empty or exhausted.
AllocatedPort(w, e) ==
    IF tcp[w][e] # NoPort \/ FreePorts = {} THEN {tcp[w][e]} ELSE LowestFree

\* A pass reaches EnsureRoutes for a Running workspace; the Gateway is read
\* once, and a mirror namespace that is terminating ends the pass.
EnsureMirrorNamespace(w) ==
    /\ pass = Idle /\ wsd[w] = "running" /\ infra
    /\ mirror[w] # "terminating"
    /\ mirror' = [mirror EXCEPT ![w] = "active"]
    /\ pass' = [Idle EXCEPT !.ws = w, !.pool = pool]
    /\ UNCHANGED <<wsd, access, http, tcp, adminVars, sweep, missed>>

InPass(w) == pass.ws = w /\ pass.next <= Len(Endpoints)

\* Objects are created in an active namespace; those of a terminating one
\* can still be there.
CanEnsure(w, exists) ==
    /\ infra
    /\ mirror[w] = "active" \/ (mirror[w] = "terminating" /\ exists)

EnsureHTTPRoute(w) ==
    /\ InPass(w) /\ ~Endpoints[pass.next].tcp
    /\ CanEnsure(w, Endpoints[pass.next].name \in http[w])
    /\ http' = [http EXCEPT ![w] = @ \cup {Endpoints[pass.next].name}]
    /\ pass' = [pass EXCEPT !.next = @ + 1]
    /\ UNCHANGED <<wsd, access, mirror, tcp, adminVars, sweep, missed>>

\* A held listener that left the Gateway is reported without a URL.
EnsureTCPRoute(w) ==
    /\ InPass(w) /\ Endpoints[pass.next].tcp
    /\ LET e == Endpoints[pass.next].name
       IN  \E p \in AllocatedPort(w, e) :
              /\ CanEnsure(w, p = tcp[w][e])
              /\ tcp' = [tcp EXCEPT ![w][e] = p]
              /\ pass' = [pass EXCEPT !.next = @ + 1,
                             !.entries[e] = IF p \in pass.pool THEN p ELSE NoPort]
    /\ UNCHANGED <<wsd, access, mirror, http, adminVars, sweep, missed>>

\* A call fails: a cluster is out of reach, or the namespace is going away
\* under the pass.
EnsureFails(w) ==
    /\ InPass(w)
    /\ mirror[w] # "active" \/ ~infra
    /\ pass' = Idle
    /\ UNCHANGED <<wsd, access, regionalVars, adminVars, sweep, missed>>

\* Mutant: only the first result is written.
WriteAccessOnce(w) ==
    /\ pass.ws = w /\ pass.next > Len(Endpoints)
    /\ access' = IF wsd[w] = "running" /\ access[w] = NoEntries
                 THEN [access EXCEPT ![w] = pass.entries] ELSE access
    /\ pass' = Idle
    /\ UNCHANGED <<wsd, regionalVars, adminVars, sweep, missed>>

\* The entries are written to status.access; the write conflicts when the
\* object changed since the pass read it.
WriteAccess(w) ==
    /\ pass.ws = w /\ pass.next > Len(Endpoints)
    /\ access' = IF wsd[w] = "running" THEN [access EXCEPT ![w] = pass.entries] ELSE access
    /\ pass' = Idle
    /\ UNCHANGED <<wsd, regionalVars, adminVars, sweep, missed>>

(***************************************************************************)
(* CleanupRoutes                                                           *)
(***************************************************************************)
Terminate(w) == [mirror EXCEPT ![w] = IF @ = "active" THEN "terminating" ELSE @]

FreedPorts(w) == [tcp EXCEPT ![w] = NoEntries]

\* TCPRoutes go first, since namespace termination can lag; the mirror
\* namespace follows, or its deletion fails and is retried.  The deletion
\* then proceeds and may finish in the same pass.
CleanupRoutes(w) ==
    /\ pass = Idle /\ wsd[w] = "deleting" /\ infra
    /\ tcp' = FreedPorts(w)
    /\ \/ mirror' = mirror /\ UNCHANGED <<wsd, access>>
       \/ mirror' = Terminate(w) /\ UNCHANGED <<wsd, access>>
       \/ /\ mirror' = Terminate(w)
          /\ wsd' = [wsd EXCEPT ![w] = "absent"]
          /\ access' = [access EXCEPT ![w] = NoEntries]
    /\ UNCHANGED <<http, adminVars, pass, sweep, missed>>

\* Skipped (ClusterDeployment or regional parent gone) or abandoned past the
\* grace period: the routes outlive the workspace.
CleanupSkipped(w) ==
    /\ pass = Idle /\ wsd[w] = "deleting"
    /\ wsd' = [wsd EXCEPT ![w] = "absent"]
    /\ access' = [access EXCEPT ![w] = NoEntries]
    /\ UNCHANGED <<regionalVars, adminVars, pass, sweep, missed>>

(***************************************************************************)
(* The orphan sweeper                                                      *)
(***************************************************************************)
\* sweepOnce lists the WorkspaceDeployments first ...
SweepStart ==
    /\ sweep = Asleep
    /\ sweep' = [step |-> "started", active |-> {w \in Workspaces : wsd[w] # "absent"},
                 todo |-> {}]
    /\ UNCHANGED <<wsd, access, regionalVars, adminVars, pass, missed>>

\* Mutant: every labelled namespace is taken for an orphan's.
SweepListAll ==
    /\ sweep.step = "started"
    /\ sweep' = IF infra
                THEN [sweep EXCEPT !.step = "listed",
                         !.todo = {w \in Workspaces : mirror[w] = "active"}]
                ELSE Asleep
    /\ UNCHANGED <<wsd, access, regionalVars, adminVars, pass, missed>>

\* ... then the labelled namespaces of the regional cluster, keeping those
\* of no active workspace.  An unreachable cluster is skipped.
SweepList ==
    /\ sweep.step = "started"
    /\ sweep' = IF infra
                THEN [sweep EXCEPT !.step = "listed",
                         !.todo = {w \in Workspaces \ sweep.active : mirror[w] = "active"}]
                ELSE Asleep
    /\ UNCHANGED <<wsd, access, regionalVars, adminVars, pass, missed>>

\* For each: the TCPRoutes go first ...
SweepRoutes(w) ==
    /\ sweep.step = "listed" /\ w \in sweep.todo /\ infra
    /\ tcp' = FreedPorts(w)
    /\ sweep' = [sweep EXCEPT !.step = w]
    /\ UNCHANGED <<wsd, access, mirror, http, adminVars, pass, missed>>

\* Mutant: the namespace stays.
SweepNamespaceKept(w) ==
    /\ w \in sweep.todo /\ sweep.step = w /\ infra
    /\ sweep' = [sweep EXCEPT !.step = "listed", !.todo = @ \ {w}]
    /\ UNCHANGED <<wsd, access, regionalVars, adminVars, pass, missed>>

\* ... then the namespace, by name.
SweepNamespace(w) ==
    /\ w \in sweep.todo /\ sweep.step = w /\ infra
    /\ mirror' = Terminate(w)
    /\ sweep' = [sweep EXCEPT !.step = "listed", !.todo = @ \ {w}]
    /\ UNCHANGED <<wsd, access, http, tcp, adminVars, pass, missed>>

\* A failed call is logged and its namespace left to the next sweep.
SweepSkips(w) ==
    /\ w \in sweep.todo /\ sweep.step \in {"listed", w} /\ ~infra
    /\ sweep' = [sweep EXCEPT !.step = "listed", !.todo = @ \ {w}]
    /\ UNCHANGED <<wsd, access, regionalVars, adminVars, pass, missed>>

SweepEnd ==
    /\ sweep.step = "listed" /\ sweep.todo = {}
    /\ sweep' = Asleep
    /\ UNCHANGED <<wsd, access, regionalVars, adminVars, pass, missed>>

(***************************************************************************)
(* Users, admins and the regional cluster                                  *)
(***************************************************************************)
\* A sweep is under way that listed the workspaces before w was there.
Unlisted(w) == sweep # Asleep /\ w \notin sweep.active

\* A workspace is created and brought to Running in one step.  A name that
\* comes to be under a sweep that does not list it, or in the namespace that
\* such a sweep left terminating, is missed by the sweeper.
BecomesRunning(w) ==
    /\ wsd[w] = "absent"
    /\ wsd' = [wsd EXCEPT ![w] = "running"]
    /\ missed' = IF Unlisted(w) THEN missed \cup {w}
                 ELSE IF mirror[w] = "terminating" THEN missed ELSE missed \ {w}
    /\ UNCHANGED <<access, regionalVars, adminVars, pass, sweep>>

DeleteWorkspace(w) ==
    /\ wsd[w] = "running"
    /\ wsd' = [wsd EXCEPT ![w] = "deleting"]
    /\ UNCHANGED <<access, regionalVars, adminVars, pass, sweep, missed>>

MirrorTerminated(w) ==
    /\ mirror[w] = "terminating"
    /\ mirror' = [mirror EXCEPT ![w] = "none"]
    /\ http' = [http EXCEPT ![w] = {}]
    /\ tcp' = [tcp EXCEPT ![w] = NoEntries]
    /\ UNCHANGED <<wsd, access, adminVars, pass, sweep, missed>>

\* The admin adds or removes a TCP listener.
ResizePool(p) ==
    /\ p \in Resizable
    /\ pool' = IF p \in pool THEN pool \ {p} ELSE pool \cup {p}
    /\ UNCHANGED <<wsd, access, regionalVars, infra, pass, sweep, missed>>

InfraChanges ==
    /\ infra' = ~infra
    /\ UNCHANGED <<wsd, access, regionalVars, pool, pass, sweep, missed>>

(***************************************************************************)
(* Specification                                                           *)
(***************************************************************************)
Init ==
    /\ wsd = [w \in Workspaces |-> "absent"]
    /\ access = [w \in Workspaces |-> NoEntries]
    /\ mirror = [w \in Workspaces |-> "none"]
    /\ http = [w \in Workspaces |-> {}]
    /\ tcp = [w \in Workspaces |-> NoEntries]
    /\ pool = Ports
    /\ infra = TRUE
    /\ pass = Idle
    /\ sweep = Asleep
    /\ missed = {}

EnsureRoutes(w) ==
    \/ EnsureMirrorNamespace(w) \/ EnsureHTTPRoute(w) \/ EnsureTCPRoute(w)
    \/ EnsureFails(w) \/ WriteAccess(w)

SweepOrphans ==
    \/ SweepStart \/ SweepList \/ SweepEnd
    \/ \E w \in Workspaces : SweepRoutes(w) \/ SweepNamespace(w) \/ SweepSkips(w)

Next ==
    \/ \E w \in Workspaces :
          \/ EnsureRoutes(w)
          \/ CleanupRoutes(w) \/ CleanupSkipped(w)
          \/ BecomesRunning(w) \/ DeleteWorkspace(w)
          \/ MirrorTerminated(w)
    \/ SweepOrphans
    \/ \E p \in Ports : ResizePool(p)
    \/ InfraChanges

Spec == Init /\ [][Next]_vars

\* Running workspaces are reconciled again and again, a deletion is retried,
\* the sweeper ticks, and a terminating namespace is eventually gone.
Fairness ==
    /\ \A w \in Workspaces :
          /\ SF_vars(EnsureMirrorNamespace(w))
          /\ WF_vars(EnsureRoutes(w))
          /\ WF_vars(MirrorTerminated(w))
          /\ SF_vars(CleanupRoutes(w))
    /\ WF_vars(SweepOrphans)

FairSpec == Spec /\ Fairness

(***************************************************************************)
(* Properties                                                              *)
(***************************************************************************)
\* Every variable keeps its type.
TypeOK ==
    /\ wsd \in [Workspaces -> {"absent", "running", "deleting"}]
    /\ access \in [Workspaces -> Entries]
    /\ mirror \in [Workspaces -> {"none", "active", "terminating"}]
    /\ http \in [Workspaces -> SUBSET HttpEndpoints]
    /\ tcp \in [Workspaces -> Entries]
    /\ pool \subseteq Ports
    /\ infra \in BOOLEAN
    /\ pass \in [ws : Workspaces \cup {NoWorkspace}, pool : SUBSET Ports,
                 next : 1 .. Len(Endpoints) + 1, entries : Entries]
    /\ sweep \in [step : {"asleep", "started", "listed"} \cup Workspaces,
                  active : SUBSET Workspaces, todo : SUBSET Workspaces]
    /\ missed \subseteq Workspaces

\* No two endpoints ever hold the same pool port, whatever the sweeper, the
\* admin and deletions do in between.
PortExclusive ==
    \A v, w \in Workspaces, e, f \in TcpEndpoints :
        tcp[v][e] = tcp[w][f] /\ tcp[v][e] # NoPort => v = w /\ e = f

\* A Running workspace never advertises a port that leads to somebody else's
\* endpoint, unless it was created in the middle of a sweep: then its routes
\* go with its predecessor's, and status.access is stale until the next pass.
AdvertisedIsOwn ==
    \A v, w \in Workspaces, e, f \in TcpEndpoints :
        /\ wsd[w] = "running" /\ w \notin missed
        /\ access[w][e] # NoPort /\ tcp[v][f] = access[w][e]
        => v = w /\ f = e

\* A Running workspace keeps every port it holds, also when the listener
\* leaves the Gateway and comes back and whatever sweeps run beside it, unless
\* it was created in the middle of a sweep.
PortKept ==
    [][\A w \in Workspaces, e \in TcpEndpoints :
          /\ wsd[w] = "running" /\ w \notin missed /\ tcp[w][e] # NoPort
          => tcp'[w][e] = tcp[w][e]]_vars

\* What the code says of every workspace: a port stays with its workspace for
\* the workspace's lifetime (ensureTCPRoute), and a sweep never removes live
\* routes (sweepOnce).
PortSticky ==
    [][\A w \in Workspaces, e \in TcpEndpoints :
          wsd[w] = "running" /\ tcp[w][e] # NoPort => tcp'[w][e] = tcp[w][e]]_vars

\* The routes refine the abstract pool.
TcpHolders == Workspaces \X TcpEndpoints
Nobody == <<>>

Holder(p) ==
    IF \E h \in TcpHolders : tcp[h[1]][h[2]] = p
    THEN CHOOSE h \in TcpHolders : tcp[h[1]][h[2]] = p
    ELSE Nobody

Lease == INSTANCE PortPool WITH
    Holders <- TcpHolders,
    Owner <- LAMBDA h : h[1],
    holder <- [p \in Ports |-> Holder(p)]

\* TCPRoutes implement the pool: one holder per port, one port per endpoint,
\* no port changes hands without being released.
ImplementsPool == Lease!PoolSpec

\* Routes left behind by a skipped or abandoned cleanup are reclaimed, and
\* their ports return to the pool, once the regional cluster stays reachable.
OrphansReclaimed ==
    <>[]infra => \A w \in Workspaces :
        wsd[w] = "absent" ~> wsd[w] # "absent" \/ (mirror[w] # "active" /\ tcp[w] = NoEntries)

\* A Running workspace that stays gets a port for every SSH/TCP endpoint and
\* keeps it, when the pool is large enough, even if the sweeper took its
\* routes for orphans once.
EventuallyRouted ==
    \A w \in Workspaces :
        <>[](infra /\ pool = Ports /\ wsd[w] = "running") =>
            <>[](\A e \in TcpEndpoints : access[w][e] # NoPort /\ access[w][e] = tcp[w][e])
==============================================================================
