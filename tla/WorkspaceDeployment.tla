------------------------- MODULE WorkspaceDeployment -------------------------
(***************************************************************************)
(* The WorkspaceDeployment controller and what it drives: the management   *)
(* API objects (WorkspaceDeployment, ServiceSet), the child cluster        *)
(* (workspace namespace, Helm release), the regional cluster (routes), and *)
(* the actors around them (users, k0rdent/Sveltos, kube-scheduler).        *)
(*                                                                         *)
(* One reconcile pass is one step: the controller runs with a single       *)
(* worker, so passes never interleave with each other, and every early     *)
(* return of Reconcile is an action of its own.  A pass may still be cut   *)
(* short: its API writes can be lost (parameter ok = FALSE) while the      *)
(* objects it created before stay behind.                                  *)
(*                                                                         *)
(* All workspaces target one ClusterDeployment; names and Helm values are  *)
(* left out, and the resources merged from class and user are the          *)
(* constants Selector and Demand.                                          *)
(***************************************************************************)
EXTENDS Naturals, Sequences, FiniteSetsExt

CONSTANTS
    Workspaces,     \* names of WorkspaceDeployments
    Classes,        \* names of WorkspaceClasses
    ClassOf,        \* ClassOf[w]: spec.workspaceClassRef
    Templates,      \* ServiceTemplates that classes name as prerequisites
    Prereqs,        \* Prereqs[c]: sequence of [tmpl, ns, versioned, object] records
    ColonyNs,       \* ColonyNs[t]: namespace of a colony-managed service
    Selectors,      \* GPU selectors (node-label requirements)
    NoSelector,     \* an empty selector: no GPU requested
    Selector,       \* Selector[w]: the resolved GPU selector
    Demand,         \* Demand[w]: replicas times GPUs per replica
    Total,          \* Total[s]: GPUs on the nodes matching s once they all joined
    Routed,         \* classes that declare access endpoints
    RouteProvider,  \* TRUE: a routing provider is registered
    Faults          \* which environment faults can happen

FaultKinds == {"write", "ssapi", "class", "cd", "child", "secret", "regional",
               "suspend", "prereq", "colony", "helm", "values", "nodes"}

ASSUME PrereqAssumption ==
    /\ ClassOf \in [Workspaces -> Classes]
    /\ \A c \in Classes :
          Prereqs[c] \in Seq([tmpl : Templates, ns : STRING,
                              versioned : BOOLEAN, object : BOOLEAN])
ASSUME GpuAssumption ==
    /\ NoSelector \notin Selectors
    /\ Selector \in [Workspaces -> Selectors \cup {NoSelector}]
    /\ Demand \in [Workspaces -> Nat]
    /\ Total \in [Selectors -> Nat]
ASSUME ConfigAssumption ==
    Routed \subseteq Classes /\ RouteProvider \in BOOLEAN /\ Faults \subseteq FaultKinds

VARIABLES
    \* WorkspaceDeployment objects
    obj,        \* "absent", "live" or "deleting" (deletionTimestamp set)
    older,      \* older[w]: the existing workspaces created before w
    fin,        \* the operator's finalizer is on the object
    suspend,    \* spec.suspend
    grace,      \* the deletion is older than remoteCleanupGracePeriod
    phase,      \* status.phase, "None" before the first write
    failCtx,    \* status.failureContext
    ready,      \* the Ready condition is True
    \* ServiceSets and Helm releases
    ss,         \* workspace ServiceSet: "none", "new", "live", "deleting"
    ssState,    \* state of its service entry
    rel,        \* Helm release: "none", "pending" or "scheduled" (pods hold GPUs)
    \* child and regional clusters
    ns,         \* workspace namespace: "none", "active", "terminating"
    routes,     \* route objects exist on the regional cluster
    gaveUp,     \* cleanup steps the deletion of w abandoned or skipped
    \* shared
    class,      \* class[c]: the WorkspaceClass exists
    cd,         \* ClusterDeployment: "absent", "live" or "deleting"
    child,      \* child API: "nosecret", "down" or "up"
    regional,   \* regional cluster: "up", "down" or "gone" (unresolvable)
    gpus,       \* gpus[s]: allocatable GPUs on the child's nodes matching s
    pss,        \* pss[t]: state of the shared prerequisite ServiceSet
    pssNs,      \* pssNs[t]: namespace baked into it at creation
    colony      \* colony[t]: "none", "known" or "Deployed" on the CD

statusVars == <<phase, failCtx, ready>>
ssVars == <<ss, ssState, rel>>
clusterVars == <<class, cd, child, regional, gpus>>
prereqVars == <<pss, pssNs, colony>>
remoteVars == <<ns, routes, gaveUp>>
objVars == <<obj, older, suspend, grace>>
vars == <<objVars, fin, statusVars, ssVars, remoteVars, clusterVars, prereqVars>>

Phases == {"None", "Pending", "InstallingPrerequisites", "Waiting",
           "Deploying", "Running", "Failed", "Deleting"}
Reasons == {"None", "ClassNotFound", "GpuOfferingUnavailable", "InternalError",
            "InvalidPrerequisite", "PrerequisiteNamespaceConflict",
            "PrerequisitesNotReady", "HelmReleaseFailed"}
NoFailure == [phase |-> "None", reason |-> "None"]
SSPhases == {"none", "new", "live", "deleting"}
Clusters == {"absent", "live", "deleting"}

(***************************************************************************)
(* Status writes                                                           *)
(***************************************************************************)
\* One Status().Update: all of it lands, or (ok = FALSE) none of it.
WriteStatus(w, ok, p, f, r) ==
    /\ phase' = IF ok THEN [phase EXCEPT ![w] = p] ELSE phase
    /\ failCtx' = IF ok THEN [failCtx EXCEPT ![w] = f] ELSE failCtx
    /\ ready' = IF ok THEN [ready EXCEPT ![w] = r] ELSE ready

WritePhase(w, ok, p) == WriteStatus(w, ok, p, failCtx[w], ready[w])

\* Mutant: phase and reason swapped.
BuildFailureContextSwapped(w, reason) == [phase |-> reason, reason |-> phase[w]]

\* buildFailureContext: the phase the failure happened in, Pending if unset.
BuildFailureContext(w, reason) ==
    [phase |-> IF phase[w] = "None" THEN "Pending" ELSE phase[w],
     reason |-> reason]

\* Mutant: every failing pass captures again.
CaptureFailureAgain(w, reason) == BuildFailureContext(w, reason)

\* The first capture wins while the workspace stays Failed.
CaptureFailure(w, reason) ==
    IF phase[w] = "Failed" /\ failCtx[w] # NoFailure
    THEN failCtx[w]
    ELSE BuildFailureContext(w, reason)

MarkFailed(w, ok, reason) ==
    WriteStatus(w, ok, "Failed", CaptureFailure(w, reason), ready[w])

\* What a pass on a live object that only writes status leaves alone.
StatusOnly(w) ==
    /\ fin' = [fin EXCEPT ![w] = TRUE]
    /\ UNCHANGED <<objVars, ssVars, remoteVars, clusterVars, prereqVars>>

(***************************************************************************)
(* GPU capacity (gateGPUOffering)                                          *)
(***************************************************************************)
\* GPUs of the nodes matching s requested by pods placed on them.
Used(s) ==
    MapThenSumSet(LAMBDA w : Demand[w],
                  {w \in Workspaces : rel[w] = "scheduled" /\ Selector[w] = s})

Free(s) == IF Used(s) >= gpus[s] THEN 0 ELSE gpus[s] - Used(s)

\* Mutant: any other waiter goes first.
IsOtherWorkspace(v, w) == v # w

IsOlderWorkspace(v, w) == v \in older[w]

HasOlderWaitingSibling(w) ==
    \E v \in Workspaces :
        /\ phase[v] = "Waiting"
        /\ Selector[v] = Selector[w]
        /\ IsOlderWorkspace(v, w)

\* Mutant: a Deploying workspace is gated again.
GatedWhileDeploying(w) ==
    phase[w] \notin {"Running", "Failed"} /\ Selector[w] # NoSelector

\* Deploying, Running and Failed skip the gate; so does an empty selector.
Gated(w) ==
    phase[w] \notin {"Deploying", "Running", "Failed"} /\ Selector[w] # NoSelector

OfferingFound(w) == gpus[Selector[w]] > 0

\* Mutant: capacity alone decides.
MustWaitForCapacity(w) == Demand[w] > Free(Selector[w])

MustWait(w) == Demand[w] > Free(Selector[w]) \/ HasOlderWaitingSibling(w)

(***************************************************************************)
(* Prerequisites (evaluatePrerequisites)                                   *)
(***************************************************************************)
\* Where the shared singleton already lives, "" when nobody provides it.
Incumbent(t) ==
    IF pss[t] # "none" THEN pssNs[t]
    ELSE IF colony[t] # "none" THEN ColonyNs[t] ELSE ""

\* Mutant: a shared install is good wherever it lives.
PrerequisiteNamespaceIgnored(p) == FALSE

PrerequisiteNamespaceConflict(p) ==
    p.ns # "" /\ Incumbent(p.tmpl) # "" /\ Incumbent(p.tmpl) # p.ns

EffectivePrerequisiteNamespace(p) == IF p.ns # "" THEN p.ns ELSE "default"

\* Mutant: an existing ServiceSet counts as installed.
PrerequisitePhaseEager(p) ==
    IF PrerequisiteNamespaceConflict(p) THEN "Conflict"
    ELSE IF pss[p.tmpl] # "none" \/ colony[p.tmpl] = "Deployed" THEN "Satisfied"
    ELSE IF colony[p.tmpl] = "known" THEN "Installing" ELSE "Pending"

\* Status of one prerequisite: own ServiceSet first, then the colony's.
PrerequisitePhase(p) ==
    IF PrerequisiteNamespaceConflict(p) THEN "Conflict"
    ELSE IF pss[p.tmpl] # "none"
         THEN CASE pss[p.tmpl] = "Deployed" -> "Satisfied"
                [] pss[p.tmpl] = "Failed"   -> "Failed"
                [] OTHER                    -> "Installing"
         ELSE CASE colony[p.tmpl] = "Deployed" -> "Satisfied"
                [] colony[p.tmpl] = "known"    -> "Installing"
                [] OTHER                       -> "Pending"

\* Mutant: a later prerequisite overwrites a conflict or a failure.
VerdictAfterForgets(overall, p) ==
    LET k == PrerequisitePhase(p)
    IN  IF overall = "Invalid" \/ p.versioned THEN "Invalid"
        ELSE CASE k \in {"Conflict", "Failed", "Installing"} -> k
               [] k = "Pending" -> "Missing"
               [] OTHER -> overall

\* One iteration of the loop: what a prerequisite makes of the verdict so
\* far.  A version constraint ends the loop.
VerdictAfter(overall, p) ==
    LET k == PrerequisitePhase(p)
        settled == overall \in {"Failed", "Conflict"}
    IN  IF overall = "Invalid" \/ p.versioned THEN "Invalid"
        ELSE CASE k = "Conflict"                     -> "Conflict"
               [] k = "Failed" /\ overall # "Conflict" -> "Failed"
               [] k = "Installing" /\ ~settled       -> "Installing"
               [] k = "Pending" /\ ~settled          -> "Missing"
               [] OTHER                              -> overall

Verdict(ps) ==
    LET after[i \in 0 .. Len(ps)] ==
            IF i = 0 THEN "Satisfied" ELSE VerdictAfter(after[i - 1], ps[i])
    IN  after[Len(ps)]

\* Mutant: the loop stops after the first prerequisite.
InstallsFirst(ps, k) ==
    {t \in Templates : k > 0 /\ ps[1].tmpl = t /\ PrerequisitePhase(ps[1]) = "Pending"}

\* Templates whose ServiceSet is created from the first k prerequisites.
Installs(ps, k) ==
    {t \in Templates : \E i \in DOMAIN ps :
        i <= k /\ ps[i].tmpl = t /\ PrerequisitePhase(ps[i]) = "Pending"}

\* Prerequisite i cannot be created: its values are no JSON object, and no
\* earlier one has created its ServiceSet.
ValuesInvalid(ps, i) ==
    /\ ~ps[i].object /\ PrerequisitePhase(ps[i]) = "Pending"
    /\ \A j \in 1 .. i - 1 : ps[j].tmpl # ps[i].tmpl

\* The prefixes of ps whose ServiceSets a pass can create.
Creatable(ps) == {k \in 0 .. Len(ps) : \A i \in 1 .. k : ~ValuesInvalid(ps, i)}

\* The first prerequisite naming t creates it; later ones find it there.
InstallNamespace(ps, t) ==
    LET first == CHOOSE i \in DOMAIN ps :
                     /\ ps[i].tmpl = t
                     /\ \A j \in DOMAIN ps : ps[j].tmpl = t => i <= j
    IN  EffectivePrerequisiteNamespace(ps[first])

(***************************************************************************)
(* How far a pass over a live workspace gets                               *)
(***************************************************************************)
Prerequisites(w) == Prereqs[ClassOf[w]]

Active(w) == obj[w] = "live" /\ ~suspend[w]

PastClass(w) == Active(w) /\ class[ClassOf[w]]

PastCluster(w) == PastClass(w) /\ (phase[w] = "Running" \/ cd # "absent")

GatePasses(w) ==
    Gated(w) => child = "up" /\ OfferingFound(w) /\ ~MustWait(w)

PastGate(w) == PastCluster(w) /\ GatePasses(w)

\* evaluatePrerequisites reads the CD; without it the pass ends in an error.
PrerequisitesEvaluated(w) ==
    PastGate(w) /\ Prerequisites(w) # <<>> /\ cd # "absent"

PastPrerequisites(w) ==
    /\ PastGate(w)
    /\ \/ Prerequisites(w) = <<>>
       \/ cd # "absent" /\ Verdict(Prerequisites(w)) = "Satisfied"

(***************************************************************************)
(* Reconcile, one action per place a pass over a live workspace ends       *)
(***************************************************************************)
ResolveWorkspaceClass(w, ok) ==
    /\ Active(w)
    /\ ~class[ClassOf[w]]
    /\ MarkFailed(w, ok, "ClassNotFound")
    /\ StatusOnly(w)

\* A missing ClusterDeployment is not an error: Pending, and retried.
ResolveClusterDeployment(w, ok) ==
    /\ PastClass(w)
    /\ phase[w] # "Running" /\ cd = "absent"
    /\ WritePhase(w, ok, "Pending")
    /\ StatusOnly(w)

GateUnreachable(w, ok) ==
    /\ PastCluster(w) /\ Gated(w)
    /\ child # "up"
    /\ WritePhase(w, ok, "Pending")
    /\ StatusOnly(w)

GateOfferingAbsent(w, ok) ==
    /\ PastCluster(w) /\ Gated(w) /\ child = "up"
    /\ ~OfferingFound(w)
    /\ MarkFailed(w, ok, "GpuOfferingUnavailable")
    /\ StatusOnly(w)

EnterWaiting(w, ok) ==
    /\ PastCluster(w) /\ Gated(w) /\ child = "up" /\ OfferingFound(w)
    /\ MustWait(w)
    /\ WritePhase(w, ok, "Waiting")
    /\ StatusOnly(w)

PrerequisiteReason(verdict) ==
    CASE verdict = "Invalid"  -> "InvalidPrerequisite"
      [] verdict = "Conflict" -> "PrerequisiteNamespaceConflict"
      [] OTHER                -> "PrerequisitesNotReady"

PrerequisitesFailed(w, ok) ==
    LET v == Verdict(Prerequisites(w))
    IN  /\ PrerequisitesEvaluated(w)
        /\ v \in {"Invalid", "Conflict", "Failed"}
        /\ MarkFailed(w, ok, PrerequisiteReason(v))
        /\ StatusOnly(w)

\* Creates the ServiceSet of every missing prerequisite.  A pass that fails
\* half way (ok = FALSE) leaves the first k of them behind; one that meets
\* invalid values fails there, every time, and writes no phase.
PrerequisitesMissing(w, ok) ==
    LET ps == Prerequisites(w)
    IN  /\ PrerequisitesEvaluated(w)
        /\ Verdict(ps) = "Missing"
        /\ \E k \in Creatable(ps) :
              /\ ok => k + 1 \notin Creatable(ps)
              /\ pss' = [t \in Templates |->
                           IF t \in Installs(ps, k) THEN "Provisioning" ELSE pss[t]]
              /\ pssNs' = [t \in Templates |->
                             IF t \in Installs(ps, k) THEN InstallNamespace(ps, t)
                             ELSE pssNs[t]]
        /\ WritePhase(w, ok /\ Len(ps) \in Creatable(ps), "InstallingPrerequisites")
        /\ fin' = [fin EXCEPT ![w] = TRUE]
        /\ UNCHANGED <<objVars, ssVars, remoteVars, clusterVars, colony>>

PrerequisitesInstalling(w, ok) ==
    /\ PrerequisitesEvaluated(w)
    /\ Verdict(Prerequisites(w)) = "Installing"
    /\ WritePhase(w, ok, "InstallingPrerequisites")
    /\ StatusOnly(w)

\* Mutant: an applied ServiceSet counts as a running workspace.
RunningOnceApplied(w, ok) ==
    /\ PastPrerequisites(w)
    /\ phase[w] = "Deploying" /\ ss[w] # "none"
    /\ WriteStatus(w, ok, "Running", NoFailure, TRUE)
    /\ StatusOnly(w)

CheckServiceReadiness(w, ok) ==
    /\ PastPrerequisites(w)
    /\ phase[w] = "Deploying" /\ ss[w] # "none"
    /\ \/ /\ ssState[w] = "Deployed"
          /\ WriteStatus(w, ok, "Running", NoFailure, TRUE)
       \/ /\ ssState[w] = "Failed"
          /\ MarkFailed(w, ok, "HelmReleaseFailed")
    /\ StatusOnly(w)

\* A Running workspace only has its routes ensured; its phase never moves.
\* The provider creates nothing while the routing infrastructure is missing.
ReconcileRoutes(w) ==
    /\ PastPrerequisites(w)
    /\ phase[w] = "Running"
    /\ RouteProvider /\ ClassOf[w] \in Routed
    /\ cd # "absent" /\ regional = "up"
    /\ routes' = [routes EXCEPT ![w] = TRUE]
    /\ fin' = [fin EXCEPT ![w] = TRUE]
    /\ UNCHANGED <<objVars, statusVars, ssVars, ns, gaveUp, clusterVars, prereqVars>>

Starting(w) ==
    PastPrerequisites(w) /\ phase[w] \notin {"Deploying", "Running", "Failed"}

\* No kubeconfig secret: Pending.  A dead API: an error, nothing written.
StartUnreachable(w, ok) ==
    /\ Starting(w)
    /\ child # "up"
    /\ WritePhase(w, ok /\ child = "nosecret", "Pending")
    /\ StatusOnly(w)

\* Helm values of class or user that are no JSON object cannot be merged.
StartValuesInvalid(w, ok) ==
    /\ Starting(w)
    /\ "values" \in Faults /\ child # "nosecret"
    /\ MarkFailed(w, ok, "InternalError")
    /\ StatusOnly(w)

\* ensureWorkspaceNamespace: a terminating predecessor is waited for.
StartNamespaceTerminating(w, ok) ==
    /\ Starting(w) /\ child = "up"
    /\ ns[w] = "terminating"
    /\ WritePhase(w, ok, "Pending")
    /\ StatusOnly(w)

\* The namespace is there (created now if needed); the ServiceSet is applied.
StartDeployment(w, ok) ==
    /\ Starting(w) /\ child = "up"
    /\ ns[w] # "terminating"
    /\ ns' = [ns EXCEPT ![w] = "active"]
    /\ \/ /\ ss' = IF ss[w] = "none" THEN [ss EXCEPT ![w] = "new"] ELSE ss
          /\ WriteStatus(w, ok, "Deploying", NoFailure, ready[w])
       \/ /\ "ssapi" \in Faults \/ ~ok
          /\ ss' = ss
          /\ MarkFailed(w, ok, "InternalError")
    /\ fin' = [fin EXCEPT ![w] = TRUE]
    /\ UNCHANGED <<objVars, ssState, rel, routes, gaveUp, clusterVars, prereqVars>>

(***************************************************************************)
(* reconcileDelete                                                         *)
(***************************************************************************)
Finalizing(w) == obj[w] = "deleting" /\ fin[w] /\ ~suspend[w]

TargetClusterGone == cd # "live"

\* CleanupRoutes has nothing to clean: no CD, or no regional cluster.
RouteCleanupSkipped == cd = "absent" \/ regional = "gone"

\* Mutant: route cleanup is retried past the grace period.
RouteCleanupForever(w) == RouteProvider => RouteCleanupSkipped \/ regional = "up"

RouteCleanupDone(w) ==
    RouteProvider => RouteCleanupSkipped \/ regional = "up" \/ grace[w]

RoutesReachable == RouteProvider /\ ~RouteCleanupSkipped /\ regional = "up"

\* Mutant: the mirror namespace is left behind.
RoutesLeft(w) == routes

RoutesCleaned(w) == IF RoutesReachable THEN [routes EXCEPT ![w] = FALSE] ELSE routes

\* gaveUp after the route step: what a provider could not clean is recorded.
RouteExcuses(w) ==
    IF RoutesReachable THEN gaveUp[w] \ {"routes"}
    ELSE gaveUp[w] \cup (IF RouteProvider THEN {"routes"} ELSE {})

DropObject(w) ==
    /\ obj' = [obj EXCEPT ![w] = "absent"]
    /\ older' = [v \in Workspaces |-> IF v = w THEN {} ELSE older[v] \ {w}]
    /\ fin' = [fin EXCEPT ![w] = FALSE]
    /\ suspend' = [suspend EXCEPT ![w] = FALSE]
    /\ grace' = [grace EXCEPT ![w] = FALSE]
    /\ phase' = [phase EXCEPT ![w] = "None"]
    /\ failCtx' = [failCtx EXCEPT ![w] = NoFailure]
    /\ ready' = [ready EXCEPT ![w] = FALSE]

\* Mutant: no early return, the finalizer goes with the first pass.
StayDeletingNever(w, ok) == DropObject(w)

\* The pass stops before the finalizer; the Deleting phase is best effort.
StayDeleting(w, ok) ==
    /\ WritePhase(w, ok, "Deleting")
    /\ UNCHANGED <<objVars, fin>>

\* Finalizer removal; the API server then drops the object.
RemoveFinalizer(w, ok) ==
    IF ok THEN DropObject(w) ELSE \E written \in BOOLEAN : StayDeleting(w, written)

DeleteRoutesBlocked(w, ok) ==
    /\ Finalizing(w)
    /\ ~RouteCleanupDone(w)
    /\ StayDeleting(w, ok)
    /\ UNCHANGED <<ssVars, remoteVars, clusterVars, prereqVars>>

\* An API error between the route cleanup and the next step ends the pass.
DeleteInterrupted(w, ok) ==
    /\ Finalizing(w) /\ RouteCleanupDone(w)
    /\ ~ok
    /\ routes' = RoutesCleaned(w)
    /\ gaveUp' = [gaveUp EXCEPT ![w] = RouteExcuses(w)]
    /\ \E written \in BOOLEAN : StayDeleting(w, written)
    /\ UNCHANGED <<ssVars, ns, clusterVars, prereqVars>>

\* Cluster gone: the ServiceSet and its finalizers are force-removed, the
\* namespace is left to the cluster's destruction.
DeleteClusterGone(w, ok) ==
    /\ Finalizing(w) /\ RouteCleanupDone(w)
    /\ TargetClusterGone
    /\ routes' = RoutesCleaned(w)
    /\ gaveUp' = [gaveUp EXCEPT ![w] = RouteExcuses(w)]
    /\ \/ /\ ss' = [ss EXCEPT ![w] = "none"]
          /\ ssState' = [ssState EXCEPT ![w] = "none"]
          /\ RemoveFinalizer(w, ok)
       \/ /\ ~ok /\ ss[w] \in {"live", "deleting"}
          /\ ss' = [ss EXCEPT ![w] = "deleting"]
          /\ ssState' = ssState
          /\ \E written \in BOOLEAN : StayDeleting(w, written)
    /\ UNCHANGED <<rel, ns, clusterVars, prereqVars>>

\* Mutant: the namespace does not wait for the ServiceSet.
ServiceSetNotAwaited(w) == TRUE

\* Nothing is left of the ServiceSet once it is deleted: one that k0rdent has
\* not put its finalizer on vanishes at once.
ServiceSetGone(w) == ss[w] \in {"none", "new"}

\* The ServiceSet is (being) deleted and lingers while k0rdent uninstalls.
DeleteServiceSet(w, ok) ==
    /\ Finalizing(w) /\ RouteCleanupDone(w) /\ ~TargetClusterGone
    /\ ~ServiceSetGone(w)
    /\ routes' = RoutesCleaned(w)
    /\ gaveUp' = [gaveUp EXCEPT ![w] = RouteExcuses(w)]
    /\ ss' = [ss EXCEPT ![w] = "deleting"]
    /\ StayDeleting(w, ok)
    /\ UNCHANGED <<ssState, rel, ns, clusterVars, prereqVars>>

\* The namespace is deleted on the child, retried, or abandoned.
DeleteNamespace(w, ok) ==
    /\ Finalizing(w) /\ RouteCleanupDone(w) /\ ~TargetClusterGone
    /\ ServiceSetGone(w)
    /\ routes' = RoutesCleaned(w)
    /\ ss' = [ss EXCEPT ![w] = "none"]
    /\ ssState' = [ssState EXCEPT ![w] = "none"]
    /\ \/ /\ child = "up"
          /\ ns' = [ns EXCEPT ![w] = IF @ = "active" THEN "terminating" ELSE @]
          /\ gaveUp' = [gaveUp EXCEPT ![w] = RouteExcuses(w) \ {"namespace"}]
          /\ RemoveFinalizer(w, ok)
       \/ /\ child # "up" /\ grace[w]
          /\ ns' = ns
          /\ gaveUp' = [gaveUp EXCEPT ![w] = RouteExcuses(w) \cup {"namespace"}]
          /\ RemoveFinalizer(w, ok)
       \/ /\ child # "up" /\ ~grace[w]
          /\ ns' = ns
          /\ gaveUp' = [gaveUp EXCEPT ![w] = RouteExcuses(w)]
          /\ StayDeleting(w, ok)
    /\ UNCHANGED <<rel, clusterVars, prereqVars>>

\* One pass of the controller over w.  ok: its API writes go through.
Reconcile(w, ok) ==
    \/ ResolveWorkspaceClass(w, ok)
    \/ ResolveClusterDeployment(w, ok)
    \/ GateUnreachable(w, ok)
    \/ GateOfferingAbsent(w, ok)
    \/ EnterWaiting(w, ok)
    \/ PrerequisitesFailed(w, ok)
    \/ PrerequisitesMissing(w, ok)
    \/ PrerequisitesInstalling(w, ok)
    \/ CheckServiceReadiness(w, ok)
    \/ ReconcileRoutes(w)
    \/ StartUnreachable(w, ok)
    \/ StartValuesInvalid(w, ok)
    \/ StartNamespaceTerminating(w, ok)
    \/ StartDeployment(w, ok)
    \/ DeleteRoutesBlocked(w, ok)
    \/ DeleteInterrupted(w, ok)
    \/ DeleteClusterGone(w, ok)
    \/ DeleteServiceSet(w, ok)
    \/ DeleteNamespace(w, ok)

(***************************************************************************)
(* Users and the API server                                                *)
(***************************************************************************)
Existing == {w \in Workspaces : obj[w] # "absent"}

\* Creation order is by timestamp, ties within a second by UID: the newcomer
\* follows the workspaces in seniors and may precede others of its second.
Create(w) ==
    /\ obj[w] = "absent"
    /\ \E seniors \in SUBSET Existing :
          /\ \A v \in seniors : older[v] \subseteq seniors
          /\ older' = [v \in Workspaces |->
                         IF v = w THEN seniors
                         ELSE IF v \in Existing \ seniors THEN older[v] \cup {w}
                         ELSE older[v]]
    /\ obj' = [obj EXCEPT ![w] = "live"]
    /\ UNCHANGED <<fin, suspend, grace, statusVars, ssVars, remoteVars, clusterVars, prereqVars>>

\* Without the finalizer the API server drops the object at once.
Delete(w) ==
    /\ obj[w] = "live"
    /\ IF fin[w]
       THEN /\ obj' = [obj EXCEPT ![w] = "deleting"]
            /\ UNCHANGED <<older, suspend, grace, fin, statusVars>>
       ELSE DropObject(w)
    /\ UNCHANGED <<ssVars, remoteVars, clusterVars, prereqVars>>

ToggleSuspend(w) ==
    /\ "suspend" \in Faults
    /\ obj[w] # "absent"
    /\ suspend' = [suspend EXCEPT ![w] = ~@]
    /\ UNCHANGED <<obj, older, fin, grace, statusVars, ssVars, remoteVars, clusterVars, prereqVars>>

GraceExpires(w) ==
    /\ obj[w] = "deleting" /\ ~grace[w]
    /\ grace' = [grace EXCEPT ![w] = TRUE]
    /\ UNCHANGED <<obj, older, fin, suspend, statusVars, ssVars, remoteVars, clusterVars, prereqVars>>

ToggleClass(c) ==
    /\ "class" \in Faults
    /\ class' = [class EXCEPT ![c] = ~@]
    /\ UNCHANGED <<objVars, fin, statusVars, ssVars, remoteVars, cd, child, regional, gpus, prereqVars>>

(***************************************************************************)
(* k0rdent, Sveltos and the child cluster's own controllers                *)
(***************************************************************************)
controllerVars == <<objVars, fin, statusVars>>

AdoptServiceSet(w) ==
    /\ ss[w] = "new"
    /\ ss' = [ss EXCEPT ![w] = "live"]
    /\ UNCHANGED <<controllerVars, ssState, rel, remoteVars, clusterVars, prereqVars>>

HelmInstall(w) ==
    /\ ss[w] = "live" /\ rel[w] = "none"
    /\ cd # "absent" /\ child = "up" /\ ns[w] # "terminating"
    /\ rel' = [rel EXCEPT ![w] = "pending"]
    /\ ns' = [ns EXCEPT ![w] = "active"]
    /\ UNCHANGED <<controllerVars, ss, ssState, routes, gaveUp, clusterVars, prereqVars>>

Schedulable(w) == Selector[w] # NoSelector => Demand[w] <= Free(Selector[w])

PodsScheduled(w) ==
    /\ rel[w] = "pending" /\ Schedulable(w)
    /\ rel' = [rel EXCEPT ![w] = "scheduled"]
    /\ UNCHANGED <<controllerVars, ss, ssState, remoteVars, clusterVars, prereqVars>>

ReportDeployed(w) ==
    /\ ss[w] = "live" /\ rel[w] = "scheduled" /\ ssState[w] # "Deployed"
    /\ ssState' = [ssState EXCEPT ![w] = "Deployed"]
    /\ UNCHANGED <<controllerVars, ss, rel, remoteVars, clusterVars, prereqVars>>

\* Helm waits for the pods and times out when they cannot be placed.
ReportFailed(w) ==
    /\ ss[w] = "live" /\ ssState[w] # "Failed"
    /\ \/ "helm" \in Faults
       \/ rel[w] = "pending" /\ ~Schedulable(w)
    /\ ssState' = [ssState EXCEPT ![w] = "Failed"]
    /\ UNCHANGED <<controllerVars, ss, rel, remoteVars, clusterVars, prereqVars>>

\* The uninstall runs against the child; it cannot finish without it.
HelmUninstall(w) ==
    /\ ss[w] = "deleting"
    /\ cd # "absent" /\ child = "up"
    /\ ss' = [ss EXCEPT ![w] = "none"]
    /\ ssState' = [ssState EXCEPT ![w] = "none"]
    /\ rel' = [rel EXCEPT ![w] = "none"]
    /\ UNCHANGED <<controllerVars, remoteVars, clusterVars, prereqVars>>

NamespaceTerminated(w) ==
    /\ ns[w] = "terminating"
    /\ ns' = [ns EXCEPT ![w] = "none"]
    /\ rel' = [rel EXCEPT ![w] = "none"]
    /\ UNCHANGED <<controllerVars, ss, ssState, routes, gaveUp, clusterVars, prereqVars>>

DeleteCluster ==
    /\ "cd" \in Faults
    /\ cd = "live"
    /\ cd' = "deleting"
    /\ UNCHANGED <<controllerVars, ssVars, remoteVars, class, child, regional, gpus, prereqVars>>

\* The child cluster and everything on it is destroyed with the CD.
ClusterDestroyed ==
    /\ cd = "deleting"
    /\ cd' = "absent"
    /\ child' = "nosecret"
    /\ ns' = [w \in Workspaces |-> "none"]
    /\ rel' = [w \in Workspaces |-> "none"]
    /\ gaveUp' = [w \in Workspaces |-> gaveUp[w] \ {"namespace"}]
    /\ gpus' = [s \in Selectors |-> 0]
    /\ colony' = [t \in Templates |-> "none"]
    /\ UNCHANGED <<controllerVars, ss, ssState, routes, class, regional, pss, pssNs>>

CreateCluster ==
    /\ cd = "absent"
    /\ cd' = "live"
    /\ UNCHANGED <<controllerVars, ssVars, remoteVars, class, child, regional, gpus, prereqVars>>

ChildUp ==
    /\ cd # "absent" /\ child # "up"
    /\ child' = "up"
    /\ UNCHANGED <<controllerVars, ssVars, remoteVars, class, cd, regional, gpus, prereqVars>>

\* The API of the child fails, or its kubeconfig secret disappears.
ChildDown ==
    /\ child = "up"
    /\ \/ "child" \in Faults /\ child' = "down"
       \/ "secret" \in Faults /\ child' = "nosecret"
    /\ UNCHANGED <<controllerVars, ssVars, remoteVars, class, cd, regional, gpus, prereqVars>>

RegionalChanges ==
    /\ "regional" \in Faults
    /\ \E r \in {"up", "down", "gone"} : r # regional /\ regional' = r
    /\ UNCHANGED <<controllerVars, ssVars, remoteVars, class, cd, child, gpus, prereqVars>>

\* GPU nodes of the child join, or become labelled and schedulable.
NodesJoin(s) ==
    /\ cd # "absent" /\ gpus[s] # Total[s]
    /\ gpus' = [gpus EXCEPT ![s] = Total[s]]
    /\ UNCHANGED <<controllerVars, ssVars, remoteVars, class, cd, child, regional, prereqVars>>

PrereqDeployed(t) ==
    /\ pss[t] = "Provisioning"
    /\ cd # "absent" /\ child = "up"
    /\ pss' = [pss EXCEPT ![t] = "Deployed"]
    /\ UNCHANGED <<controllerVars, ssVars, remoteVars, clusterVars, pssNs, colony>>

\* A shared install fails, drifts, is upgraded, or is removed by an admin.
PrereqDisturbed(t) ==
    /\ "prereq" \in Faults
    /\ pss[t] # "none"
    /\ \E s \in {"none", "Provisioning", "Failed"} : pss' = [pss EXCEPT ![t] = s]
    /\ pssNs' = IF pss'[t] = "none" THEN [pssNs EXCEPT ![t] = ""] ELSE pssNs
    /\ UNCHANGED <<controllerVars, ssVars, remoteVars, clusterVars, colony>>

ColonyChanges(t) ==
    /\ "colony" \in Faults /\ cd # "absent"
    /\ \E s \in {"none", "known", "Deployed"} : colony' = [colony EXCEPT ![t] = s]
    /\ UNCHANGED <<controllerVars, ssVars, remoteVars, clusterVars, pss, pssNs>>

(***************************************************************************)
(* Specification                                                           *)
(***************************************************************************)
\* Selectors whose nodes have not joined yet when the operator starts.
Latecomers == IF "nodes" \in Faults THEN SUBSET Selectors ELSE {{}}

Init ==
    /\ obj = [w \in Workspaces |-> "absent"]
    /\ older = [w \in Workspaces |-> {}]
    /\ fin = [w \in Workspaces |-> FALSE]
    /\ suspend = [w \in Workspaces |-> FALSE]
    /\ grace = [w \in Workspaces |-> FALSE]
    /\ phase = [w \in Workspaces |-> "None"]
    /\ failCtx = [w \in Workspaces |-> NoFailure]
    /\ ready = [w \in Workspaces |-> FALSE]
    /\ ss = [w \in Workspaces |-> "none"]
    /\ ssState = [w \in Workspaces |-> "none"]
    /\ rel = [w \in Workspaces |-> "none"]
    /\ ns = [w \in Workspaces |-> "none"]
    /\ routes = [w \in Workspaces |-> FALSE]
    /\ gaveUp = [w \in Workspaces |-> {}]
    /\ class = [c \in Classes |-> TRUE]
    /\ cd = "live"
    /\ child = "up"
    /\ regional = "up"
    /\ \E late \in Latecomers :
          gpus = [s \in Selectors |-> IF s \in late THEN 0 ELSE Total[s]]
    /\ pss = [t \in Templates |-> "none"]
    /\ pssNs = [t \in Templates |-> ""]
    /\ colony = [t \in Templates |-> "none"]

Writes == IF "write" \in Faults THEN BOOLEAN ELSE {TRUE}

UserStep(w) == Create(w) \/ Delete(w) \/ ToggleSuspend(w)

ReleaseStep(w) ==
    \/ AdoptServiceSet(w) \/ HelmInstall(w) \/ PodsScheduled(w)
    \/ ReportDeployed(w) \/ ReportFailed(w)
    \/ HelmUninstall(w) \/ NamespaceTerminated(w)

ClusterStep ==
    \/ DeleteCluster \/ ClusterDestroyed \/ CreateCluster
    \/ ChildUp \/ ChildDown \/ RegionalChanges
    \/ \E c \in Classes : ToggleClass(c)
    \/ \E s \in Selectors : NodesJoin(s)
    \/ \E t \in Templates : PrereqDeployed(t) \/ PrereqDisturbed(t) \/ ColonyChanges(t)

Next ==
    \/ \E w \in Workspaces :
          \/ \E ok \in Writes : Reconcile(w, ok)
          \/ UserStep(w)
          \/ GraceExpires(w)
          \/ ReleaseStep(w)
    \/ ClusterStep

Spec == Init /\ [][Next]_vars

\* Scheduling the code relies on: a failed or requeued pass is retried and
\* its writes eventually land; k0rdent, Sveltos, the scheduler and kube GC
\* do their work when nothing prevents it; time passes; a cluster being torn
\* down is eventually gone.  Nothing forces a dead child to come back.
Fairness ==
    /\ \A w \in Workspaces :
          /\ WF_vars(Reconcile(w, TRUE))
          /\ WF_vars(GraceExpires(w))
          /\ WF_vars(ReleaseStep(w))
    /\ \A t \in Templates : WF_vars(PrereqDeployed(t))
    /\ WF_vars(ClusterDestroyed)

FairSpec == Spec /\ Fairness

(***************************************************************************)
(* Properties                                                              *)
(***************************************************************************)
\* Every variable keeps its type.
TypeOK ==
    /\ obj \in [Workspaces -> Clusters]
    /\ older \in [Workspaces -> SUBSET Workspaces]
    /\ fin \in [Workspaces -> BOOLEAN]
    /\ suspend \in [Workspaces -> BOOLEAN]
    /\ grace \in [Workspaces -> BOOLEAN]
    /\ phase \in [Workspaces -> Phases]
    /\ failCtx \in [Workspaces -> [phase : Phases, reason : Reasons]]
    /\ ready \in [Workspaces -> BOOLEAN]
    /\ ss \in [Workspaces -> SSPhases]
    /\ ssState \in [Workspaces -> {"none", "Deployed", "Failed"}]
    /\ rel \in [Workspaces -> {"none", "pending", "scheduled"}]
    /\ ns \in [Workspaces -> {"none", "active", "terminating"}]
    /\ routes \in [Workspaces -> BOOLEAN]
    /\ gaveUp \in [Workspaces -> SUBSET {"routes", "namespace"}]
    /\ class \in [Classes -> BOOLEAN]
    /\ cd \in Clusters
    /\ child \in {"nosecret", "down", "up"}
    /\ regional \in {"up", "down", "gone"}
    /\ gpus \in [Selectors -> Nat]
    /\ pss \in [Templates -> {"none", "Provisioning", "Deployed", "Failed"}]
    /\ colony \in [Templates -> {"none", "known", "Deployed"}]

\* Namespace termination never races the Helm uninstall: by the time the
\* workspace namespace terminates on the child, the ServiceSet and the
\* release are gone (reconcileDelete orders ServiceSet before namespace, and
\* ensureWorkspaceNamespace refuses a terminating one on recreation).
NamespaceAfterUninstall ==
    \A w \in Workspaces :
        ns[w] = "terminating" => ss[w] = "none" /\ rel[w] = "none"

\* A workspace object never disappears before what it owns: no ServiceSet is
\* left, a namespace is left only if its cleanup was abandoned after the
\* grace period or the cluster is being destroyed, routes only if their
\* cleanup was abandoned or skipped.
NoOrphans ==
    \A w \in Workspaces : obj[w] = "absent" =>
        /\ ss[w] = "none"
        /\ ns[w] = "active" => "namespace" \in gaveUp[w] \/ cd # "live"
        /\ routes[w] => "routes" \in gaveUp[w]

\* The front door closes before the backend goes: while the release is being
\* uninstalled the routes are gone, or their cleanup was given up.
FrontDoorFirst ==
    \A w \in Workspaces :
        ss[w] = "deleting" /\ routes[w] => "routes" \in gaveUp[w]

\* The inductive form of the three properties above.  What the passes rely
\* on besides: nothing is owned before the finalizer is on, a ServiceSet is
\* deleted only for a workspace being deleted, a release outlives its
\* ServiceSet only on a cluster being destroyed, and a destroyed cluster
\* holds nothing.
Finalized(w) ==
    /\ obj[w] = "absent" => ~fin[w]
    /\ ~fin[w] =>
          /\ ss[w] = "none"
          /\ ns[w] = "active" => "namespace" \in gaveUp[w] \/ cd # "live"
          /\ routes[w] => "routes" \in gaveUp[w]

RoutesFirst(w) ==
    /\ ss[w] = "deleting" => obj[w] = "deleting" /\ (routes[w] => "routes" \in gaveUp[w])
    /\ ~RouteProvider => ~routes[w]

ReleaseFirst(w) ==
    /\ cd = "live" /\ ss[w] \in {"none", "new"} => rel[w] = "none"
    /\ cd = "absent" => ns[w] = "none" /\ rel[w] = "none"
    /\ ns[w] = "terminating" => ss[w] = "none" /\ rel[w] = "none"

Teardown ==
    \A w \in Workspaces : Finalized(w) /\ RoutesFirst(w) /\ ReleaseFirst(w)

\* A Failed workspace says in which phase it failed, and that phase is one a
\* live workspace can fail from (markFailed runs before the phase changes).
FailureExplained ==
    \A w \in Workspaces : phase[w] = "Failed" =>
        failCtx[w].phase \notin {"None", "Failed", "Deleting"}

\* First capture wins: while a workspace stays Failed, later failing passes
\* never rewrite the forensics of the original failure.
FirstFailureWins ==
    [][\A w \in Workspaces :
          phase[w] = "Failed" /\ phase'[w] = "Failed" => failCtx'[w] = failCtx[w]]_vars

\* What of a workspace a user sees, and whether it has a release: a ServiceSet,
\* and whether its last report was good.
ReleaseSeen ==
    [w \in Workspaces |->
        IF ss[w] = "none" THEN "none" ELSE IF ssState[w] = "Deployed" THEN "deployed" ELSE "applied"]

Lifecycle == INSTANCE WorkspaceLifecycle WITH
    Prepared <- {w \in Workspaces : Prerequisites(w) # <<>>},
    OnGPUs <- {w \in Workspaces : Selector[w] # NoSelector},
    Causes <- Reasons,
    life <- obj,
    cause <- failCtx,
    release <- ReleaseSeen

\* The controller keeps the promises of WorkspaceLifecycle: the phases follow
\* each other as documented, Running is reached only with a release reported
\* deployed, a live workspace never loses its ServiceSet, failures keep their
\* record, and nothing undoes a deletion, whatever writes are lost and
\* whatever clusters come and go.
ImplementsLifecycle == Lifecycle!LifecycleSpec

PrerequisiteHealthy(p) ==
    /\ pss[p.tmpl] = "Deployed" \/ (pss[p.tmpl] = "none" /\ colony[p.tmpl] = "Deployed")
    /\ p.ns # "" => Incumbent(p.tmpl) \in {"", p.ns}

\* A workspace starts deploying only with every prerequisite of its class
\* healthy, and where the class asked for it.
PrerequisitesBeforeDeploying ==
    [][\A w \in Workspaces :
          phase[w] # "Deploying" /\ phase'[w] = "Deploying" =>
              \A i \in DOMAIN Prerequisites(w) :
                  PrerequisiteHealthy(Prerequisites(w)[i])]_vars

\* As long as nobody disturbs a shared install, a workspace that got past
\* its prerequisites keeps them, healthy and where its class asked for them:
\* of two classes that want one template in different namespaces only one is
\* ever served.
ServedWhereAsked ==
    \A w \in Workspaces : phase[w] \in {"Deploying", "Running"} =>
        \A i \in DOMAIN Prerequisites(w) : PrerequisiteHealthy(Prerequisites(w)[i])

\* Oldest first: no workspace starts deploying past an older one Waiting for
\* the same GPUs.
ServedOldestFirst ==
    [][\A v, w \in Workspaces :
          /\ phase[w] # "Deploying" /\ phase'[w] = "Deploying"
          /\ Selector[w] # NoSelector /\ Selector[v] = Selector[w]
          /\ v \in older[w]
          => phase[v] # "Waiting"]_vars

\* A Waiting workspace holds no GPUs itself, so it never waits for capacity
\* its own release has taken ("a deployed workspace must never be re-gated
\* against capacity it now holds").
NeverWaitsOnItself ==
    \A w \in Workspaces : phase[w] = "Waiting" => rel[w] # "scheduled"

\* While a workspace is Running nobody has touched its release: the
\* ServiceSet is there and the pods are placed, until the user deletes it.
RunningIsBacked ==
    \A w \in Workspaces :
        obj[w] = "live" /\ phase[w] = "Running" => ss[w] = "live" /\ rel[w] = "scheduled"

\* The order of a class's prerequisites never hides a problem: the verdict
\* is the worst of what any of them calls for, and only between Missing and
\* Installing does the last unsatisfied one decide.
WorstVerdict(ps) ==
    LET is(k) == {i \in DOMAIN ps : PrerequisitePhase(ps[i]) = k}
        open  == is("Installing") \cup is("Pending")
    IN  IF \E i \in DOMAIN ps : ps[i].versioned THEN "Invalid"
        ELSE IF is("Conflict") # {} THEN "Conflict"
        ELSE IF is("Failed") # {} THEN "Failed"
        ELSE IF open = {} THEN "Satisfied"
        ELSE IF \E i \in is("Pending") : \A j \in open : j <= i THEN "Missing"
        ELSE "Installing"

\* For every class and every state of the shared installs, the loop over the
\* prerequisites returns the worst verdict.
VerdictIsWorst ==
    \A c \in Classes : Verdict(Prereqs[c]) = WorstVerdict(Prereqs[c])

\* Deletion completes when the cluster is gone or its child stays reachable,
\* whatever the regional cluster does, once the workspace is not suspended.
DeletionCompletes ==
    <>[]((cd # "live" \/ child = "up") /\ \A w \in Workspaces : ~suspend[w])
        => \A w \in Workspaces : obj[w] = "deleting" ~> obj[w] = "absent"

\* A pass over w stops at a missing prerequisite it cannot create.
PrerequisiteBlocked(w) ==
    /\ Verdict(Prerequisites(w)) = "Missing"
    /\ Len(Prerequisites(w)) \notin Creatable(Prerequisites(w))

\* A live workspace on a reachable cluster settles: it runs, waits for
\* capacity, or fails, unless it is deleted first, or stays blocked by a
\* missing prerequisite whose values are no JSON object: such a pass fails
\* over and over and no phase says so.
Settles ==
    <>[](cd = "live" /\ child = "up") =>
        \A w \in Workspaces :
            <>[]~PrerequisiteBlocked(w) =>
                (obj[w] = "live" ~>
                    obj[w] # "live" \/ phase[w] \in {"Running", "Waiting", "Failed"})

\* Waiting resolves by itself: if on a reachable cluster the GPUs w asked
\* for stay free, enough for w and for whoever is ahead of it in the line,
\* w does not stay Waiting.  (Head-of-line blocking by an older workspace
\* that needs more, or is suspended, is accepted.)
WaitingResolves ==
    \A w \in Workspaces :
        LET line == {v \in Workspaces : Selector[v] = Selector[w]}
        IN  /\ Selector[w] # NoSelector
            /\ <>[](child = "up" /\ \A v \in line : Free(Selector[w]) >= Demand[v] /\ ~suspend[v])
            => []<>(phase[w] # "Waiting")
==============================================================================
