# TLA+ models of the exalsius operator

TLA+ modules, TLC configurations and TLAPS proofs for the controllers of the
exalsius operator: the Kubernetes operator that deploys workspaces (Helm charts)
onto child clusters through k0rdent, gates them on GPUs, installs their
prerequisites and exposes them through a regional cluster.

`PROJECT.json` lists components, runs, mutants, the map from definitions to
source lines, findings, hazards and theorems.

## 1. Inventory

| Component | State | Operations | Interacts with |
|---|---|---|---|
| WorkspaceDeployment reconciler | status (phase, failure context, conditions), finalizer | `Reconcile`, `startDeployment`, `checkServiceReadiness`, `reconcileDelete` | everything below |
| Failure context | `status.failureContext` | `markFailed`, first capture wins | reconciler |
| GPU gate | none of its own; reads nodes, pods and sibling workspaces | `gateGPUOffering`, `hasOlderWaitingSibling`, `AvailabilityForSelector` | child cluster, siblings |
| GPU inventory | `Colony.status.gpuInventory` | `DeriveOfferings` | child cluster, users |
| Prerequisites | shared `wsprereq` ServiceSets, one per cluster and template | `evaluatePrerequisites`, `ensurePrerequisiteServiceSet` | other classes, colony services |
| Workspace ServiceSet | one ServiceSet per workspace | apply, delete, forced delete | k0rdent / Sveltos |
| Workspace namespace | namespace on the child cluster | ensure, delete, abandon | child cluster |
| Routing provider | mirror namespace, HTTPRoutes, TCPRoutes on the regional cluster | `EnsureRoutes`, `CleanupRoutes` | tenant Gateway, sweeper |
| Port pool | the set of TCPRoutes *is* the allocation table | `ensureTCPRoute`, `allocatedSections` | admin who edits listeners |
| Orphan sweeper | none; a goroutine beside the controllers | `sweepOnce`, `SweepOrphans` | regional clusters, provider |
| Colony reconciler | Colony status (references, phase, inventory), finalizer, one ClusterDeployment per listed cluster, mirrored and aggregated kubeconfig secrets | `reconcileColony`, `CleanupOrphanedClusterDeployments`, `EnsureClusterDeployment`, `refreshGPUInventory`, `handleColonyDeletion` | k0rdent, k0smotron, regional clusters |
| Cilium API endpoint ConfigMap | a ConfigMap in each child | `EnsureAPIEndpointConfigMap` | Colony reconciler, service discovery |
| WorkspaceClass reconciler | class status (`valid`, `validationError`) | `evaluate`, status update, template watch | ServiceTemplates |
| Injection and merging | none; Helm values and resources of a release | `mergeResources`, `mergeValuesMap`, `injectResources` | `startDeployment`, charts |
| Feasibility | none; writes the `Feasible` condition | `computeFeasibility` | child cluster |
| Route naming | none; strings | | provider |
| Preflight, manager | | | |

What is hard here: a pass is a sequence of writes to several API servers with no
transaction around them; k0rdent, Sveltos, the scheduler, admins and users change
the same objects between passes; clusters become unreachable or vanish; two
goroutines (reconciler, sweeper) own the same routes; deletion must neither leave
things behind nor wait for ever. The list at line level is `hazards` in
`PROJECT.json`.

What makes the parts correct: teardown in order and nothing left unaccounted;
GPUs handed out oldest first and never waited for by their own holder;
deployment only past healthy prerequisites; one holder per port, kept for the
workspace's lifetime; first cause of failure kept; deletion, waiting and routing
eventually resolve; every cluster a Colony created stays deletable, Ready means
that the clusters asked for are there, one broken entry holds nobody up; a release
carries the resources its status shows and nothing a user wrote vanishes from it
unnoticed.

## 2. Modules

| Module | What it is |
|---|---|
| `WorkspaceDeployment` | reconciler, GPU gate, prerequisites, ServiceSet, namespace and route cleanup, with k0rdent, the scheduler, clusters and users around them |
| `WorkspaceLifecycle` | abstract specification of the life of a workspace as its user sees it |
| `MCWorkspaceDeployment` | instances of `WorkspaceDeployment` for TLC |
| `WorkspaceDeploymentProofs` | theorems about types and the order of teardown |
| `WorkspaceStatusProofs` | theorems about the status: failures, the order of service, what stands behind Running, and the refinement of `WorkspaceLifecycle` |
| `WorkspacePrerequisitesProofs` | theorems about the prerequisite loop, shared installs and waiting |
| `PortPool` | abstract specification of a port pool |
| `Routing`, `MCRouting` | routing provider and orphan sweeper, API call by API call |
| `RoutingProofs` | theorems about it, the refinement of `PortPool` among them |
| `GPUOffering`, `MCGPUOffering` | `DeriveOfferings`, `AvailabilityForSelector` and the GPU side of `computeFeasibility` over a changing child cluster |
| `GPUOfferingProofs` | theorems about it |
| `Colony`, `MCColony` | Colony reconciler with orphan cleanup, ClusterDeployments, kubeconfigs, endpoint ConfigMaps and deletion, API call by API call |
| `ColonyProofs` | theorems about `Colony` |
| `WorkspaceClass`, `MCWorkspaceClass` | class reconciler, and what `startDeployment` makes of a class and a workspace: resources and values |
| `WorkspaceClassProofs` | theorems about it |
| `Induction` | induction over naturals, finite sets and folds, in the form the proofs use |

Definitions that begin with "Mutant:" in their comment are plausible bugs. Each
one stands before the definition it perverts and shows that a property notices.

### WorkspaceDeployment

One reconcile pass is one step. The manager leaves `MaxConcurrentReconciles` at
one, so passes never interleave with each other; every return of `Reconcile`,
`startDeployment`, `checkServiceReadiness` and `reconcileDelete` that changes
state is an action. `PastClass`, `PastCluster`, `PastGate` and
`PastPrerequisites` say how far a pass gets, in the order of the source, so an
action's guard is "got this far and stops here". The parameter `ok` says whether
the pass's API writes go through: with `ok = FALSE` a status write is lost while
objects created before it stay (a ServiceSet, some of several prerequisite
ServiceSets, cleaned routes).

State: the object (`obj`, `fin`, `suspend`, `grace`, the creation order `older`),
its status (`phase`, `failCtx`, `ready`), the ServiceSet and release (`ss`,
`ssState`, `rel`), the child namespace (`ns`), the routes (`routes`), the shared
world (`class`, `cd`, `child`, `regional`, `pss`, `pssNs`, `colony`, `gpus`), and
`gaveUp`, a history variable: the cleanup steps a deletion abandoned, which the code
reports in Warning events, or skipped, which it only logs (`provider.go:252-270`).
`Faults` chooses which disturbances an
instance has.

`older` keeps the order of creation timestamp and UID: a newcomer may be placed
before workspaces created in the same second.

A prerequisite whose values are no JSON object (`object` is false; the CRD accepts
them) cannot be created: `PrerequisitesMissing` creates those before it and ends
without a phase, pass after pass. `Settles` therefore speaks of workspaces that do
not stay blocked by one (`PrerequisiteBlocked`).

`Verdict` is the loop of `evaluatePrerequisites`; `WorstVerdict` is the reference it
is checked against.

`WorkspaceLifecycle` is what a user may rely on, with nothing of clusters, gates and
prerequisites in it: the phases and how they may follow each other, when a failure is
recorded, that Running needs a release reported deployed, that a release stays until
the workspace is deleted. The refinement mapping `Lifecycle` takes phase, failure and
Ready from the status, the life from the object, and `ReleaseSeen` from the
ServiceSet and the state of its entry; `ImplementsLifecycle` says that every step is
a step of one workspace's abstract life or is not seen in it. The abstract life also
records what is weaker than one might expect: a Failed workspace may return to
Pending, Ready outlives a failure, and Running may fall back to
InstallingPrerequisites (section 3).

The environment (k0rdent adopting, installing, reporting and uninstalling a
ServiceSet, the scheduler binding pods, the ClusterDeployment being torn down) is
modelled from what the operator's code and comments rely on, and is marked
external in the map.

### Routing and PortPool

A pass of `EnsureRoutes` is a sequence of steps (mirror namespace, then one
endpoint after another, then the status write), with the listeners read once at
its start. The sweeper's steps (list workspaces, list namespaces, delete
TCPRoutes, delete namespace) interleave with it. Admins resize the pool and
clusters fail between any two calls. The sweeper always runs: the manager registers
the provider and adds its sweeper unconditionally. `missed` is a history variable, the
workspaces that were created under a sweep whose list of active names lacks them, and
that this sweep may therefore hit; a new life of the name outside a sweep ends it.
`AdvertisedIsOwn` and `PortKept` except these workspaces, and nobody else: what a
sweep does to one of them never reaches another. A workspace is created, deployed and
Running in one step, so that all of this can fall between two calls of a sweep, which
have no bound on their time. The refinement mapping `Lease` reads the
holder of each port off the TCPRoutes; `ImplementsPool` says that every step is a
step of `PortPool` or leaves the pool alone. A listener section is identified with
its port.

### GPUOffering

The state is a child cluster: node labels, allocatable GPUs, schedulability, pods.
`Offerings` is what `DeriveOfferings` publishes, `Found`, `FreeGpus` and
`ResourceName` what `AvailabilityForSelector` returns. `FreeOn` is the
scheduler's own view, against which the properties are stated. `FeasibleGpus` is
what `computeFeasibility` counts as available for a vendor and a type; `Products`
lists the product labels that contain a type's name. In
`WorkspaceDeployment` the nodes matching a selector are a number of GPUs that is
zero until they have joined.

### Colony

The Colony's worker runs one pass at a time, and `pass` is that pass: `step` says
where it is, `seen` is the spec and `refs` the references of the copy in memory,
`todo` the clusters its current loop has still to visit. The answer of a status
patch replaces the copy, so `seen` becomes current after one, which is what the
client does. A step is one API call that changes something; users edit the list,
k0rdent builds and destroys clusters and the garbage collector deletes what lost
its owner between any two steps. The loops visit clusters in any order; the code
takes them in list order, which users choose. The outputs of a pass (ConfigMaps,
kubeconfigs) are one step, since nothing between them is read back in that pass.

An entry of the list is absent, `bare` (no `ClusterDeploymentSpec`), `bad` (it does
not decode) or one of two contents. `owned` tells a ClusterDeployment of the Colony
that exists from one of a deleted Colony of the same name: the code updates both,
the garbage collector deletes the second. `lost` is a history variable, the
clusters whose reference went with a failed status write.

### WorkspaceClass

Helm values are a tree, given as a function from paths to nothing, a map or a leaf,
and `SetNestedValue`, `MergeValues` and the rest are functions on trees; a path that
does not parse is the empty one. The class reconciler evaluates in one step and
updates the status in the next: an edit in between makes the update conflict, and a
successful update wakes the reconciler again, because its watch has no predicate.
`StartDeployment` writes the ServiceSet, `WriteDeploying` or `DeployingLost` ends
the pass. `made` is a history variable: the class and the workspace spec the
release was made from, and the vendor of the nodes with the model asked for, when the
pass found any. The nodes are of either vendor (`NodesFound`), whatever vendor the
class or the user named, and `ResourceForVendor` gives the two resource names. Of `startDeployment` this module has the resources and
values; its other exits are in `WorkspaceDeployment`. `gpuType` stands for both
ways to ask for a model (`gpuType`, `gpuNodeSelector`).

## 3. Runs

Passing:

| Run | Shows | Instance |
|---|---|---|
| `gpu` | `NeverWaitsOnItself`, `RunningIsBacked`, `ServedOldestFirst`, `WaitingResolves` | two workspaces, one needs both GPUs, the other one; nodes may join late, the child gets out of reach, Helm fails when pods do not fit |
| `deletion` | `TypeOK`, `NamespaceAfterUninstall`, `NoOrphans`, `FrontDoorFirst`, `ImplementsLifecycle`, `DeletionCompletes` | one routed workspace, nine kinds of fault at once (lost writes, API errors, ClusterDeployment, child API, kubeconfig secret, regional cluster, suspension, Helm, values), created and deleted again and again |
| `prerequisites` | `PrerequisitesBeforeDeploying`, `VerdictIsWorst` | a workspace with two prerequisites; installs fail, drift, vanish; the colony comes and goes; writes get lost. The verdict is compared for all lists of up to two prerequisites, eight of three and lists with a version constraint |
| `prerequisites_shared` | `ServedWhereAsked`, `FirstFailureWins`, `Settles` | two classes that come and go want one template in different namespaces, one of them a second template with values that do not decode; ServiceSet writes, Helm and values fail |
| `routing_sweep` | `TypeOK`, `PortExclusive`, `AdvertisedIsOwn`, `ImplementsPool`, `PortKept` | two symmetric workspaces with a TCP endpoint each, two ports, one of them resizable, the sweeper beside them |
| `routing_live` | `OrphansReclaimed`, `EventuallyRouted` | one workspace with an HTTP and two TCP endpoints, with the sweeper |
| `gpu_offering` | `AdvertisedIsGated`, `NeverOverReports`, `SingleGpuPlaceable`, `FeasibleIsFree` | two NVIDIA nodes, one AMD node, four label profiles, two pods; every vendor and two types asked for |
| `colony` | `TypeOK`, `ClustersReferenced`, `ReadyIsBacked`, `GoneAfterClusters` | two symmetric clusters, entries with and without content; calls and writes fail, health changes; the Colony is deleted and recreated |
| `colony_live` | `VolumesReclaimed`, `Converges`, `FailureIsolated`, `ColonyDeletionCompletes` | an entry nobody can decode beside a regional child that comes and goes; status writes get lost, children are out of reach |
| `class_values` | `TypeOK`, `StatusSettled`, `InjectionWins`, `ValuesKept` | classes with and without defaults, with a path that does not parse, and with paths that meet what users wrote; nodes of either vendor; lost writes, failing node lists |

The run `gap_regated_lost_write` ends in a violation of `NeverWaitsOnItself`: the
Deploying write is lost after the ServiceSet was created, and the next pass waits
for GPUs its own pods hold, which a comment excludes. The run `gap_swept_live_route`
ends in a violation of `PortSticky`, which is `PortKept` without its exception: a
sweep lists the active names, a workspace is created and routed, the sweep lists the
namespaces and deletes the live route, which two comments exclude. It heals, as
`EventuallyRouted` shows, though the port may be another one. `findings` has the
quotations.

Other divergences between code and comments or documents, seen while modelling and
without a run of their own:

- a deletion waits for ever for the Helm uninstall on a dead child whose
  ClusterDeployment stays (`workspacedeployment_controller.go:995`; the comment at
  948-951 says no step can keep a workspace in Deleting for ever).
  `DeletionCompletes` assumes the child does not stay dead;
- a missing prerequisite whose values are no JSON object makes every pass fail without
  a phase that says so (`prerequisites.go:166`, `workspacedeployment_controller.go:786`):
  the workspace stays in whatever phase it had. `Settles` excepts it;
- the resource name comes from the nodes with the model asked for, whatever vendor the
  class or the user named (`workspacedeployment_controller.go:639-648`; the comment at
  628-633 calls the nodes' vendor authoritative): a class of vendor AMD on nodes with
  NVIDIA GPUs keeps AMD in the status and in `_exalsius`, and requests
  `nvidia.com/gpu`. `InjectionWins` states what holds: the request follows the nodes,
  and the status as well unless the class or the user named a vendor;
- free GPUs are summed over nodes, so a replica that needs two passes the gate with
  one free on each of two nodes (`:492`; ADR 0002:70-71 says a passing request is
  placeable). `SingleGpuPlaceable` is what holds;
- a drifting prerequisite sends a Running workspace back to
  `InstallingPrerequisites` and from there through the GPU gate
  (`workspacedeployment_controller.go:176`; the comment at 161-162 excludes it);
- a Failed workspace returns to Pending when its ClusterDeployment is absent
  (`:337`; `:193` and ADR 0002 call Failed terminal);
- any API error while creating the ServiceSet is terminal (`:283`; ADR 0002 keeps
  transient problems out of Failed);
- `markFailed` leaves Ready=True on a workspace that was Running;
- a prerequisite already installed by a workspace and later added to the colony is
  installed twice (`prerequisites.go:291`; `docs/concepts.md:119` says at most once);
- a prerequisite without a provider is not installed while a later one of the class
  is installing (`prerequisites.go:344` against the comment at 398);
- the selector of a product-labelled offering also matches nodes with the canonical
  label, which another offering counts (`offering.go:154` against 102-103);
- on a node with GPUs of both vendors the pods of one vendor are not subtracted
  (`offering.go:389` against 349-350);
- a ClusterDeployment without a Ready condition counts as ready, so a Colony is Ready
  the moment its clusters are created (`colony_controller.go:495`; the comment at
  462-464 asks for the condition);
- a pending orphan deletion ends the pass before clusters are ensured and status is
  written (`colony_controller.go:119`; the comment at 113 calls it non-blocking);
- a failed status write forgets ClusterDeployments just created; if their entry is
  taken off meanwhile, nothing but the deletion of the Colony removes them
  (`clusterdeployment.go:137-139` calls an earlier write redundant);
- an entry that loses its `ClusterDeploymentSpec` keeps its reference and cluster;
  the counts then differ, and the Colony stays Provisioning;
- deletion walks the spec and not the references (`colony_controller.go:377`): a
  cluster just taken off the list is left to the garbage collector and its volume to
  nobody; a failed PVC deletion is forgotten as well;
- the mirrored kubeconfigs have no owner, and that of the aggregated secret is set
  after the write (`colony_controller.go:309`), so both outlive the Colony;
- a value on the way to an injected path is replaced without the warning that the
  comment on `setNestedValue` announces (`inject.go:178-179`, `:189`);
- injection paths may overlap each other or `_exalsius`, and then the later write wins
  (`inject.go:267` says operator injection always wins);
- when the node list fails while the GPU resource is resolved, the release gets the
  node selector without the name of the resource (`:650`);
- which malformed path a class's status names depends on Go's map order, so the
  message may change from pass to pass (`inject.go:225`);
- an error reading the template is recorded as a verdict and not retried
  (`workspaceclass_controller.go:109`): two in a row leave the class invalid until
  something changes.

### Bounds, and why they are enough

The only bounds are the sizes of the constant sets; no counter is cut off.
Deletion, failure forensics and routing cleanup of one workspace do not read
another workspace, so one workspace under many faults reaches what many could. Its
class stays there; classes come and go in `prerequisites_shared`, where in turn no
status write is lost (`prerequisites` has lost writes, and the theorems have all
faults together). Competition needs two workspaces. Two prerequisites give the
order-dependent verdicts and a pass that fails between two creations; the verdict is also compared for three. Two ports and
two workspaces give collision, exhaustion while a listener is gone, and a port that
changes hands under a sweep. In `GPUOffering` the bounds
`MaxGpus` and `MaxReplicas` let demand exceed the pool. In `Colony` two clusters give
counts that cancel out, one cluster going while the other is ensured, and a broken
neighbour; the loops treat clusters alike. The two Colony runs divide the work: in
`colony` no control plane comes up and calls fail at every point, which covers an
entry that does not decode; in `colony_live`
one does, with its volume, kubeconfig and addresses, behind a load balancer, which
passes through every endpoint. Failing PVC deletions are in the model and in neither
run, because no property about volumes survives them. In `WorkspaceClass` one class
and one workspace suffice: neither reads another; the paths are chosen so that a user
value lies above, at and below injected ones. The theorems below hold for all sizes.

### Fairness

`WorkspaceDeployment` assumes weak fairness of a pass whose writes land
(controller-runtime requeues failing passes with backoff, and every waiting exit
sets `RequeueAfter`), of k0rdent, Sveltos, scheduler and garbage collection for
one workspace taken together, of a prerequisite install on a reachable cluster, of
the grace period's clock and of the teardown of a cluster being deleted. Nothing
makes an unreachable cluster come back: properties that need it say so in their
hypothesis. `Routing` assumes that passes go on, that a pass over each Running
workspace starts again and again (strong fairness: the single worker serves its
queue in order, other workspaces' passes keep disabling the start), that a
deletion is retried, that a terminating namespace ends and that the sweeper ticks.
Neither a skipped cleanup nor any admin action is forced. `Colony` assumes weak
fairness of the steps of a pass, of k0rdent's work on each cluster and of the garbage
collector, and strong fairness of the calls that may fail (status writes, the last
write of a deletion, the outputs with every child in reach): the controller retries
every pass that fails, and a healthy pass also returns after five minutes, so a call
that is possible again and again succeeds at last. Edits, deletions and faults are
never forced. `WorkspaceClass` has safety properties only; `StatusSettled` speaks of
the states in which its queue is empty.

`WaitingResolves` assumes that the free GPUs suffice for everyone in the line and
that nobody in it is suspended: ADR 0002 accepts head-of-line blocking.

## 4. Proofs

Every safety property that a passing run checks is also a theorem, for all sizes of the
constant sets. Assumptions: the named ASSUMEs of the modules, which state the types
of the constants, finiteness of nodes and pods, that `NoSelector` and `NoWorkspace`
lie outside their sets, and that the word `"selector"`, with which `WorkspaceClass`
marks the node selector the operator writes, is not a value of a class or a user.
Where a property holds only without certain faults the theorem says so, and the
table gives the reason the code has for it.

| Theorem | Only if | Why |
|---|---|---|
| `PortKeptHolds`, `AdvertisedIsOwnHolds` | for a workspace not created in the middle of a sweep (in the properties) | the sweep removes its live routes (`gap_swept_live_route`) |
| `RunningIsBackedHolds` | nobody deletes the ClusterDeployment | the pods go with the cluster, the status stays until the next pass |
| `ServedWhereAskedHolds` | shared installs and colony services are left alone | a drifted install is noticed on the next pass only |
| `NeverWaitsOnItselfHolds` | writes land; cluster, installs and colony are left alone | `gap_regated_lost_write` shows the violation with a lost write; a drifting prerequisite sends a Running workspace back to the gate |
| `VolumesReclaimedHolds` | PVC deletions succeed | a failed one is forgotten (section 3) |
| `NeverOverReportsHolds`, `SingleGpuPlaceableHolds` | no node mixes vendors (`OneVendor`) | pods of the other vendor are not subtracted there (section 3) |

`WorkspaceDeploymentProofs`:

- `TypeCorrect`: `Spec => []TypeOK`. Status writes, `markFailed`, the removal of an
  object and status-only passes are lemmas; each action is a case.
- `TeardownHolds`: `Spec => []Teardown`, from which `NamespaceAfterUninstallHolds`,
  `NoOrphansHolds` and `FrontDoorFirstHolds` follow. The three properties are not
  inductive: that an object vanishes only after what it owns needs to know that
  nothing is owned before the finalizer is on (`Finalized`), since an object without
  it is dropped at once; that the routes went before the uninstall needs that a
  ServiceSet is deleted only for a workspace being deleted, because only a live one
  gets routes (`RoutesFirst`); that a namespace never terminates under a release
  needs that a release outlives its ServiceSet only on a cluster being destroyed,
  and that a destroyed cluster holds nothing when it is recreated (`ReleaseFirst`).

`WorkspaceStatusProofs` first summarises what every step does to the object and the
status of one workspace (`StatusStep`), so that the theorems look at a handful of
status writes and not at every exit of a pass:

- `FailureExplainedHolds` (a Failed workspace names a phase of work) and
  `FirstFailureWinsHolds`, from `Explained`: besides the former, only an object being deleted is in phase Deleting. Without that a live
  workspace might fail from it, and the failure context would name no phase of work.
- `ImplementsLifecycleHolds`: the refinement of `WorkspaceLifecycle`, under every
  combination of faults. It is proved exit by exit: a pass that falls back is a
  `HoldUp`, a failing one a `Fail` or, on a Failed workspace, no step at all, a lost
  write no step or a `Deploy` that does not show. It rests on four invariants:
  `TypeOK`; `Teardown`, because only a workspace being deleted may lose its ServiceSet
  and one without a finalizer has none; `Explained`, because a repeated failure must
  find the first one on record and no live workspace may be Deleting; and `Recorded`,
  that a new ServiceSet has no old report (a recreated workspace would else run on the
  report of its predecessor) and that nothing is shown before the finalizer is on (its
  object is dropped at once).
- `ReleaseKeptHolds`, a consequence of the abstract life: a live workspace that is
  Deploying or Running has a ServiceSet that nobody is deleting. `checkServiceReadiness`
  polls when it finds none, and nothing creates one in these phases, so without it a
  workspace could stay Deploying for ever.
- `ServedOldestFirstHolds`, from the guard of the gate at the step itself.
- `RunningIsBackedHolds`, from `Backed`: a release reported Deployed is placed and its
  ServiceSet is there, which is what a pass relies on when it writes Running, and an
  object that does not exist is not Running when it is created.

`WorkspacePrerequisitesProofs`:

- `VerdictIsWorstHolds`: the loop of `evaluatePrerequisites` gives the worst verdict,
  for lists of any length. By induction on how far the loop has got.
- `PrerequisitesBeforeDeployingHolds`: from what a `Satisfied` verdict means.
- `ServedWhereAskedHolds`, from `Served`: that the colony runs none of the shared
  services, so every healthy one is an install of its own whose namespace stays.
- `NeverWaitsOnItselfHolds`, from `Held`: a workspace that has not started deploying
  has no ServiceSet, and one with a ServiceSet has healthy prerequisites, so that no
  pass sends it back before the gate.

`RoutingProofs`:

- `TypeCorrect`: `Spec => []TypeOK`.
- `PortExclusiveHolds`: `Spec => []PortExclusive`, with the sweeper. Steps that only
  free ports keep it (`FreeingKeepsExclusive`); a new allocation is the endpoint's own
  port or one nobody holds (`AllocatedPortIsOwnOrFree`).
- `ImplementsPoolHolds`: the refinement of `PortPool`, with the sweeper. The mapping
  chooses the holder of a port among the TCPRoutes, so it is well defined because of
  `PortExclusive`; then a step that writes one route is a lease, a step that removes
  routes a release, and all others leave the mapping alone.
- `PortKeptHolds`: `Spec => PortKept`, with the sweeper, from `SweepInv`. A workspace
  that loses a route to a sweep was visited by it: what a sweep has still to visit is
  not in its active set (`SweepShape`), and a workspace that exists and is not in that
  set was missed (`UnlistedIsMissed`). The mirror namespace of any other workspace
  terminates only after its ports were freed (`FreedBeforeTerminating`), or the end of
  a predecessor's namespace could take a port of its successor.
- `AdvertisedIsOwnHolds`, with the sweeper, from the same invariant and `Advertised`: what a status shows, and what a pass in
  progress is about to write there, is held by the workspace's own routes; an object
  that is gone leaves no pass behind that could write for its successor.

`GPUOfferingProofs`: the properties are about sums over nodes and pods. The first part
says what sums over finite sets do (`SumFunctionOnSet` of the community modules): they
are naturals, are monotone, and split and regroup. `WellFormed` is the invariant: GPU
counts are naturals and a node advertises only what it carries.

- `AdvertisedIsGatedHolds`: the nodes of an offering are among those its selector finds.
- `NeverOverReportsHolds`: what a node has allocatable is at most what is free on it
  plus what pods hold there, and on a node of one vendor the gate subtracts every such
  pod; the sums keep the inequality.
- `SingleGpuPlaceableHolds`: with one kind of GPU, what the gate counts free is at
  most the number of single-GPU replicas that fit.
- `FeasibleIsFreeHolds`: node by node and vendor by vendor.

`ColonyProofs`:

- `TypeCorrect`: `Spec => []TypeOK`.
- `PassKnowsHolds`: `Spec => [](TypeOK /\ PassKnows)`, from which
  `ClustersReferencedHolds`, `ReadyIsBackedHolds` and `GoneAfterClustersHolds` follow.
  None of the three is inductive. A reference is dropped by a patch some steps after
  its cluster was found gone: it needs that what a pass found gone stays gone, because
  only a pass creates clusters (the step is past then). A write replaces all
  references: it needs that the copy in memory has every stored one. Ready is decided
  by counts: what carries it is that, with nothing failed and nothing left to ensure,
  each wanted cluster is among the references, and that none of these is unready; the
  equality of the counts is not needed. The finalizer goes when nothing is pending:
  it needs that each cluster the pass has dealt with is gone.
- `VolumesReclaimedHolds`, from `VolumesGone`: what a pass found gone has left no
  volume behind, and a volume comes back only with a cluster.

`WorkspaceClassProofs`:

- `StatusSettledHolds`: between the read and the write of the reconciler either
  nothing changed, or the queue holds another pass.
- `TypeOKHolds`, `InjectionWinsHolds` and `ValuesKeptHolds`, from `Consistent`. The two
  last speak of a workspace that is Deploying, but the release is written a step
  before the status: the invariant says that the status to be written (`job`) is borne
  out by the release as well, and that a release is replaced only while the status
  promises nothing. That `startDeployment` bears its status out is a fact about the
  operators: what one `setNestedValue` does to a path above, at, below and apart from
  its own (`Injected`, `Clear`), carried through the loops over the paths of a field
  (`FieldEffect`), over the fields of a class (`ClassEffect`) and over the standard keys
  (`StandardEffect`), and then through the sequence of the four injections
  (`ReleaseWins`, `ReleaseKeeps`).

`Induction`: the library's induction theorems take a predicate, which the installed
provers cannot instantiate. This module states the same of sets: a nonempty set of
naturals has a least element, a nonempty family of finite sets a minimal one. From
these it follows that functions defined by recursion exist and that folds over finite
sets and sequences are such functions; a loop is then reasoned about as a run, value
after value. The models use folds and recursive functions for the same reason.

Only model-checked is all liveness: `Settles`, `WaitingResolves`, `DeletionCompletes`,
`OrphansReclaimed`, `EventuallyRouted`, `Converges`, `FailureIsolated` and
`ColonyDeletionCompletes`. Fairness and ENABLED are out of the prover's reach.

## 5. Not modelled

- Cache lag: reads of the controller's cached client are exact in the models.
- Several ClusterDeployments: workspaces compete and share only within one.
- Edits of a live workspace's spec; changes of the node pool between gate and
  placement in `WorkspaceDeployment`, where GPU nodes only join (`GPUOffering` has them
  leave).
- A list of classes that fails in the watch on templates, which drops the event
  (`workspaceclass_controller.go:141-147`); it is a read of the cache.
- GPUs requested by init and sidecar containers, which the scheduler counts and
  `offering.go:410-414` does not; the two product labels of NVIDIA nodes are one.
- Hostnames, mirror Services, route acceptance and TLS in `Routing`.
- `status.conditions` other than Ready, events, messages, `ObservedGeneration`.
- CPU, memory and storage in the feasibility verdict, its demand side (an int32
  product without a maximum, `feasibility.go:160`) and its message.
- In `Colony`: selection of the control plane Service by labels and ports, the merge
  of labels and annotations, transient reads between the outputs of a pass.
- The grammar of injection paths: paths are given parsed, or as malformed.
- Colony services and shared installs that k0rdent reports wrongly: a failed colony
  service counts as installing (`prerequisites.go:332`), a shared install keeps its
  status when the cluster is replaced.
- Route naming: hostnames and mirror names are truncated and hashed strings, and
  whether two meet is a question about string contents.
- Preflight check (one read at start) and manager (flags and wiring).

## 6. Plan

Done: the core, `Colony`, `WorkspaceClass` with injection and merging, feasibility,
the two abstract specifications `PortPool` and `WorkspaceLifecycle` with the proofs
that they are implemented; proofs of all safety properties.

Next, in this order:

1. Cache lag in `WorkspaceDeployment`: the ServiceSet as last seen, so that a
   deletion can miss a ServiceSet and a creation can meet one.
2. Composition of `Colony` and `WorkspaceDeployment` through the ClusterDeployment.

## 7. Running

    tlc -workers 2 -config deletion.cfg MCWorkspaceDeployment
    tlapm WorkspaceDeploymentProofs.tla
