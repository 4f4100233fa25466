------------------------------ MODULE GPUOffering ------------------------------
(***************************************************************************)
(* GPU discovery and GPU capacity as internal/gpu computes them from the   *)
(* nodes and pods of a child cluster: DeriveOfferings, which the Colony    *)
(* publishes for users to pick from, and AvailabilityForSelector, on which *)
(* the WorkspaceDeployment gate decides.  The cluster is the state; its    *)
(* nodes and pods change, and every property relates what the two          *)
(* functions say to what the scheduler can really do.  The feasibility     *)
(* verdict in a workspace's status is computed from the same nodes and     *)
(* pods in a way of its own; its GPU part is here too.                     *)
(*                                                                         *)
(* Nodes are numbered in the order the API lists them.  A node's GPU       *)
(* labels are one of a few profiles; a pod requests one kind of GPU.       *)
(***************************************************************************)
EXTENDS Naturals, FiniteSetsExt

CONSTANTS
    Nodes,      \* node numbers
    Carries,    \* Carries[n]: GPU resources node n can advertise
    MaxGpus,    \* bound on the GPUs of one kind on one node
    Profiles,   \* GPU label sets of nodes: functions on LabelKeys
    Pods,
    PodRes,     \* PodRes[p]: GPU resource the pod requests
    PodGpus,    \* PodGpus[p]: how many
    MaxReplicas,\* bound on the replicas of a request
    Products    \* Products[t]: product labels that contain GPU type t

Resources == {"nvidia.com/gpu", "amd.com/gpu"}
LabelKeys == {"gpu-model", "gpu-vendor", "nvidia.product", "amd.product-name", "amd.device-id"}
NoNode == 0

ASSUME ClusterAssumption ==
    /\ Nodes \subseteq Nat \ {NoNode} /\ IsFiniteSet(Nodes) /\ IsFiniteSet(Pods)
    /\ Carries \in [Nodes -> SUBSET Resources]
    /\ MaxGpus \in Nat /\ MaxReplicas \in Nat
    /\ \A l \in Profiles : DOMAIN l = LabelKeys
    /\ "any" \notin DOMAIN Products
    /\ PodRes \in [Pods -> Resources] /\ PodGpus \in [Pods -> Nat]

VARIABLES
    labels,     \* labels[n]: the node's GPU labels, "" when absent
    alloc,      \* alloc[n][r]: allocatable GPUs
    sched,      \* the node is Ready and not cordoned
    pod         \* pod[p]: the node it is bound to and its phase

vars == <<labels, alloc, sched, pod>>

(***************************************************************************)
(* Discovery (DeriveOfferings)                                             *)
(***************************************************************************)
VendorOf(n, r) ==
    IF labels[n]["gpu-vendor"] # "" THEN labels[n]["gpu-vendor"]
    ELSE IF r = "nvidia.com/gpu" THEN "NVIDIA" ELSE "AMD"

ProductLabels(vendor) ==
    CASE vendor = "NVIDIA" -> <<"nvidia.product">>
      [] vendor = "AMD"    -> <<"amd.product-name", "amd.device-id">>
      [] OTHER             -> <<>>

Label(k, v) == [key \in {k} |-> v]
NoSelector == [key \in {} |-> ""]

\* Mutant: the product name is published under the canonical label.
ResolveSelectorCanonical(n, keys) ==
    LET present == {i \in DOMAIN keys : labels[n][keys[i]] # ""}
    IN  IF labels[n]["gpu-model"] # "" THEN Label("gpu-model", labels[n]["gpu-model"])
        ELSE IF present = {} THEN NoSelector
        ELSE Label("gpu-model", labels[n][keys[Min(present)]])

\* resolveModelSelector: the canonical label, else the first product label.
ResolveSelector(n, keys) ==
    LET present == {i \in DOMAIN keys : labels[n][keys[i]] # ""}
    IN  IF labels[n]["gpu-model"] # "" THEN Label("gpu-model", labels[n]["gpu-model"])
        ELSE IF present = {} THEN NoSelector
        ELSE Label(keys[Min(present)], labels[n][keys[Min(present)]])

Identity(n, r) ==
    [vendor |-> VendorOf(n, r), res |-> r,
     selector |-> ResolveSelector(n, ProductLabels(VendorOf(n, r)))]

\* Schedulable nodes and the GPU resources they advertise.
Advertising == {nr \in Nodes \X Resources : sched[nr[1]] /\ alloc[nr[1]][nr[2]] > 0}

\* What they advertise.
Advertised == [nr \in Nodes \X Resources |-> alloc[nr[1]][nr[2]]]

Offerings == {Identity(nr[1], nr[2]) : nr \in Advertising}

OfferingTotal(o) ==
    SumFunctionOnSet(Advertised, {nr \in Advertising : Identity(nr[1], nr[2]) = o})

(***************************************************************************)
(* Capacity (AvailabilityForSelector)                                      *)
(***************************************************************************)
Matches(n, sel) == \A k \in DOMAIN sel : labels[n][k] = sel[k]

Matched(sel) ==
    IF sel = NoSelector THEN {} ELSE {nr \in Advertising : Matches(nr[1], sel)}

Found(sel) == Matched(sel) # {}

\* A node is remembered with one resource: the last one it advertises.
MatchedResource(n) ==
    IF alloc[n]["amd.com/gpu"] > 0 THEN "amd.com/gpu" ELSE "nvidia.com/gpu"

\* Mutant: only running pods count.
PodConsumesRunning(p) == pod[p].node # NoNode /\ pod[p].phase = "Running"

PodConsumes(p) == pod[p].node # NoNode /\ pod[p].phase # "Done"

\* PodGpus[p] is what the containers of p request; init containers, which the code
\* does not look at, request nothing here.
UsedGpus(sel) ==
    SumFunctionOnSet(PodGpus,
        {p \in Pods : /\ PodConsumes(p)
                      /\ pod[p].node \in {nr[1] : nr \in Matched(sel)}
                      /\ PodRes[p] = MatchedResource(pod[p].node)})

TotalGpus(sel) == SumFunctionOnSet(Advertised, Matched(sel))

\* Mutant: pods are not subtracted.
FreeGpusTotal(sel) == TotalGpus(sel)

FreeGpus(sel) ==
    IF UsedGpus(sel) >= TotalGpus(sel) THEN 0 ELSE TotalGpus(sel) - UsedGpus(sel)

\* The resource the chart requests: of the first matching node, NVIDIA first.
ResourceName(sel) ==
    LET first == Min({nr[1] : nr \in Matched(sel)})
    IN  IF <<first, "nvidia.com/gpu">> \in Matched(sel) THEN "nvidia.com/gpu" ELSE "amd.com/gpu"

GpuDemand(replicas, each) == replicas * each

PassesGate(sel, replicas, each) ==
    Found(sel) /\ GpuDemand(replicas, each) <= FreeGpus(sel)

(***************************************************************************)
(* Feasibility (computeFeasibility), "any" standing for a field left out   *)
(***************************************************************************)
Vendors == {"any", "NVIDIA", "AMD"}
Types == {"any"} \cup DOMAIN Products

VendorResources(vendor) ==
    {r \in Resources : vendor = "any" \/ (vendor = "NVIDIA") = (r = "nvidia.com/gpu")}

\* The label stands for either of nvidia.com/gpu.product and nvidia.com/gpu.model,
\* which nodeGPUMatches reads alike.
TypeMatches(n, type) == type = "any" \/ labels[n]["nvidia.product"] \in Products[type]

NodeGpus(n, vendor) == SumFunctionOnSet(alloc[n], VendorResources(vendor))

NodeGPUMatches(n, vendor, type) ==
    TypeMatches(n, type) /\ (NodeGpus(n, vendor) > 0 \/ (vendor = "any" /\ type = "any"))

\* The GPUs of consuming pods on matching nodes, of whatever vendor they are.
HeldGpus(vendor, type) ==
    SumFunctionOnSet(PodGpus,
        {p \in Pods : PodConsumes(p) /\ NodeGPUMatches(pod[p].node, vendor, type)})

\* Mutant: cordoned nodes count.
SchedulableGpusAll(vendor, type) ==
    SumFunctionOnSet([n \in Nodes |-> NodeGpus(n, vendor)],
        {n \in Nodes : NodeGPUMatches(n, vendor, type)})

SchedulableGpus(vendor, type) ==
    SumFunctionOnSet([n \in Nodes |-> NodeGpus(n, vendor)],
        {n \in Nodes : sched[n] /\ NodeGPUMatches(n, vendor, type)})

FeasibleGpus(vendor, type) ==
    LET total == SchedulableGpus(vendor, type)
        held == HeldGpus(vendor, type)
    IN  IF held >= total THEN 0 ELSE total - held

(***************************************************************************)
(* The child cluster                                                       *)
(***************************************************************************)
\* What the scheduler can still place on a node.
FreeOn(n, r) ==
    LET held == SumFunctionOnSet(PodGpus,
            {p \in Pods : PodRes[p] = r /\ pod[p].node = n /\ pod[p].phase # "Done"})
    IN  IF held >= alloc[n][r] THEN 0 ELSE alloc[n][r] - held

Init ==
    /\ labels \in [Nodes -> Profiles]
    /\ alloc = [n \in Nodes |-> [r \in Resources |-> 0]]
    /\ sched = [n \in Nodes |-> TRUE]
    /\ pod = [p \in Pods |-> [node |-> NoNode, phase |-> "Pending"]]

Relabel(n) ==
    /\ \E l \in Profiles : labels' = [labels EXCEPT ![n] = l]
    /\ UNCHANGED <<alloc, sched, pod>>

\* The device plugin comes up, or GPUs fail.
DevicePlugin(n) ==
    /\ \E r \in Carries[n], c \in 0 .. MaxGpus : alloc' = [alloc EXCEPT ![n][r] = c]
    /\ UNCHANGED <<labels, sched, pod>>

Cordon(n) ==
    /\ sched' = [sched EXCEPT ![n] = ~@]
    /\ UNCHANGED <<labels, alloc, pod>>

Bind(p, n) ==
    /\ pod[p].node = NoNode /\ sched[n] /\ PodGpus[p] <= FreeOn(n, PodRes[p])
    /\ pod' = [pod EXCEPT ![p] = [node |-> n, phase |-> "Pending"]]
    /\ UNCHANGED <<labels, alloc, sched>>

Run(p) ==
    /\ pod[p].node # NoNode /\ pod[p].phase = "Pending"
    /\ pod' = [pod EXCEPT ![p].phase = "Running"]
    /\ UNCHANGED <<labels, alloc, sched>>

Finish(p) ==
    /\ pod[p].node # NoNode /\ pod[p].phase = "Running"
    /\ pod' = [pod EXCEPT ![p].phase = "Done"]
    /\ UNCHANGED <<labels, alloc, sched>>

\* Garbage collection; the workload may come back under the same name.
Remove(p) ==
    /\ pod[p].node # NoNode
    /\ pod' = [pod EXCEPT ![p] = [node |-> NoNode, phase |-> "Pending"]]
    /\ UNCHANGED <<labels, alloc, sched>>

Next ==
    \/ \E n \in Nodes : Relabel(n) \/ DevicePlugin(n) \/ Cordon(n)
    \/ \E p \in Pods : Run(p) \/ Finish(p) \/ Remove(p) \/ \E n \in Nodes : Bind(p, n)

Spec == Init /\ [][Next]_vars

(***************************************************************************)
(* Properties                                                              *)
(***************************************************************************)
\* Selectors a user can pick from the published inventory.
Published == {o.selector : o \in Offerings} \ {NoSelector}

Free == [nr \in Nodes \X Resources |-> FreeOn(nr[1], nr[2])]

\* What a selector's nodes can still take.
PlaceableGpus(sel) == SumFunctionOnSet(Free, Matched(sel))

\* Replicas of this size that fit on the selector's nodes.
Fit(sel, each) ==
    SumFunctionOnSet([nr \in Nodes \X Resources |-> Free[nr] \div each],
        {nr \in Matched(sel) : nr[2] = ResourceName(sel)})

OneKind(sel) == Cardinality({nr[2] : nr \in Matched(sel)}) = 1

\* Every advertised offering can be asked for: the gate finds the selector
\* it publishes, with at least the advertised number of GPUs behind it.
AdvertisedIsGated ==
    \A o \in Offerings : o.selector # NoSelector =>
        Found(o.selector) /\ TotalGpus(o.selector) >= OfferingTotal(o)

\* The gate never sees more free GPUs than the scheduler does, whatever
\* labels, devices, cordons and pods do, as long as no node mixes vendors.
NeverOverReports ==
    \A sel \in Published : FreeGpus(sel) <= PlaceableGpus(sel)

\* Replicas of one GPU that pass the gate can all be placed, on a selector
\* whose nodes carry one kind of GPU.
SingleGpuPlaceable ==
    \A sel \in Published, replicas \in 1 .. MaxReplicas :
        OneKind(sel) /\ PassesGate(sel, replicas, 1) => replicas <= Fit(sel, 1)

\* The feasibility verdict of a workspace never counts on more GPUs than are
\* free for the scheduler, for every vendor and type it may ask for, wherever
\* pods run and nodes are cordoned.
FeasibleIsFree ==
    \A vendor \in Vendors, type \in Types :
        FeasibleGpus(vendor, type) <=
            SumFunctionOnSet(Free,
                {nr \in Nodes \X VendorResources(vendor) :
                    sched[nr[1]] /\ TypeMatches(nr[1], type)})
==============================================================================
