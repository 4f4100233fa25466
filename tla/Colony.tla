-------------------------------- MODULE Colony --------------------------------
(***************************************************************************)
(* The Colony reconciler: a Colony lists clusters, each becomes a k0rdent  *)
(* ClusterDeployment; clusters taken off the list are deleted; the status  *)
(* collects references, readiness and GPU inventory, and a secret collects *)
(* the kubeconfigs.                                                        *)
(*                                                                         *)
(* One worker serves the Colony, so passes do not overlap.  A pass is a    *)
(* sequence of API calls on the copy of the Colony it read; users edit and *)
(* delete the Colony, and k0rdent builds and destroys clusters, between    *)
(* them.  References added by a pass live in memory until its last step    *)
(* writes the status.                                                      *)
(***************************************************************************)
EXTENDS Naturals, FiniteSets

CONSTANTS
    Clusters,   \* names a Colony may list
    Regional,   \* clusters hosted behind a regional cluster
    Expose,     \* Expose[c]: Service type of the hosted control plane
    Hosted,     \* clusters whose control plane k0rdent can bring up
    Entries,    \* Entries[c]: what users write for c, see Entry
    Faults      \* "write", "api", "pvc", "child", "health"

\* A cluster is not listed, listed without a ClusterDeploymentSpec, with one
\* that cannot be decoded, or with one of two contents.
Entry == {"none", "bare", "bad", "v1", "v2"}
Contents == {"v1", "v2"}

ASSUME ColonyAssumption ==
    /\ IsFiniteSet(Clusters)
    /\ Regional \subseteq Clusters /\ Hosted \subseteq Clusters
    /\ Expose \in [Clusters -> {"ClusterIP", "NodePort", "LoadBalancer"}]
    /\ Entries \in [Clusters -> SUBSET Entry]
    /\ Faults \subseteq {"write", "api", "pvc", "child", "health"}

VARIABLES
    colony,     \* "absent", "live" or "deleting"
    fin,        \* the finalizer is on
    spec,       \* spec[c]: the entry of c in spec.colonyClusters
    refs,       \* status.clusterDeploymentRefs
    phase,      \* status.phase
    inventory,  \* clusters with an entry in status.gpuInventory
    cd,         \* ClusterDeployment: "none", "present" or "deleting"
    content,    \* content[c]: its managed fields
    owned,      \* its owner is the Colony that exists now
    ready,      \* its Ready condition: "unknown", "false" or "true"
    plane,      \* hosted control plane: "none", "starting" or "up"
    pvc,        \* the etcd volume of the control plane exists
    mirror,     \* mirrored kubeconfig of a regional child: "none", "current", "stale"
    aggregated, \* clusters listed in the aggregated kubeconfig secret
    endpoint,   \* ConfigMap in the child: "none", "clusterIP" or "external"
    pass,       \* the pass in progress
    lost        \* history: clusters whose reference a failed write dropped

colonyVars == <<colony, fin, spec>>
statusVars == <<refs, phase, inventory>>
cdVars == <<cd, content, owned>>
hostVars == <<ready, plane, pvc>>
outVars == <<mirror, aggregated, endpoint>>
vars == <<colonyVars, statusVars, cdVars, hostVars, outVars, pass, lost>>

Named(s) == {c \in Clusters : s[c] # "none"}
Wanted(s) == {c \in Clusters : s[c] \notin {"none", "bare"}}

Unlisted == [c \in Clusters |-> "none"]
Idle == [step |-> "idle", seen |-> Unlisted, refs |-> {}, todo |-> {}, gone |-> {},
         failed |-> {}, pending |-> FALSE]

MayFail(kind) == IF kind \in Faults THEN BOOLEAN ELSE {FALSE}

\* The pass ends in an error or with a requeue.
EndPass == pass' = Idle

(***************************************************************************)
(* Reconcile                                                               *)
(***************************************************************************)
AddFinalizer ==
    /\ pass = Idle /\ colony = "live" /\ ~fin
    /\ fin' = TRUE
    /\ UNCHANGED <<colony, spec, statusVars, cdVars, hostVars, outVars, pass, lost>>

\* reconcileColony begins with the references that the spec no longer names.
StartReconcile ==
    /\ pass = Idle /\ colony = "live" /\ fin
    /\ pass' = [Idle EXCEPT !.step = "orphans", !.seen = spec, !.refs = refs,
                            !.todo = refs \ Named(spec)]
    /\ UNCHANGED <<colonyVars, statusVars, cdVars, hostVars, outVars, lost>>

(***************************************************************************)
(* CleanupOrphanedClusterDeployments                                       *)
(***************************************************************************)
\* DeletePVCForClusterDeployment: best effort, on the management cluster and
\* then on every regional one; a failure is logged and forgotten.
DeletePVC(c) ==
    \E failed \in MayFail("pvc") : pvc' = [pvc EXCEPT ![c] = @ /\ failed]

DeleteClusterDeployment(c) ==
    cd' = [cd EXCEPT ![c] = IF @ = "present" THEN "deleting" ELSE @]

\* Mutant: a reference goes as soon as its deletion is requested.
CleanupOrphanEager(c) ==
    /\ pass.step = "orphans" /\ c \in pass.todo
    /\ DeletePVC(c)
    /\ DeleteClusterDeployment(c)
    /\ pass' = [pass EXCEPT !.todo = @ \ {c}, !.gone = @ \cup {c}]
    /\ UNCHANGED <<colonyVars, statusVars, content, owned, ready, plane, outVars, lost>>

\* Mutant: the volume is left to the owner that is gone.
CleanupOrphanVolumeKept(c) ==
    /\ pass.step = "orphans" /\ c \in pass.todo
    /\ DeleteClusterDeployment(c)
    /\ pass' = IF cd[c] = "none"
               THEN [pass EXCEPT !.todo = @ \ {c}, !.gone = @ \cup {c}]
               ELSE [pass EXCEPT !.todo = @ \ {c}, !.pending = TRUE]
    /\ UNCHANGED <<colonyVars, statusVars, content, owned, hostVars, outVars, lost>>

\* Gone: its volume is deleted and the reference may go.  Still there: it is
\* deleted, or awaited.
CleanupOrphan(c) ==
    /\ pass.step = "orphans" /\ c \in pass.todo
    /\ \/ /\ cd[c] = "none"
          /\ DeletePVC(c)
          /\ pass' = [pass EXCEPT !.todo = @ \ {c}, !.gone = @ \cup {c}]
          /\ UNCHANGED cd
       \/ /\ cd[c] # "none"
          /\ DeleteClusterDeployment(c)
          /\ pass' = [pass EXCEPT !.todo = @ \ {c}, !.pending = TRUE]
          /\ UNCHANGED pvc
    /\ UNCHANGED <<colonyVars, statusVars, content, owned, ready, plane, outVars, lost>>

\* References of clusters that are gone are dropped by a patch of their own,
\* whose answer brings the current spec.  A pending deletion ends the pass.
OrphansCleaned ==
    /\ pass.step = "orphans" /\ pass.todo = {}
    /\ refs' = refs \ pass.gone
    /\ LET seen == IF pass.gone = {} THEN pass.seen ELSE spec
       IN  pass' = IF pass.pending THEN Idle
                   ELSE [pass EXCEPT !.step = "ensure", !.seen = seen,
                            !.refs = @ \ pass.gone, !.gone = {}, !.todo = Wanted(seen)]
    /\ UNCHANGED <<colonyVars, phase, inventory, cdVars, hostVars, outVars, lost>>

\* A failed call, or the failed patch, ends the pass.
OrphanCleanupFails ==
    /\ pass.step = "orphans"
    /\ \/ "api" \in Faults /\ pass.todo # {}
       \/ "write" \in Faults /\ pass.todo = {} /\ pass.gone # {}
    /\ EndPass
    /\ UNCHANGED <<colonyVars, statusVars, cdVars, hostVars, outVars, lost>>

(***************************************************************************)
(* EnsureClusterDeployment                                                 *)
(***************************************************************************)
Ensuring(c) == pass.step = "ensure" /\ c \in pass.todo

\* Mutant: the spec is read again when the cluster is written.
ApplyLatest(c) ==
    /\ cd' = [cd EXCEPT ![c] = IF @ = "none" THEN "present" ELSE @]
    /\ content' = [content EXCEPT ![c] = spec[c]]
    /\ owned' = [owned EXCEPT ![c] = IF cd[c] = "none" THEN TRUE ELSE @]

\* A new ClusterDeployment is owned by the Colony; of an existing one only
\* the managed fields are brought up to date, whoever owns it.
Apply(c) ==
    /\ cd' = [cd EXCEPT ![c] = IF @ = "none" THEN "present" ELSE @]
    /\ content' = [content EXCEPT ![c] = pass.seen[c]]
    /\ owned' = [owned EXCEPT ![c] = IF cd[c] = "none" THEN TRUE ELSE @]

\* The reference is added to the copy in memory.
EnsureClusterDeployment(c) ==
    /\ Ensuring(c) /\ pass.seen[c] \in Contents
    /\ Apply(c)
    /\ pass' = [pass EXCEPT !.todo = @ \ {c}, !.refs = @ \cup {c}]
    /\ UNCHANGED <<colonyVars, statusVars, hostVars, outVars, lost>>

\* Mutant: the first failure ends the pass.
EnsureFailsAll(c) ==
    /\ Ensuring(c) /\ pass.seen[c] = "bad"
    /\ EndPass
    /\ UNCHANGED <<colonyVars, statusVars, cdVars, hostVars, outVars, lost>>

\* A spec that cannot be decoded, or a call that fails (updateManagedFields
\* gives up after five conflicts), is collected; the others go on.  A write
\* whose answer is lost may have happened, and leaves no reference.
EnsureFails(c) ==
    /\ Ensuring(c)
    /\ pass' = [pass EXCEPT !.todo = @ \ {c}, !.failed = @ \cup {c}]
    /\ \/ /\ pass.seen[c] = "bad" \/ "api" \in Faults
          /\ UNCHANGED <<cdVars, lost>>
       \/ /\ pass.seen[c] \in Contents /\ "api" \in Faults
          /\ Apply(c)
          /\ lost' = IF c \in pass.refs THEN lost ELSE lost \cup {c}
    /\ UNCHANGED <<colonyVars, statusVars, hostVars, outVars>>

(***************************************************************************)
(* Status, best-effort outputs and kubeconfigs                             *)
(***************************************************************************)
\* updateColonyStatusFromClusters: a ClusterDeployment without a Ready
\* condition counts as ready.
ReadyRefs == {c \in pass.refs : cd[c] # "none" /\ ready[c] # "false"}
AllCounted == Cardinality(ReadyRefs) = Cardinality(Wanted(pass.seen))

\* Mutant: only the numbers are compared.
ColonyPhaseCounted ==
    IF pass.failed # {} THEN "Degraded"
    ELSE IF ~AllCounted THEN "Provisioning" ELSE "Ready"

ColonyPhase ==
    IF pass.failed # {} THEN "Degraded"
    ELSE IF ~AllCounted \/ pass.refs # ReadyRefs THEN "Provisioning" ELSE "Ready"

\* GetClusterClientForCD reads the kubeconfig on the management cluster: for
\* a regional child that is the mirrored one.
Reachable(c) == plane[c] = "up" /\ (c \in Regional => mirror[c] = "current")

\* refreshGPUInventory: an unreachable cluster keeps the entry it had.
RefreshGPUInventory(down) ==
    inventory' = {c \in pass.refs : c \in inventory \/ (Reachable(c) /\ c \notin down)}

\* ResolveRegionalClient: a child of a regional cluster, by its entry in the
\* spec; lookups for other clusters go to the management cluster.
IsRegionalChild(c) == c \in Regional /\ pass.seen[c] # "none"

\* DetermineAPIEndpoint: an external address once there is one; meanwhile the
\* ClusterIP, except that of a NodePort, which remote workers cannot reach.
APIEndpoint(c) ==
    CASE plane[c] = "none" -> "none"
      [] plane[c] = "up" /\ Expose[c] # "ClusterIP" -> "external"
      [] plane[c] = "starting" /\ Expose[c] = "NodePort" -> "none"
      [] OTHER -> "clusterIP"

\* Mutant: an existing ConfigMap is left alone.
EnsureAPIEndpointOnce(c, down) ==
    IF c \in down \/ endpoint[c] # "none" THEN endpoint[c] ELSE APIEndpoint(c)

\* EnsureAPIEndpointConfigMap: created, or updated when the endpoint changed.
EnsureAPIEndpoint(c, down) ==
    IF c \in down \/ APIEndpoint(c) = "none" THEN endpoint[c] ELSE APIEndpoint(c)

\* ensureAPIEndpointConfigMapForAllClusters: no failure stops the others; the
\* Service of a regional child is not found on the management cluster.
EnsureAPIEndpointForAll(down) ==
    endpoint' = [c \in Clusters |->
                   IF c \in pass.refs /\ (c \in Regional => IsRegionalChild(c))
                   THEN EnsureAPIEndpoint(c, down) ELSE endpoint[c]]

\* A regional child's kubeconfig is read on the regional cluster and
\* mirrored; when the regional client is not available an older mirror does.
KubeconfigFound(c, down) ==
    IF IsRegionalChild(c) /\ c \notin down THEN plane[c] # "none"
    ELSE IF c \in Regional THEN mirror[c] # "none" ELSE plane[c] # "none"

\* mirrorKubeconfigSecret, for the clusters the aggregation got to.
Mirror(done, down) ==
    mirror' = [c \in Clusters |->
                 IF c \in done \ down /\ IsRegionalChild(c) THEN "current" ELSE mirror[c]]

\* ensureAggregatedKubeconfigSecretExists stops at the first cluster without
\* a kubeconfig; those before it have been mirrored.
AggregateKubeconfigs(down) ==
    LET found == {c \in pass.refs : KubeconfigFound(c, down)}
    IN  IF found = pass.refs
        THEN Mirror(found, down) /\ aggregated' = pass.refs
        ELSE \E done \in SUBSET found : Mirror(done, down) /\ UNCHANGED aggregated

\* Clusters that do not answer while a pass calls them.
Unreachable == IF "child" \in Faults THEN SUBSET Clusters ELSE {{}}

Ensured == pass.step = "ensure" /\ pass.todo = {}

\* The status is written once, references and inventory included; the answer
\* brings the current spec.
PersistStatus(down) ==
    /\ Ensured
    /\ refs' = pass.refs
    /\ phase' = ColonyPhase
    /\ RefreshGPUInventory(down)
    /\ lost' = lost \ pass.refs
    /\ pass' = [Idle EXCEPT !.step = "outputs", !.seen = spec, !.refs = pass.refs,
                            !.pending = pass.failed # {} \/ ~AllCounted]
    /\ UNCHANGED <<colonyVars, cdVars, hostVars, outVars>>

\* Reading a ClusterDeployment or the write fails: the copy in memory, and
\* with it every new reference, is dropped.
PersistFails ==
    /\ Ensured /\ Faults \cap {"write", "api"} # {}
    /\ lost' = lost \cup (pass.refs \ refs)
    /\ EndPass
    /\ UNCHANGED <<colonyVars, statusVars, cdVars, hostVars, outVars>>

\* ConfigMaps go to every child; the kubeconfigs are aggregated only when the
\* number of ready clusters is the number wanted.
WriteOutputs(down) ==
    /\ pass.step = "outputs"
    /\ EnsureAPIEndpointForAll(down)
    /\ IF pass.pending THEN UNCHANGED <<mirror, aggregated>> ELSE AggregateKubeconfigs(down)
    /\ EndPass
    /\ UNCHANGED <<colonyVars, statusVars, cdVars, hostVars, lost>>

(***************************************************************************)
(* handleColonyDeletion                                                    *)
(***************************************************************************)
\* The phase is written (retried on conflict, on the latest copy) before the
\* clusters of the spec are deleted one by one.
StartDeletion ==
    /\ pass = Idle /\ colony = "deleting"
    /\ phase' = "Deleting"
    /\ pass' = [Idle EXCEPT !.step = "delete", !.seen = spec, !.todo = Named(spec)]
    /\ UNCHANGED <<colonyVars, refs, inventory, cdVars, hostVars, outVars, lost>>

\* Mutant: a deletion that was requested counts as done.
CleanupAssociatedEager(c) ==
    /\ pass.step = "delete" /\ c \in pass.todo
    /\ DeletePVC(c)
    /\ DeleteClusterDeployment(c)
    /\ pass' = [pass EXCEPT !.todo = @ \ {c}]
    /\ UNCHANGED <<colonyVars, statusVars, content, owned, ready, plane, outVars, lost>>

\* Mutant: a cluster that is not found is awaited like one that is there.
CleanupAssociatedAgain(c) ==
    /\ pass.step = "delete" /\ c \in pass.todo
    /\ DeletePVC(c)
    /\ DeleteClusterDeployment(c)
    /\ pass' = [pass EXCEPT !.todo = @ \ {c}, !.pending = TRUE]
    /\ UNCHANGED <<colonyVars, statusVars, content, owned, ready, plane, outVars, lost>>

CleanupAssociatedResources(c) ==
    /\ pass.step = "delete" /\ c \in pass.todo
    /\ \/ /\ cd[c] = "none"
          /\ DeletePVC(c)
          /\ pass' = [pass EXCEPT !.todo = @ \ {c}]
          /\ UNCHANGED cd
       \/ /\ cd[c] # "none"
          /\ DeleteClusterDeployment(c)
          /\ pass' = [pass EXCEPT !.todo = @ \ {c}, !.pending = TRUE]
          /\ UNCHANGED pvc
    /\ UNCHANGED <<colonyVars, statusVars, content, owned, ready, plane, outVars, lost>>

Deleted == pass.step = "delete" /\ pass.todo = {}

DeletionPending ==
    /\ Deleted /\ pass.pending
    /\ EndPass
    /\ UNCHANGED <<colonyVars, statusVars, cdVars, hostVars, outVars, lost>>

\* The finalizer goes, and the Colony with it.  What it still owned is left
\* to the garbage collector; the secrets have no owner.
RemoveFinalizer ==
    /\ Deleted /\ ~pass.pending
    /\ colony' = "absent" /\ fin' = FALSE /\ spec' = Unlisted
    /\ refs' = {} /\ phase' = "" /\ inventory' = {}
    /\ owned' = [c \in Clusters |-> FALSE]
    /\ lost' = {}
    /\ EndPass
    /\ UNCHANGED <<cd, content, hostVars, outVars>>

\* A call or the last write fails, and the deletion starts over.
DeletionFails ==
    /\ pass.step = "delete"
    /\ \/ "api" \in Faults /\ pass.todo # {}
       \/ "write" \in Faults /\ Deleted /\ ~pass.pending
    /\ EndPass
    /\ UNCHANGED <<colonyVars, statusVars, cdVars, hostVars, outVars, lost>>

(***************************************************************************)
(* Users                                                                   *)
(***************************************************************************)
CreateColony ==
    /\ colony = "absent"
    /\ colony' = "live"
    /\ UNCHANGED <<fin, spec, statusVars, cdVars, hostVars, outVars, pass, lost>>

EditSpec(c, e) ==
    /\ colony # "absent" /\ spec[c] # e
    /\ spec' = [spec EXCEPT ![c] = e]
    /\ UNCHANGED <<colony, fin, statusVars, cdVars, hostVars, outVars, pass, lost>>

\* Without the finalizer the object is gone at once.
DeleteColony ==
    /\ colony = "live"
    /\ IF fin THEN colony' = "deleting" /\ spec' = spec
              ELSE colony' = "absent" /\ spec' = Unlisted
    /\ UNCHANGED <<fin, statusVars, cdVars, hostVars, outVars, pass, lost>>

(***************************************************************************)
(* k0rdent, k0smotron and the garbage collector                            *)
(***************************************************************************)
ControlPlaneStarts(c) ==
    /\ c \in Hosted /\ cd[c] = "present" /\ plane[c] = "none"
    /\ plane' = [plane EXCEPT ![c] = "starting"]
    /\ pvc' = [pvc EXCEPT ![c] = TRUE]
    /\ ready' = [ready EXCEPT ![c] = "false"]
    /\ UNCHANGED <<colonyVars, statusVars, cdVars, outVars, pass, lost>>

ControlPlaneUp(c) ==
    /\ cd[c] = "present" /\ plane[c] = "starting"
    /\ plane' = [plane EXCEPT ![c] = "up"]
    /\ ready' = [ready EXCEPT ![c] = "true"]
    /\ UNCHANGED <<colonyVars, statusVars, cdVars, pvc, outVars, pass, lost>>

\* k0rdent reports trouble, or that it is over.
HealthChanges(c) ==
    /\ "health" \in Faults /\ cd[c] # "none"
    /\ ready' = [ready EXCEPT ![c] = IF @ = "false" THEN "true" ELSE "false"]
    /\ UNCHANGED <<colonyVars, statusVars, cdVars, plane, pvc, outVars, pass, lost>>

\* The cluster is destroyed with its control plane; the etcd volume stays.
ClusterDestroyed(c) ==
    /\ cd[c] = "deleting"
    /\ cd' = [cd EXCEPT ![c] = "none"]
    /\ owned' = [owned EXCEPT ![c] = FALSE]
    /\ content' = [content EXCEPT ![c] = "v1"]
    /\ ready' = [ready EXCEPT ![c] = "unknown"]
    /\ plane' = [plane EXCEPT ![c] = "none"]
    /\ endpoint' = [endpoint EXCEPT ![c] = "none"]
    /\ mirror' = [mirror EXCEPT ![c] = IF @ = "current" THEN "stale" ELSE @]
    /\ lost' = lost \ {c}
    /\ UNCHANGED <<colonyVars, statusVars, pvc, aggregated, pass>>

\* A ClusterDeployment whose owner is gone is deleted.
GarbageCollect(c) ==
    /\ cd[c] = "present" /\ ~owned[c]
    /\ DeleteClusterDeployment(c)
    /\ UNCHANGED <<colonyVars, statusVars, content, owned, hostVars, outVars, pass, lost>>

(***************************************************************************)
(* Specification                                                           *)
(***************************************************************************)
Init ==
    /\ colony = "absent" /\ fin = FALSE /\ spec = Unlisted
    /\ refs = {} /\ phase = "" /\ inventory = {}
    /\ cd = Unlisted
    /\ content = [c \in Clusters |-> "v1"]
    /\ owned = [c \in Clusters |-> FALSE]
    /\ ready = [c \in Clusters |-> "unknown"]
    /\ plane = Unlisted
    /\ pvc = [c \in Clusters |-> FALSE]
    /\ mirror = Unlisted /\ aggregated = {} /\ endpoint = Unlisted
    /\ pass = Idle /\ lost = {}

Reconcile ==
    \/ AddFinalizer \/ StartReconcile
    \/ \E c \in Clusters : CleanupOrphan(c) \/ EnsureClusterDeployment(c) \/ EnsureFails(c)
    \/ OrphansCleaned \/ OrphanCleanupFails
    \/ \E down \in Unreachable : PersistStatus(down) \/ WriteOutputs(down)
    \/ PersistFails

Delete ==
    \/ StartDeletion
    \/ \E c \in Clusters : CleanupAssociatedResources(c)
    \/ DeletionPending \/ RemoveFinalizer \/ DeletionFails

Users == CreateColony \/ DeleteColony \/ \E c \in Clusters : \E e \in Entries[c] : EditSpec(c, e)

Environment(c) ==
    \/ ControlPlaneStarts(c) \/ ControlPlaneUp(c) \/ HealthChanges(c)
    \/ ClusterDestroyed(c) \/ GarbageCollect(c)

Next == Reconcile \/ Delete \/ Users \/ \E c \in Clusters : Environment(c)

Spec == Init /\ [][Next]_vars

\* The controller requeues every pass that did not finish, so a pass goes on
\* and a write that fails is tried again and again; k0rdent builds, reports
\* and destroys, and the garbage collector collects.  Nobody has to edit,
\* create or delete anything, and nothing has to fail.
Fairness ==
    /\ WF_vars(AddFinalizer) /\ WF_vars(StartReconcile) /\ WF_vars(StartDeletion)
    /\ SF_vars(OrphansCleaned) /\ SF_vars(PersistStatus({}))
    /\ SF_vars(WriteOutputs({}))
    /\ WF_vars(DeletionPending) /\ SF_vars(RemoveFinalizer)
    /\ \A c \in Clusters :
          /\ WF_vars(CleanupOrphan(c)) /\ WF_vars(CleanupAssociatedResources(c))
          /\ WF_vars(EnsureClusterDeployment(c) \/ EnsureFails(c))
          /\ WF_vars(ControlPlaneStarts(c)) /\ WF_vars(ControlPlaneUp(c))
          /\ WF_vars(ClusterDestroyed(c)) /\ WF_vars(GarbageCollect(c))

FairSpec == Spec /\ Fairness

(***************************************************************************)
(* Properties                                                              *)
(***************************************************************************)
\* Every variable keeps its type.
TypeOK ==
    /\ colony \in {"absent", "live", "deleting"}
    /\ fin \in BOOLEAN
    /\ spec \in [Clusters -> Entry]
    /\ refs \subseteq Clusters
    /\ phase \in {"", "Provisioning", "Degraded", "Ready", "Deleting"}
    /\ inventory \subseteq Clusters
    /\ cd \in [Clusters -> {"none", "present", "deleting"}]
    /\ content \in [Clusters -> Contents]
    /\ owned \in [Clusters -> BOOLEAN]
    /\ ready \in [Clusters -> {"unknown", "false", "true"}]
    /\ plane \in [Clusters -> {"none", "starting", "up"}]
    /\ pvc \in [Clusters -> BOOLEAN]
    /\ mirror \in [Clusters -> {"none", "current", "stale"}]
    /\ aggregated \subseteq Clusters
    /\ endpoint \in [Clusters -> {"none", "clusterIP", "external"}]
    /\ pass \in [step : {"idle", "orphans", "ensure", "outputs", "delete"},
                 seen : [Clusters -> Entry], refs : SUBSET Clusters,
                 todo : SUBSET Clusters, gone : SUBSET Clusters,
                 failed : SUBSET Clusters, pending : BOOLEAN]
    /\ lost \subseteq Clusters

\* Every ClusterDeployment a Colony created stays referenced, so that a later
\* pass can delete it, until it is gone: in the status, or in the memory of the
\* pass that will write it.  Only a reference lost with a failed write is not.
ClustersReferenced ==
    \A c \in Clusters : cd[c] # "none" /\ owned[c] => c \in refs \cup pass.refs \cup lost

\* Whatever edits, deletions and leftovers the pass met, Ready is written only
\* when each cluster the pass saw wanted exists and reports no trouble,
\* although the code compares two counts over different lists.
ReadyIsBacked ==
    [][phase' = "Ready" /\ phase # "Ready" =>
          \A c \in Wanted(pass.seen) :
              c \in refs' /\ cd[c] # "none" /\ ready[c] # "false"]_vars

\* A Colony disappears only after each cluster that stayed on its list during
\* the last pass of the deletion is gone.
GoneAfterClusters ==
    [][colony = "deleting" /\ colony' = "absent" =>
          \A c \in Named(spec) \cap Named(pass.seen) : cd[c] = "none"]_vars

\* A name is given up only with its etcd volume, when a reference is dropped and
\* when the Colony goes: a cluster added later under that name must not start
\* on the data of its predecessor.
VolumesReclaimed ==
    [][\A c \in refs \ refs' :
          (colony' = "absent" => c \in Named(spec) \cap Named(pass.seen)) => ~pvc[c]]_vars

\* What a Colony comes to when nobody edits it any more.
Converged(s) ==
    /\ refs = Wanted(s) /\ phase = "Ready"
    /\ inventory = refs /\ aggregated = refs
    /\ \A c \in Wanted(s) :
          /\ cd[c] = "present" /\ owned[c] /\ content[c] = s[c]
          /\ endpoint[c] = APIEndpoint(c)
          /\ c \in Regional => mirror[c] = "current"
    /\ \A c \in Clusters \ Named(s) : cd[c] = "none" \/ c \in lost

\* A Colony whose list stays as it is, and can be decoded, ends up with exactly
\* the clusters of its list: built, up to date, referenced, inventoried and
\* with kubeconfigs; those taken off are gone, unless a failed write lost them.
Converges ==
    \A s \in {t \in [Clusters -> {"none"} \cup Contents] :
                 Wanted(t) \subseteq Hosted /\ \A c \in Wanted(t) : t[c] \in Entries[c]} :
        <>[](colony = "live" /\ spec = s) => <>[]Converged(s)

\* A cluster that stays on the list is built and follows its entry, whatever
\* users do to the other entries and however often those fail.
FailureIsolated ==
    \A c \in Clusters : \A v \in Entries[c] \cap Contents :
        <>[](colony = "live" /\ spec[c] = v) =>
            <>[](cd[c] = "present" /\ content[c] = v /\ c \in refs)

\* A deleted Colony goes away, and what it left behind is collected.
ColonyDeletionCompletes ==
    /\ colony = "deleting" ~> colony = "absent"
    /\ colony = "absent" ~> colony # "absent" \/ cd = Unlisted
==============================================================================
