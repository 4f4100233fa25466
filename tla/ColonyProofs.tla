----------------------------- MODULE ColonyProofs -----------------------------
(***************************************************************************)
(* Theorems about the Colony reconciler: types, and the three safety       *)
(* properties, which rest on what a pass knows at each of its steps.       *)
(***************************************************************************)
EXTENDS Colony, TLAPS

\* What a reconcile pass remembers between its steps.
PassType ==
    [step : {"idle", "orphans", "ensure", "outputs", "delete"},
     seen : [Clusters -> Entry], refs : SUBSET Clusters,
     todo : SUBSET Clusters, gone : SUBSET Clusters,
     failed : SUBSET Clusters, pending : BOOLEAN]

(***************************************************************************)
(* Types                                                                   *)
(***************************************************************************)
\* A pass that has ended and an empty list are of their types.
LEMMA IdleType == Idle \in PassType /\ Unlisted \in [Clusters -> Entry]
BY DEF Idle, PassType, Unlisted, Entry

\* What the steps that visit one cluster do to the pass.
LEMMA PassUpdate ==
    ASSUME NEW p \in PassType, NEW c \in Clusters
    PROVE  /\ [p EXCEPT !.todo = @ \ {c}] \in PassType
           /\ [p EXCEPT !.todo = @ \ {c}, !.gone = @ \cup {c}] \in PassType
           /\ [p EXCEPT !.todo = @ \ {c}, !.pending = TRUE] \in PassType
           /\ [p EXCEPT !.todo = @ \ {c}, !.refs = @ \cup {c}] \in PassType
           /\ [p EXCEPT !.todo = @ \ {c}, !.failed = @ \cup {c}] \in PassType
<1>1. /\ p.todo \ {c} \in SUBSET Clusters /\ p.gone \cup {c} \in SUBSET Clusters
      /\ p.refs \cup {c} \in SUBSET Clusters /\ p.failed \cup {c} \in SUBSET Clusters
  BY DEF PassType
<1>2. [p EXCEPT !.todo = @ \ {c}] \in PassType
  BY <1>1 DEF PassType
<1> DEFINE q == [p EXCEPT !.todo = @ \ {c}]
<1>3. [q EXCEPT !.gone = p.gone \cup {c}] \in PassType
  BY <1>1, <1>2 DEF PassType
<1>4. [q EXCEPT !.pending = TRUE] \in PassType
  BY <1>2 DEF PassType
<1>5. [q EXCEPT !.refs = p.refs \cup {c}] \in PassType
  BY <1>1, <1>2 DEF PassType
<1>6. [q EXCEPT !.failed = p.failed \cup {c}] \in PassType
  BY <1>1, <1>2 DEF PassType
<1> QED
  BY <1>2, <1>3, <1>4, <1>5, <1>6

\* Deleting a volume, whether it works or not, leaves a function on clusters.
LEMMA DeletePVCType ==
    ASSUME TypeOK, NEW c \in Clusters, DeletePVC(c)
    PROVE  pvc' \in [Clusters -> BOOLEAN]
<1>1. PICK failed \in MayFail("pvc") : pvc' = [pvc EXCEPT ![c] = @ /\ failed]
  BY DEF DeletePVC
<1>2. (pvc[c] /\ failed) \in BOOLEAN
  OBVIOUS
<1>3. pvc \in [Clusters -> BOOLEAN]
  BY DEF TypeOK
<1> QED
  BY <1>1, <1>2, <1>3, Zenon

\* Requesting the deletion of a ClusterDeployment keeps its type.
LEMMA DeleteClusterDeploymentType ==
    ASSUME TypeOK, NEW c \in Clusters, DeleteClusterDeployment(c)
    PROVE  cd' \in [Clusters -> {"none", "present", "deleting"}]
BY DEF TypeOK, DeleteClusterDeployment

\* Steps that visit one cluster keep the types.
LEMMA VisitType ==
    ASSUME TypeOK, NEW c \in Clusters,
           CleanupOrphan(c) \/ CleanupAssociatedResources(c)
    PROVE  TypeOK'
<1>1. cd' \in [Clusters -> {"none", "present", "deleting"}]
  BY DeleteClusterDeploymentType DEF CleanupOrphan, CleanupAssociatedResources, TypeOK
<1>2. pvc' \in [Clusters -> BOOLEAN]
  BY DeletePVCType DEF CleanupOrphan, CleanupAssociatedResources, TypeOK
<1>3. pass' \in PassType
  <2>1. \/ pass' = [pass EXCEPT !.todo = @ \ {c}, !.gone = @ \cup {c}]
        \/ pass' = [pass EXCEPT !.todo = @ \ {c}, !.pending = TRUE]
        \/ pass' = [pass EXCEPT !.todo = @ \ {c}]
    BY DEF CleanupOrphan, CleanupAssociatedResources
  <2>2. pass \in PassType
    BY DEF TypeOK, PassType
  <2> QED
    BY <2>1, <2>2, PassUpdate
<1>4. UNCHANGED <<colonyVars, statusVars, content, owned, ready, plane, outVars, lost>>
  BY DEF CleanupOrphan, CleanupAssociatedResources
<1> QED
  BY <1>1, <1>2, <1>3, <1>4 DEF TypeOK, PassType, colonyVars, statusVars, outVars

\* Creating or updating a ClusterDeployment with decoded contents keeps its type.
LEMMA ApplyType ==
    ASSUME TypeOK, NEW c \in Clusters, Apply(c), pass.seen[c] \in Contents
    PROVE  /\ cd' \in [Clusters -> {"none", "present", "deleting"}]
           /\ content' \in [Clusters -> Contents]
           /\ owned' \in [Clusters -> BOOLEAN]
<1>1. /\ cd' \in [Clusters -> {"none", "present", "deleting"}]
      /\ content' \in [Clusters -> Contents]
  BY DEF TypeOK, Apply
<1>2. owned' \in [Clusters -> BOOLEAN]
  <2>1. owned \in [Clusters -> BOOLEAN]
    BY DEF TypeOK
  <2>2. owned' = [owned EXCEPT ![c] = IF cd[c] = "none" THEN TRUE ELSE @]
    BY DEF Apply
  <2> QED
    BY <2>1, <2>2
<1> QED
  BY <1>1, <1>2

\* EnsureClusterDeployment keeps the types, whether it succeeds or fails.
LEMMA EnsureType ==
    ASSUME TypeOK, NEW c \in Clusters, EnsureClusterDeployment(c) \/ EnsureFails(c)
    PROVE  TypeOK'
<1>1. pass' \in PassType
  <2>1. \/ pass' = [pass EXCEPT !.todo = @ \ {c}, !.refs = @ \cup {c}]
        \/ pass' = [pass EXCEPT !.todo = @ \ {c}, !.failed = @ \cup {c}]
    BY DEF EnsureClusterDeployment, EnsureFails
  <2>2. pass \in PassType
    BY DEF TypeOK, PassType
  <2> QED
    BY <2>1, <2>2, PassUpdate
<1>2. /\ cd' \in [Clusters -> {"none", "present", "deleting"}]
      /\ content' \in [Clusters -> Contents]
      /\ owned' \in [Clusters -> BOOLEAN]
  <2>1. CASE UNCHANGED cdVars
    BY <2>1 DEF cdVars, TypeOK
  <2>2. CASE Apply(c) /\ pass.seen[c] \in Contents
    BY <2>2, ApplyType
  <2> QED
    BY <2>1, <2>2 DEF EnsureClusterDeployment, EnsureFails
<1>3. lost' \subseteq Clusters
  <2>1. \/ lost' = lost
        \/ lost' = lost \cup {c}
    BY DEF EnsureClusterDeployment, EnsureFails
  <2>2. lost \subseteq Clusters
    BY DEF TypeOK
  <2> QED
    BY <2>1, <2>2
<1>4. UNCHANGED <<colonyVars, statusVars, hostVars, outVars>>
  BY DEF EnsureClusterDeployment, EnsureFails
<1> QED
  BY <1>1, <1>2, <1>3, <1>4 DEF TypeOK, PassType, colonyVars, statusVars, hostVars, outVars

\* The status written at the end of a pass is of its type.
LEMMA PersistStatusType ==
    ASSUME TypeOK, NEW down, PersistStatus(down)
    PROVE  TypeOK'
<1>1. pass' \in PassType
  BY IdleType DEF PersistStatus, TypeOK, PassType, Idle
<1>2. /\ phase' \in {"", "Provisioning", "Degraded", "Ready", "Deleting"}
      /\ inventory' \subseteq Clusters /\ refs' \subseteq Clusters /\ lost' \subseteq Clusters
  BY DEF PersistStatus, ColonyPhase, RefreshGPUInventory, TypeOK
<1> QED
  BY <1>1, <1>2 DEF PersistStatus, TypeOK, PassType, colonyVars, cdVars, hostVars, outVars

\* Mirroring kubeconfigs keeps their type.
LEMMA MirrorType ==
    ASSUME TypeOK, NEW done, NEW down, Mirror(done, down)
    PROVE  mirror' \in [Clusters -> {"none", "current", "stale"}]
BY DEF Mirror, TypeOK

\* ConfigMaps and kubeconfigs keep their types.
LEMMA WriteOutputsType ==
    ASSUME TypeOK, NEW down, WriteOutputs(down)
    PROVE  TypeOK'
<1>1. pass' \in PassType
  BY IdleType DEF WriteOutputs, EndPass
<1>2. \A c \in Clusters : APIEndpoint(c) \in {"none", "clusterIP", "external"}
  BY DEF APIEndpoint
<1>3. endpoint' \in [Clusters -> {"none", "clusterIP", "external"}]
  BY <1>2 DEF WriteOutputs, EnsureAPIEndpointForAll, EnsureAPIEndpoint, TypeOK
<1>4. /\ mirror' \in [Clusters -> {"none", "current", "stale"}]
      /\ aggregated' \subseteq Clusters
  <2>1. CASE pass.pending
    <3>1. mirror' = mirror /\ aggregated' = aggregated
      BY <2>1 DEF WriteOutputs
    <3> QED
      BY <3>1 DEF TypeOK
  <2>2. CASE ~pass.pending
    <3>1. AggregateKubeconfigs(down)
      BY <2>2 DEF WriteOutputs
    <3>2. \E done : Mirror(done, down)
      BY <3>1 DEF AggregateKubeconfigs
    <3>3. mirror' \in [Clusters -> {"none", "current", "stale"}]
      BY <3>2, MirrorType
    <3>4. aggregated' = pass.refs \/ aggregated' = aggregated
      BY <3>1 DEF AggregateKubeconfigs
    <3>5. aggregated \subseteq Clusters /\ pass.refs \subseteq Clusters
      BY DEF TypeOK
    <3> QED
      BY <3>3, <3>4, <3>5
  <2> QED
    BY <2>1, <2>2
<1> QED
  BY <1>1, <1>3, <1>4 DEF WriteOutputs, TypeOK, PassType, colonyVars, statusVars, cdVars, hostVars

\* The steps that begin, carry on or end a pass keep the types.
LEMMA PassStepType ==
    ASSUME TypeOK,
           \/ AddFinalizer \/ StartReconcile \/ OrphansCleaned \/ OrphanCleanupFails
           \/ PersistFails \/ StartDeletion \/ DeletionPending \/ DeletionFails
    PROVE  TypeOK'
<1>1. pass' \in PassType
  <2>1. CASE AddFinalizer
    BY <2>1 DEF AddFinalizer, TypeOK, PassType
  <2>2. CASE StartReconcile
    BY <2>2 DEF StartReconcile, TypeOK, PassType, Idle, Named
  <2>3. CASE OrphansCleaned
    <3>1. CASE pass.pending
      BY <2>3, <3>1, IdleType DEF OrphansCleaned
    <3>2. CASE ~pass.pending
      BY <2>3, <3>2 DEF OrphansCleaned, TypeOK, PassType, Wanted
    <3> QED
      BY <3>1, <3>2
  <2>4. CASE StartDeletion
    BY <2>4 DEF StartDeletion, TypeOK, PassType, Idle, Named
  <2>5. CASE EndPass
    BY <2>5, IdleType DEF EndPass
  <2> QED
    BY <2>1, <2>2, <2>3, <2>4, <2>5
    DEF OrphanCleanupFails, PersistFails, DeletionPending, DeletionFails
<1>2. UNCHANGED <<colony, spec, inventory, cdVars, hostVars, outVars>>
  BY DEF AddFinalizer, StartReconcile, OrphansCleaned, OrphanCleanupFails, PersistFails,
         StartDeletion, DeletionPending, DeletionFails, colonyVars, statusVars
<1>3. /\ fin' = fin \/ fin' = TRUE
      /\ phase' = phase \/ phase' = "Deleting"
      /\ refs' = refs \/ refs' = refs \ pass.gone
      /\ lost' = lost \/ lost' = lost \cup (pass.refs \ refs)
  BY DEF AddFinalizer, StartReconcile, OrphansCleaned, OrphanCleanupFails, PersistFails,
         StartDeletion, DeletionPending, DeletionFails, colonyVars, statusVars
<1>4. /\ fin' \in BOOLEAN /\ refs' \subseteq Clusters /\ lost' \subseteq Clusters
      /\ phase' \in {"", "Provisioning", "Degraded", "Ready", "Deleting"}
  BY <1>3 DEF TypeOK
<1> QED
  BY <1>1, <1>2, <1>4 DEF TypeOK, PassType, cdVars, hostVars, outVars

\* The end of a Colony keeps the types.
LEMMA RemoveFinalizerType ==
    ASSUME TypeOK, RemoveFinalizer
    PROVE  TypeOK'
BY IdleType
DEF RemoveFinalizer, EndPass, TypeOK, PassType, hostVars, outVars

\* Edits, creation and deletion by users keep the types.
LEMMA UserType ==
    ASSUME TypeOK, Users
    PROVE  TypeOK'
<1>1. spec' \in [Clusters -> Entry]
  <2>1. CASE \E c \in Clusters : \E e \in Entries[c] : EditSpec(c, e)
    <3>1. PICK c \in Clusters : \E e \in Entries[c] : EditSpec(c, e)
      BY <2>1
    <3>2. PICK e \in Entries[c] : EditSpec(c, e)
      BY <3>1
    <3>3. e \in Entry
      BY ColonyAssumption
    <3> QED
      BY <3>2, <3>3 DEF EditSpec, TypeOK
  <2>2. CASE CreateColony \/ DeleteColony
    BY <2>2, IdleType DEF CreateColony, DeleteColony, TypeOK
  <2> QED
    BY <2>1, <2>2 DEF Users
<1>2. /\ UNCHANGED <<fin, statusVars, cdVars, hostVars, outVars, pass, lost>>
      /\ colony' = colony \/ colony' \in {"absent", "live", "deleting"}
  BY DEF Users, CreateColony, DeleteColony, EditSpec
<1>3. colony' \in {"absent", "live", "deleting"}
  BY <1>2 DEF TypeOK
<1> QED
  BY <1>1, <1>2, <1>3 DEF TypeOK, statusVars, cdVars, hostVars, outVars

\* k0rdent and the garbage collector keep the types.
LEMMA EnvironmentType ==
    ASSUME TypeOK, NEW c \in Clusters, Environment(c)
    PROVE  TypeOK'
<1>1. CASE GarbageCollect(c)
  <2>1. /\ DeleteClusterDeployment(c)
        /\ UNCHANGED <<colonyVars, statusVars, content, owned, hostVars, outVars, pass, lost>>
    BY <1>1 DEF GarbageCollect
  <2>2. cd' \in [Clusters -> {"none", "present", "deleting"}]
    BY <2>1, DeleteClusterDeploymentType
  <2> QED
    BY <2>1, <2>2 DEF TypeOK, colonyVars, statusVars, hostVars, outVars
<1>2. CASE ControlPlaneStarts(c)
  BY <1>2 DEF ControlPlaneStarts, TypeOK, colonyVars, statusVars, cdVars, outVars
<1>3. CASE ControlPlaneUp(c) \/ HealthChanges(c)
  <2>1. /\ UNCHANGED <<colonyVars, statusVars, cdVars, pvc, outVars, pass, lost>>
        /\ plane' = plane \/ plane' = [plane EXCEPT ![c] = "up"]
    BY <1>3 DEF ControlPlaneUp, HealthChanges
  <2>2. \E r \in {"true", "false"} : ready' = [ready EXCEPT ![c] = r]
    BY <1>3 DEF ControlPlaneUp, HealthChanges
  <2>3. /\ plane \in [Clusters -> {"none", "starting", "up"}]
        /\ ready \in [Clusters -> {"unknown", "false", "true"}]
    BY DEF TypeOK
  <2>4. plane' \in [Clusters -> {"none", "starting", "up"}]
    BY <2>1, <2>3
  <2>5. ready' \in [Clusters -> {"unknown", "false", "true"}]
    BY <2>2, <2>3
  <2> QED
    BY <2>1, <2>4, <2>5 DEF TypeOK, colonyVars, statusVars, cdVars, outVars
<1>4. CASE ClusterDestroyed(c)
  BY <1>4 DEF ClusterDestroyed, TypeOK, colonyVars, statusVars, Contents
<1> QED
  BY <1>1, <1>2, <1>3, <1>4 DEF Environment

\* A step of Next or a stuttering step keeps the types.
LEMMA TypeStep ==
    ASSUME TypeOK, [Next]_vars
    PROVE  TypeOK'
<1>1. CASE UNCHANGED vars
  BY <1>1 DEF vars, colonyVars, statusVars, cdVars, hostVars, outVars, TypeOK
<1>2. CASE Reconcile
  BY <1>2, PassStepType, VisitType, EnsureType, PersistStatusType, WriteOutputsType DEF Reconcile
<1>3. CASE Delete
  BY <1>3, PassStepType, VisitType, RemoveFinalizerType DEF Delete
<1>4. CASE Users
  BY <1>4, UserType
<1>5. CASE \E c \in Clusters : Environment(c)
  BY <1>5, EnvironmentType
<1> QED
  BY <1>1, <1>2, <1>3, <1>4, <1>5 DEF Next

\* Every variable of the Colony model keeps its type.
THEOREM TypeCorrect == Spec => []TypeOK
<1>1. Init => TypeOK
  <2> SUFFICES ASSUME Init PROVE TypeOK
    OBVIOUS
  <2>1. /\ spec \in [Clusters -> Entry] /\ pass \in PassType
    BY IdleType DEF Init
  <2>2. /\ cd \in [Clusters -> {"none", "present", "deleting"}]
        /\ plane \in [Clusters -> {"none", "starting", "up"}]
        /\ mirror \in [Clusters -> {"none", "current", "stale"}]
        /\ endpoint \in [Clusters -> {"none", "clusterIP", "external"}]
        /\ content \in [Clusters -> Contents]
        /\ ready \in [Clusters -> {"unknown", "false", "true"}]
    BY DEF Init, Unlisted, Contents
  <2>3. owned \in [Clusters -> BOOLEAN] /\ pvc \in [Clusters -> BOOLEAN]
    BY DEF Init
  <2> QED
    BY <2>1, <2>2, <2>3 DEF Init, TypeOK, PassType
<1> QED
  BY <1>1, TypeStep, PTL DEF Spec

(***************************************************************************)
(* What a pass knows                                                       *)
(***************************************************************************)
\* Between its steps a pass may rely on what it read before, although users and
\* k0rdent act in between: its copy of the references is the stored one, or
\* has more of them while clusters are ensured; what it found gone stays gone,
\* because only a pass creates clusters; and a wanted cluster it is done with
\* failed or is referenced.
PassKnows ==
    /\ pass.step \in {"idle", "delete"} => pass.refs = {}
    /\ pass.step \in {"orphans", "outputs"} => pass.refs = refs
    /\ pass.step = "ensure" =>
          /\ refs \subseteq pass.refs
          /\ Wanted(pass.seen) \subseteq pass.todo \cup pass.failed \cup pass.refs
    /\ pass.step = "orphans" => \A c \in pass.gone : cd[c] = "none"
    /\ pass.step = "delete" /\ ~pass.pending =>
          \A c \in Named(pass.seen) \ pass.todo : cd[c] = "none"

\* A step that leaves the pass and the references alone and creates no cluster.
Aside ==
    /\ pass' = pass /\ refs' = refs
    /\ \A c \in Clusters : cd[c] = "none" => cd'[c] = "none"

\* Such a step leaves true what the pass knows.
LEMMA AsideKnows ==
    ASSUME TypeOK, PassKnows, Aside
    PROVE  PassKnows'
<1>1. pass.gone \subseteq Clusters /\ Named(pass.seen) \subseteq Clusters
  BY DEF TypeOK, Named
<1> QED
  BY <1>1 DEF PassKnows, Aside, Wanted, Named

\* An ended pass knows nothing.
LEMMA EndKnows ==
    ASSUME EndPass
    PROVE  PassKnows'
BY DEF EndPass, PassKnows, Idle

\* Cleaning up one cluster, of an orphan or of a deleted Colony, adds to what is
\* gone only a cluster that was not found.
LEMMA VisitKnows ==
    ASSUME TypeOK, PassKnows, NEW c \in Clusters,
           CleanupOrphan(c) \/ CleanupAssociatedResources(c)
    PROVE  PassKnows'
<1> DEFINE gone == [pass EXCEPT !.todo = @ \ {c}, !.gone = @ \cup {c}]
           done == [pass EXCEPT !.todo = @ \ {c}]
           wait == [pass EXCEPT !.todo = @ \ {c}, !.pending = TRUE]
<1>1. pass \in PassType
  BY DEF TypeOK, PassType
<1>2. refs' = refs
  BY DEF CleanupOrphan, CleanupAssociatedResources, statusVars
<1>3. CASE pass.step = "orphans" /\ cd[c] = "none" /\ pass' = gone /\ cd' = cd
  <2>1. /\ pass'.step = "orphans" /\ pass'.refs = pass.refs
        /\ pass'.gone = pass.gone \cup {c}
    BY <1>1, <1>3 DEF PassType
  <2> QED
    BY <1>2, <1>3, <2>1 DEF PassKnows
<1>4. CASE pass.step = "delete" /\ cd[c] = "none" /\ pass' = done /\ cd' = cd
  <2>1. /\ pass'.step = "delete" /\ pass'.refs = pass.refs /\ pass'.seen = pass.seen
        /\ pass'.todo = pass.todo \ {c} /\ pass'.pending = pass.pending
    BY <1>1, <1>4 DEF PassType
  <2> QED
    BY <1>2, <1>4, <2>1 DEF PassKnows, Named
<1>5. CASE pass.step \in {"orphans", "delete"} /\ pass' = wait /\ DeleteClusterDeployment(c)
  <2>1. /\ pass'.step = pass.step /\ pass'.refs = pass.refs /\ pass'.gone = pass.gone
        /\ pass'.pending = TRUE
    BY <1>1, <1>5 DEF PassType
  <2>2. \A x \in Clusters : cd[x] = "none" => cd'[x] = "none"
    BY <1>5 DEF DeleteClusterDeployment, TypeOK
  <2>3. pass.gone \subseteq Clusters
    BY <1>1 DEF PassType
  <2> QED
    BY <1>2, <1>5, <2>1, <2>2, <2>3 DEF PassKnows
<1> QED
  BY <1>3, <1>4, <1>5 DEF CleanupOrphan, CleanupAssociatedResources

\* Ensuring one cluster moves it from what is left to the references or failures.
LEMMA EnsureKnows ==
    ASSUME TypeOK, PassKnows, NEW c \in Clusters,
           EnsureClusterDeployment(c) \/ EnsureFails(c)
    PROVE  PassKnows'
<1>1. pass \in PassType
  BY DEF TypeOK, PassType
<1>2. refs' = refs /\ pass.step = "ensure"
  BY DEF EnsureClusterDeployment, EnsureFails, Ensuring, statusVars
<1>3. CASE pass' = [pass EXCEPT !.todo = @ \ {c}, !.refs = @ \cup {c}]
  <2>1. /\ pass'.step = "ensure" /\ pass'.refs = pass.refs \cup {c}
        /\ pass'.seen = pass.seen /\ pass'.failed = pass.failed
        /\ pass'.todo = pass.todo \ {c}
    BY <1>1, <1>2, <1>3 DEF PassType
  <2> QED
    BY <1>2, <2>1 DEF PassKnows, Wanted
<1>4. CASE pass' = [pass EXCEPT !.todo = @ \ {c}, !.failed = @ \cup {c}]
  <2>1. /\ pass'.step = "ensure" /\ pass'.refs = pass.refs
        /\ pass'.seen = pass.seen /\ pass'.failed = pass.failed \cup {c}
        /\ pass'.todo = pass.todo \ {c}
    BY <1>1, <1>2, <1>4 DEF PassType
  <2> QED
    BY <1>2, <2>1 DEF PassKnows, Wanted
<1> QED
  BY <1>3, <1>4 DEF EnsureClusterDeployment, EnsureFails

\* A pass begins with the stored references, and leaves the orphans with those
\* that are not gone.
LEMMA PassStepKnows ==
    ASSUME TypeOK, PassKnows, StartReconcile \/ OrphansCleaned \/ StartDeletion
    PROVE  PassKnows'
<1>1. CASE StartReconcile
  BY <1>1 DEF StartReconcile, PassKnows, Idle, statusVars
<1>2. CASE StartDeletion
  BY <1>2 DEF StartDeletion, PassKnows, Idle, Named
<1>3. CASE OrphansCleaned
  <2>1. CASE pass.pending
    BY <1>3, <2>1, EndKnows DEF OrphansCleaned, EndPass
  <2>2. CASE ~pass.pending
    <3> DEFINE seen == IF pass.gone = {} THEN pass.seen ELSE spec
    <3>1. pass' = [pass EXCEPT !.step = "ensure", !.seen = seen,
                     !.refs = @ \ pass.gone, !.gone = {}, !.todo = Wanted(seen)]
      BY <1>3, <2>2 DEF OrphansCleaned
    <3>2. /\ pass'.step = "ensure" /\ pass'.seen = seen
          /\ pass'.refs = pass.refs \ pass.gone /\ pass'.todo = Wanted(seen)
      BY <3>1 DEF TypeOK
    <3>3. pass.refs = refs /\ refs' = refs \ pass.gone
      BY <1>3 DEF OrphansCleaned, PassKnows
    <3> QED
      BY <3>2, <3>3 DEF PassKnows, Wanted
  <2> QED
    BY <2>1, <2>2
<1> QED
  BY <1>1, <1>2, <1>3

\* After the status is written the copy and the stored references are the same.
LEMMA PersistKnows ==
    ASSUME TypeOK, PassKnows, NEW down, PersistStatus(down)
    PROVE  PassKnows'
BY DEF PersistStatus, PassKnows, Idle

\* Users, k0rdent and the garbage collector stand aside.
LEMMA EnvironmentAside ==
    ASSUME TypeOK, Users \/ AddFinalizer \/ UNCHANGED vars \/ \E c \in Clusters : Environment(c)
    PROVE  Aside
<1>1. CASE Users \/ AddFinalizer \/ UNCHANGED vars
  BY <1>1
  DEF Users, CreateColony, EditSpec, DeleteColony, AddFinalizer, vars, statusVars, cdVars, Aside
<1>2. ASSUME NEW c \in Clusters, Environment(c)
      PROVE  Aside
  <2>1. CASE ControlPlaneStarts(c) \/ ControlPlaneUp(c) \/ HealthChanges(c)
    BY <2>1 DEF ControlPlaneStarts, ControlPlaneUp, HealthChanges, statusVars, cdVars, Aside
  <2>2. CASE ClusterDestroyed(c)
    BY <2>2 DEF ClusterDestroyed, statusVars, Aside, TypeOK
  <2>3. CASE GarbageCollect(c)
    BY <2>3 DEF GarbageCollect, DeleteClusterDeployment, statusVars, Aside, TypeOK
  <2> QED
    BY <1>2, <2>1, <2>2, <2>3 DEF Environment
<1> QED
  BY <1>1, <1>2

\* Every step keeps what a pass knows.
LEMMA KnowsStep ==
    ASSUME TypeOK, PassKnows, [Next]_vars
    PROVE  PassKnows'
<1>1. CASE Users \/ AddFinalizer \/ UNCHANGED vars \/ \E c \in Clusters : Environment(c)
  BY <1>1, EnvironmentAside, AsideKnows
<1>2. CASE EndPass
  BY <1>2, EndKnows
<1>3. CASE Reconcile
  BY <1>1, <1>2, <1>3, VisitKnows, EnsureKnows, PassStepKnows, PersistKnows
  DEF Reconcile, OrphanCleanupFails, PersistFails, WriteOutputs
<1>4. CASE Delete
  BY <1>1, <1>2, <1>4, VisitKnows, PassStepKnows
  DEF Delete, DeletionPending, RemoveFinalizer, DeletionFails
<1> QED
  BY <1>1, <1>3, <1>4 DEF Next

\* In every reachable state a pass knows what PassKnows says.
THEOREM PassKnowsHolds == Spec => [](TypeOK /\ PassKnows)
<1>1. Init => PassKnows
  <2>1. Init => pass = Idle
    BY DEF Init
  <2>2. pass = Idle => PassKnows
    BY DEF PassKnows, Idle
  <2> QED
    BY <2>1, <2>2
<1>2. TypeOK /\ PassKnows /\ [Next]_vars => PassKnows'
  BY KnowsStep
<1> QED
  BY <1>1, <1>2, TypeCorrect, PTL DEF Spec

(***************************************************************************)
(* Safety                                                                  *)
(***************************************************************************)
\* Every step keeps the clusters of the Colony referenced.
LEMMA ReferencesStep ==
    ASSUME TypeOK, PassKnows, ClustersReferenced, [Next]_vars
    PROVE  ClustersReferenced'
<1>1. CASE Users \/ AddFinalizer \/ UNCHANGED vars
  <2>1. UNCHANGED <<refs, pass, lost, cd, owned>>
    BY <1>1
    DEF Users, CreateColony, EditSpec, DeleteColony, AddFinalizer, vars, statusVars, cdVars
  <2> QED
    BY <2>1 DEF ClustersReferenced
<1>2. CASE \E c \in Clusters : Environment(c)
  <2>1. PICK c \in Clusters : Environment(c)
    BY <1>2
  <2>2. CASE ControlPlaneStarts(c) \/ ControlPlaneUp(c) \/ HealthChanges(c)
    BY <2>2
    DEF ControlPlaneStarts, ControlPlaneUp, HealthChanges, statusVars, cdVars, ClustersReferenced
  <2>3. CASE ClusterDestroyed(c)
    <3>1. /\ cd \in [Clusters -> {"none", "present", "deleting"}]
          /\ owned \in [Clusters -> BOOLEAN]
      BY DEF TypeOK
    <3>2. /\ refs' = refs /\ pass' = pass /\ lost' = lost \ {c} /\ cd'[c] = "none"
          /\ \A x \in Clusters \ {c} : cd'[x] = cd[x] /\ owned'[x] = owned[x]
      BY <2>3, <3>1 DEF ClusterDestroyed, statusVars
    <3> QED
      BY <3>2 DEF ClustersReferenced
  <2>4. CASE GarbageCollect(c)
    <3>1. /\ refs' = refs /\ pass' = pass /\ lost' = lost /\ owned' = owned
          /\ \A x \in Clusters : cd'[x] # "none" => cd[x] # "none"
      BY <2>4 DEF GarbageCollect, DeleteClusterDeployment, statusVars, TypeOK
    <3> QED
      BY <3>1 DEF ClustersReferenced
  <2> QED
    BY <2>1, <2>2, <2>3, <2>4 DEF Environment
<1>3. ASSUME NEW c \in Clusters, CleanupOrphan(c) \/ CleanupAssociatedResources(c)
      PROVE  ClustersReferenced'
  <2>1. refs' = refs /\ lost' = lost /\ owned' = owned
    BY <1>3 DEF CleanupOrphan, CleanupAssociatedResources, statusVars
  <2>2. \A x \in Clusters : cd'[x] # "none" => cd[x] # "none"
    <3>1. cd' = cd \/ DeleteClusterDeployment(c)
      BY <1>3 DEF CleanupOrphan, CleanupAssociatedResources
    <3>2. cd \in [Clusters -> {"none", "present", "deleting"}]
      BY DEF TypeOK
    <3> QED
      BY <3>1, <3>2 DEF DeleteClusterDeployment
  <2>3. pass'.refs = pass.refs
    <3>1. \/ pass' = [pass EXCEPT !.todo = @ \ {c}, !.gone = @ \cup {c}]
          \/ pass' = [pass EXCEPT !.todo = @ \ {c}, !.pending = TRUE]
          \/ pass' = [pass EXCEPT !.todo = @ \ {c}]
      BY <1>3 DEF CleanupOrphan, CleanupAssociatedResources
    <3>2. pass \in PassType
      BY DEF TypeOK, PassType
    <3> QED
      BY <3>1, <3>2 DEF PassType
  <2> QED
    BY <2>1, <2>2, <2>3 DEF ClustersReferenced
<1>4. ASSUME NEW c \in Clusters, EnsureClusterDeployment(c) \/ EnsureFails(c)
      PROVE  ClustersReferenced'
  <2>1. /\ refs' = refs /\ lost \subseteq lost'
        /\ pass.refs \subseteq pass'.refs
    <3>1. refs' = refs /\ (lost' = lost \/ lost' = lost \cup {c})
      BY <1>4 DEF EnsureClusterDeployment, EnsureFails, statusVars
    <3>2. \/ pass' = [pass EXCEPT !.todo = @ \ {c}, !.refs = @ \cup {c}]
          \/ pass' = [pass EXCEPT !.todo = @ \ {c}, !.failed = @ \cup {c}]
      BY <1>4 DEF EnsureClusterDeployment, EnsureFails
    <3>3. pass \in PassType
      BY DEF TypeOK, PassType
    <3>4. pass'.refs = pass.refs \/ pass'.refs = pass.refs \cup {c}
      BY <3>2, <3>3 DEF PassType
    <3> QED
      BY <3>1, <3>4
  <2>2. CASE UNCHANGED cdVars
    BY <2>1, <2>2 DEF cdVars, ClustersReferenced
  <2>3. CASE Apply(c) /\ c \in pass'.refs \cup lost'
    <3>1. /\ cd \in [Clusters -> {"none", "present", "deleting"}]
          /\ owned \in [Clusters -> BOOLEAN]
      BY DEF TypeOK
    <3>2. \A x \in Clusters \ {c} : cd'[x] = cd[x] /\ owned'[x] = owned[x]
      BY <2>3, <3>1 DEF Apply
    <3> QED
      BY <2>1, <2>3, <3>2 DEF ClustersReferenced
  <2>4. UNCHANGED cdVars \/ (Apply(c) /\ c \in pass'.refs \cup lost')
    <3>1. CASE EnsureClusterDeployment(c)
      BY <3>1 DEF EnsureClusterDeployment, TypeOK
    <3>2. CASE EnsureFails(c)
      <4>1. pass'.refs = pass.refs
        BY <3>2 DEF EnsureFails, TypeOK
      <4>2. \/ UNCHANGED cdVars
            \/ Apply(c) /\ lost' = IF c \in pass.refs THEN lost ELSE lost \cup {c}
        BY <3>2 DEF EnsureFails
      <4> QED
        BY <4>1, <4>2
    <3> QED
      BY <1>4, <3>1, <3>2
  <2> QED
    BY <2>2, <2>3, <2>4
<1>5. CASE StartReconcile \/ StartDeletion \/ OrphanCleanupFails \/ DeletionPending \/ DeletionFails
  <2>1. UNCHANGED <<refs, lost, cd, owned>>
    BY <1>5
    DEF StartReconcile, StartDeletion, OrphanCleanupFails, DeletionPending, DeletionFails,
        statusVars, cdVars
  <2>2. pass.refs \subseteq refs
    BY <1>5
    DEF StartReconcile, StartDeletion, OrphanCleanupFails, DeletionPending, DeletionFails,
        Deleted, PassKnows, Idle
  <2> QED
    BY <2>1, <2>2 DEF ClustersReferenced
<1>6. CASE OrphansCleaned
  <2>1. /\ UNCHANGED <<lost, cd, owned>> /\ refs' = refs \ pass.gone
        /\ pass.refs = refs /\ \A c \in pass.gone : cd[c] = "none"
    BY <1>6 DEF OrphansCleaned, cdVars, PassKnows
  <2> QED
    BY <2>1 DEF ClustersReferenced
<1>7. CASE PersistFails \/ \E down \in Unreachable : PersistStatus(down)
  <2>1. /\ UNCHANGED <<cd, owned>> /\ refs \subseteq pass.refs
        /\ refs \cup pass.refs \cup lost \subseteq refs' \cup lost'
    BY <1>7 DEF PersistFails, PersistStatus, Ensured, statusVars, cdVars, PassKnows
  <2> QED
    BY <2>1 DEF ClustersReferenced
<1>8. CASE \E down \in Unreachable : WriteOutputs(down)
  <2>1. UNCHANGED <<refs, lost, cd, owned>> /\ pass.refs = refs
    BY <1>8 DEF WriteOutputs, statusVars, cdVars, PassKnows
  <2> QED
    BY <2>1 DEF ClustersReferenced
<1>9. CASE RemoveFinalizer
  BY <1>9 DEF RemoveFinalizer, ClustersReferenced
<1>10. CASE Reconcile
  BY <1>1, <1>3, <1>4, <1>5, <1>6, <1>7, <1>8, <1>10 DEF Reconcile
<1>11. CASE Delete
  BY <1>3, <1>5, <1>9, <1>11 DEF Delete
<1> QED
  BY <1>1, <1>2, <1>10, <1>11 DEF Next

\* Every ClusterDeployment a Colony created stays referenced until it is gone,
\* in the status or in the memory of the pass that will write it, unless a
\* failed write lost the reference: for every set of clusters, whatever users,
\* k0rdent and failing calls do between the steps of a pass.
THEOREM ClustersReferencedHolds == Spec => []ClustersReferenced
<1>1. Init => ClustersReferenced
  BY DEF Init, ClustersReferenced, Unlisted
<1>2. TypeOK /\ PassKnows /\ ClustersReferenced /\ [Next]_vars => ClustersReferenced'
  BY ReferencesStep
<1> QED
  BY <1>1, <1>2, PassKnowsHolds, PTL DEF Spec

\* A Colony becomes Ready only when each cluster the pass saw wanted exists and
\* reports no trouble: nothing failed and nothing is left to do, so each wanted
\* cluster is referenced, and each reference is ready.
THEOREM ReadyIsBackedHolds == Spec => ReadyIsBacked
<1> DEFINE Backed == \A c \in Wanted(pass.seen) :
                        c \in refs' /\ cd[c] # "none" /\ ready[c] # "false"
<1>1. ASSUME TypeOK, PassKnows, Next, phase' = "Ready", phase # "Ready"
      PROVE  Backed
  <2>1. PICK down \in Unreachable : PersistStatus(down)
    BY <1>1
    DEF Next, Reconcile, Delete, Users, Environment, AddFinalizer, StartReconcile, CleanupOrphan,
        EnsureClusterDeployment, EnsureFails, OrphansCleaned, OrphanCleanupFails, WriteOutputs,
        PersistFails, StartDeletion, CleanupAssociatedResources, DeletionPending,
        RemoveFinalizer, DeletionFails, CreateColony, EditSpec, DeleteColony, ControlPlaneStarts,
        ControlPlaneUp, HealthChanges, ClusterDestroyed, GarbageCollect, statusVars
  <2>2. pass.failed = {} /\ pass.refs = ReadyRefs
    BY <1>1, <2>1 DEF PersistStatus, ColonyPhase
  <2>3. Wanted(pass.seen) \subseteq pass.refs
    BY <1>1, <2>1, <2>2 DEF PassKnows, PersistStatus, Ensured
  <2>4. refs' = pass.refs
    BY <2>1 DEF PersistStatus
  <2> QED
    BY <2>2, <2>3, <2>4 DEF ReadyRefs
<1>2. TypeOK /\ PassKnows /\ [Next]_vars => [phase' = "Ready" /\ phase # "Ready" => Backed]_vars
  BY <1>1
<1> QED
  BY <1>2, PassKnowsHolds, PTL DEF Spec, ReadyIsBacked

\* A Colony disappears only after each cluster that stayed on its list during
\* the last pass of the deletion is gone: what that pass found gone stays gone,
\* and it ends without the finalizer only when nothing was left to wait for.
THEOREM GoneAfterClustersHolds == Spec => GoneAfterClusters
<1> DEFINE Gone == \A c \in Named(spec) \cap Named(pass.seen) : cd[c] = "none"
<1>1. ASSUME TypeOK, PassKnows, Next, colony = "deleting", colony' = "absent"
      PROVE  Gone
  <2>1. RemoveFinalizer
    BY <1>1
    DEF Next, Reconcile, Delete, Users, Environment, AddFinalizer, StartReconcile, CleanupOrphan,
        EnsureClusterDeployment, EnsureFails, OrphansCleaned, OrphanCleanupFails, WriteOutputs,
        PersistStatus, PersistFails, StartDeletion, CleanupAssociatedResources, DeletionPending,
        DeletionFails, CreateColony, EditSpec, DeleteColony, ControlPlaneStarts, ControlPlaneUp,
        HealthChanges, ClusterDestroyed, GarbageCollect, colonyVars
  <2> QED
    BY <1>1, <2>1 DEF RemoveFinalizer, Deleted, PassKnows
<1>2. TypeOK /\ PassKnows /\ [Next]_vars
        => [colony = "deleting" /\ colony' = "absent" => Gone]_vars
  BY <1>1
<1> QED
  BY <1>2, PassKnowsHolds, PTL DEF Spec, GoneAfterClusters

\* What a pass found gone has left no volume behind either: a volume comes back
\* only with a cluster.
VolumesGone ==
    /\ pass.step = "orphans" => \A c \in pass.gone : ~pvc[c]
    /\ pass.step = "delete" /\ ~pass.pending => \A c \in Named(pass.seen) \ pass.todo : ~pvc[c]

\* Cleaning up one cluster deletes its volume before the pass counts it gone.
LEMMA VisitVolumes ==
    ASSUME "pvc" \notin Faults, TypeOK, VolumesGone, NEW c \in Clusters,
           CleanupOrphan(c) \/ CleanupAssociatedResources(c)
    PROVE  VolumesGone'
<1>1. pass \in PassType /\ pvc \in [Clusters -> BOOLEAN]
  BY DEF TypeOK, PassType
<1>2. DeletePVC(c) => ~pvc'[c] /\ \A x \in Clusters : pvc'[x] => pvc[x]
  BY <1>1 DEF DeletePVC, MayFail
<1>3. pass.gone \subseteq Clusters /\ Named(pass.seen) \subseteq Clusters
  BY <1>1 DEF PassType, Named
<1>4. CASE /\ pass.step = "orphans" /\ DeletePVC(c)
           /\ pass' = [pass EXCEPT !.todo = @ \ {c}, !.gone = @ \cup {c}]
  <2>1. pass'.step = "orphans" /\ pass'.gone = pass.gone \cup {c}
    BY <1>1, <1>4 DEF PassType
  <2> QED
    BY <1>2, <1>3, <1>4, <2>1 DEF VolumesGone
<1>5. CASE pass.step = "delete" /\ DeletePVC(c) /\ pass' = [pass EXCEPT !.todo = @ \ {c}]
  <2>1. /\ pass'.step = "delete" /\ pass'.seen = pass.seen
        /\ pass'.todo = pass.todo \ {c} /\ pass'.pending = pass.pending
    BY <1>1, <1>5 DEF PassType
  <2>2. Named(pass.seen)' = Named(pass.seen)
    BY <2>1 DEF Named
  <2> QED
    BY <1>2, <1>3, <1>5, <2>1, <2>2 DEF VolumesGone
<1>6. CASE pvc' = pvc /\ pass' = [pass EXCEPT !.todo = @ \ {c}, !.pending = TRUE]
  <2>1. pass'.step = pass.step /\ pass'.gone = pass.gone /\ pass'.pending = TRUE
    BY <1>1, <1>6 DEF PassType
  <2> QED
    BY <1>6, <2>1 DEF VolumesGone
<1> QED
  BY <1>4, <1>5, <1>6 DEF CleanupOrphan, CleanupAssociatedResources

\* Every step keeps it so, as long as deletions of volumes do not fail.
LEMMA VolumesStep ==
    ASSUME "pvc" \notin Faults, TypeOK, PassKnows, VolumesGone, [Next]_vars
    PROVE  VolumesGone'
<1>1. CASE pass' = pass /\ pvc' = pvc
  BY <1>1 DEF VolumesGone, Named
<1>2. CASE pass'.step \in {"idle", "ensure", "outputs"}
  BY <1>2 DEF VolumesGone
<1>3. ASSUME NEW c \in Clusters, CleanupOrphan(c) \/ CleanupAssociatedResources(c)
      PROVE  VolumesGone'
  BY <1>3, VisitVolumes
<1>4. ASSUME NEW c \in Clusters, ControlPlaneStarts(c)
      PROVE  VolumesGone'
  <2>1. /\ pass' = pass /\ cd[c] = "present"
        /\ \A x \in Clusters \ {c} : pvc'[x] = pvc[x]
    BY <1>4 DEF ControlPlaneStarts, TypeOK
  <2>2. pass.gone \subseteq Clusters /\ Named(pass.seen) \subseteq Clusters
    BY DEF TypeOK, Named
  <2>3. pass.step = "orphans" => c \notin pass.gone
    BY <2>1 DEF PassKnows
  <2>4. pass.step = "delete" /\ ~pass.pending => c \notin Named(pass.seen) \ pass.todo
    BY <2>1 DEF PassKnows
  <2>5. Named(pass.seen)' = Named(pass.seen)
    BY <2>1 DEF Named
  <2> QED
    BY <2>1, <2>2, <2>3, <2>4, <2>5 DEF VolumesGone
<1>5. CASE StartReconcile
  BY <1>5 DEF StartReconcile, VolumesGone, Idle
<1>6. CASE StartDeletion
  <2>1. /\ pass'.step = "delete" /\ pass'.seen = spec /\ pass'.todo = Named(spec)
    BY <1>6 DEF StartDeletion, Idle
  <2>2. Named(pass.seen)' = pass'.todo
    BY <2>1 DEF Named
  <2> QED
    BY <2>1, <2>2 DEF VolumesGone
<1>7. ASSUME NEW c \in Clusters, EnsureClusterDeployment(c) \/ EnsureFails(c)
      PROVE  VolumesGone'
  <2>1. \/ pass' = [pass EXCEPT !.todo = @ \ {c}, !.refs = @ \cup {c}]
        \/ pass' = [pass EXCEPT !.todo = @ \ {c}, !.failed = @ \cup {c}]
    BY <1>7 DEF EnsureClusterDeployment, EnsureFails
  <2>2. pass.step = "ensure" /\ pass \in PassType
    BY <1>7 DEF EnsureClusterDeployment, EnsureFails, Ensuring, TypeOK, PassType
  <2>3. pass'.step = "ensure"
    BY <2>1, <2>2 DEF PassType
  <2> QED
    BY <1>2, <2>3
<1>8. CASE OrphansCleaned
  <2>1. pass'.step \in {"idle", "ensure"}
    BY <1>8 DEF OrphansCleaned, Idle, TypeOK
  <2> QED
    BY <1>2, <2>1
<1>9. CASE \/ OrphanCleanupFails \/ PersistFails \/ DeletionPending \/ RemoveFinalizer \/ DeletionFails
           \/ \E down \in Unreachable : PersistStatus(down) \/ WriteOutputs(down)
  <2>1. EndPass => pass'.step = "idle"
    BY DEF EndPass, Idle
  <2>2. (\E down \in Unreachable : PersistStatus(down)) => pass'.step = "outputs"
    BY DEF PersistStatus, Idle
  <2>3. EndPass \/ \E down \in Unreachable : PersistStatus(down)
    BY <1>9
    DEF OrphanCleanupFails, PersistFails, DeletionPending, RemoveFinalizer, DeletionFails,
        WriteOutputs
  <2> QED
    BY <1>2, <2>1, <2>2, <2>3
<1>10. CASE Users \/ AddFinalizer \/ UNCHANGED vars
  BY <1>1, <1>10
  DEF Users, CreateColony, EditSpec, DeleteColony, AddFinalizer, vars, hostVars
<1>11. ASSUME NEW c \in Clusters, Environment(c)
       PROVE  VolumesGone'
  BY <1>1, <1>4, <1>11
  DEF Environment, ControlPlaneUp, HealthChanges, ClusterDestroyed, GarbageCollect, hostVars
<1>12. CASE Reconcile
  BY <1>3, <1>5, <1>7, <1>8, <1>9, <1>10, <1>12 DEF Reconcile
<1>13. CASE Delete
  BY <1>3, <1>6, <1>9, <1>13 DEF Delete
<1> QED
  BY <1>10, <1>11, <1>12, <1>13 DEF Next

\* A name is given up only with its etcd volume, when a reference is dropped and
\* when the Colony goes, however users, k0rdent and failing calls interleave
\* with the pass; for the clusters the last pass of a deletion saw, and as long
\* as no deletion of a volume fails.
THEOREM VolumesReclaimedHolds == ASSUME "pvc" \notin Faults PROVE Spec => VolumesReclaimed
<1> DEFINE Given(c) == (colony' = "absent" => c \in Named(spec) \cap Named(pass.seen)) => ~pvc[c]
<1>1. Init => VolumesGone
  <2>1. Init => pass = Idle
    BY DEF Init
  <2>2. pass = Idle => VolumesGone
    BY DEF VolumesGone, Idle
  <2> QED
    BY <2>1, <2>2
<1>2. TypeOK /\ PassKnows /\ VolumesGone /\ [Next]_vars => VolumesGone'
  BY VolumesStep
<1>3. ASSUME TypeOK, PassKnows, VolumesGone, Next, NEW c \in refs \ refs'
      PROVE  Given(c)
  <2>1. CASE OrphansCleaned
    BY <1>3, <2>1 DEF OrphansCleaned, VolumesGone
  <2>2. CASE RemoveFinalizer
    BY <1>3, <2>2 DEF RemoveFinalizer, Deleted, VolumesGone
  <2>3. ~\E down \in Unreachable : PersistStatus(down)
    <3>1. ASSUME NEW down, PersistStatus(down)
          PROVE  refs' = pass.refs /\ pass.step = "ensure"
      BY <3>1 DEF PersistStatus, Ensured
    <3>2. pass.step = "ensure" => refs \subseteq pass.refs
      BY <1>3 DEF PassKnows
    <3> QED
      BY <1>3, <3>1, <3>2
  <2> QED
    BY <1>3, <2>1, <2>2, <2>3
    DEF Next, Reconcile, Delete, Users, Environment, AddFinalizer, StartReconcile, CleanupOrphan,
        EnsureClusterDeployment, EnsureFails, OrphanCleanupFails, WriteOutputs, PersistFails,
        StartDeletion, CleanupAssociatedResources, DeletionPending, DeletionFails, CreateColony,
        EditSpec, DeleteColony, ControlPlaneStarts, ControlPlaneUp, HealthChanges,
        ClusterDestroyed, GarbageCollect, statusVars
<1>4. TypeOK /\ PassKnows /\ VolumesGone /\ [Next]_vars => [\A c \in refs \ refs' : Given(c)]_vars
  BY <1>3
<1> QED
  BY <1>1, <1>2, <1>4, PassKnowsHolds, PTL DEF Spec, VolumesReclaimed

==============================================================================
