---------------------- MODULE WorkspaceDeploymentProofs ----------------------
(***************************************************************************)
(* Proofs about WorkspaceDeployment for every set of workspaces, classes   *)
(* and templates, every GPU inventory and every choice of faults.          *)
(*                                                                         *)
(* Type correctness comes first.  The teardown properties then follow from *)
(* the inductive invariant Teardown, which adds to them what the passes    *)
(* rely on: nothing is owned without the finalizer, a release without a    *)
(* ServiceSet exists only on a cluster being destroyed, and a destroyed    *)
(* cluster holds nothing.                                                  *)
(***************************************************************************)
EXTENDS WorkspaceDeployment, TLAPS

FailureContexts == [phase : Phases, reason : Reasons]

StatusTypeOK ==
    /\ phase \in [Workspaces -> Phases]
    /\ failCtx \in [Workspaces -> FailureContexts]
    /\ ready \in [Workspaces -> BOOLEAN]

\* A status write of well-typed values keeps the status well typed, landed
\* or lost.
LEMMA WriteStatusType ==
    ASSUME StatusTypeOK, NEW w \in Workspaces, NEW ok \in BOOLEAN,
           NEW p \in Phases, NEW f \in FailureContexts, NEW r \in BOOLEAN,
           WriteStatus(w, ok, p, f, r)
    PROVE  StatusTypeOK'
  BY DEF StatusTypeOK, WriteStatus

\* markFailed captures a well-typed failure context.
LEMMA CaptureFailureType ==
    ASSUME StatusTypeOK, NEW w \in Workspaces, NEW reason \in Reasons
    PROVE  CaptureFailure(w, reason) \in FailureContexts
  BY DEF StatusTypeOK, CaptureFailure, BuildFailureContext, FailureContexts, Phases

\* So does a write that changes the phase alone.
LEMMA WritePhaseType ==
    ASSUME StatusTypeOK, NEW w \in Workspaces, NEW ok \in BOOLEAN, NEW p \in Phases,
           WritePhase(w, ok, p)
    PROVE  StatusTypeOK'
  <1>1. failCtx[w] \in FailureContexts /\ ready[w] \in BOOLEAN
    BY DEF StatusTypeOK
  <1>2. WriteStatus(w, ok, p, failCtx[w], ready[w])
    BY DEF WritePhase
  <1>3. QED
    BY <1>1, <1>2, WriteStatusType

\* A landed or lost markFailed keeps the status well typed.
LEMMA MarkFailedType ==
    ASSUME StatusTypeOK, NEW w \in Workspaces, NEW ok \in BOOLEAN, NEW reason \in Reasons,
           MarkFailed(w, ok, reason)
    PROVE  StatusTypeOK'
  <1>1. CaptureFailure(w, reason) \in FailureContexts
    BY CaptureFailureType
  <1>2. ready[w] \in BOOLEAN /\ "Failed" \in Phases
    BY DEF StatusTypeOK, Phases
  <1>3. WriteStatus(w, ok, "Failed", CaptureFailure(w, reason), ready[w])
    BY DEF MarkFailed
  <1>4. QED
    BY <1>1, <1>2, <1>3, WriteStatusType

\* Dropping the object resets the status to well-typed values.
LEMMA DropObjectType ==
    ASSUME TypeOK, NEW w \in Workspaces, DropObject(w)
    PROVE  /\ StatusTypeOK'
           /\ obj' \in [Workspaces -> Clusters]
           /\ older' \in [Workspaces -> SUBSET Workspaces]
           /\ fin' \in [Workspaces -> BOOLEAN]
           /\ suspend' \in [Workspaces -> BOOLEAN]
           /\ grace' \in [Workspaces -> BOOLEAN]
  BY DEF TypeOK, DropObject, StatusTypeOK, FailureContexts, NoFailure, Phases, Reasons, Clusters

\* Removing the finalizer, or failing to, keeps object and status typed.
LEMMA RemoveFinalizerType ==
    ASSUME TypeOK, NEW w \in Workspaces, NEW ok \in BOOLEAN, RemoveFinalizer(w, ok)
    PROVE  /\ StatusTypeOK'
           /\ obj' \in [Workspaces -> Clusters]
           /\ older' \in [Workspaces -> SUBSET Workspaces]
           /\ fin' \in [Workspaces -> BOOLEAN]
           /\ suspend' \in [Workspaces -> BOOLEAN]
           /\ grace' \in [Workspaces -> BOOLEAN]
  <1>1. CASE DropObject(w)
    BY <1>1, DropObjectType
  <1>2. ASSUME NEW b \in BOOLEAN, StayDeleting(w, b)
        PROVE  /\ StatusTypeOK'
               /\ UNCHANGED <<objVars, fin>>
    <2>1. StatusTypeOK /\ "Deleting" \in Phases
      BY DEF TypeOK, StatusTypeOK, FailureContexts, Phases
    <2>2. WritePhase(w, b, "Deleting") /\ UNCHANGED <<objVars, fin>>
      BY <1>2 DEF StayDeleting
    <2>3. QED
      BY <2>1, <2>2, WritePhaseType
  <1>3. CASE \E b \in BOOLEAN : StayDeleting(w, b)
    BY <1>2, <1>3 DEF TypeOK, objVars
  <1>4. QED
    BY <1>1, <1>3 DEF RemoveFinalizer

\* A pass that only writes status keeps every type.
LEMMA StatusOnlyType ==
    ASSUME TypeOK, NEW w \in Workspaces, StatusTypeOK', StatusOnly(w)
    PROVE  TypeOK'
  BY DEF TypeOK, StatusTypeOK, FailureContexts, StatusOnly,
         objVars, ssVars, remoteVars, clusterVars, prereqVars

\* A pass of the controller keeps every type: one case per place it ends.
LEMMA ReconcileType ==
    ASSUME TypeOK, NEW w \in Workspaces, NEW ok \in BOOLEAN, Reconcile(w, ok)
    PROVE  TypeOK'
  <1> DEFINE ObjTypeOK == /\ obj' \in [Workspaces -> Clusters]
                          /\ older' \in [Workspaces -> SUBSET Workspaces]
                          /\ fin' \in [Workspaces -> BOOLEAN]
                          /\ suspend' \in [Workspaces -> BOOLEAN]
                          /\ grace' \in [Workspaces -> BOOLEAN]
  <1>1. StatusTypeOK
    BY DEF TypeOK, StatusTypeOK, FailureContexts
  <1>2. /\ {"Pending", "Waiting", "InstallingPrerequisites", "Deploying", "Running",
            "Deleting"} \subseteq Phases
        /\ NoFailure \in FailureContexts
        /\ {"ClassNotFound", "GpuOfferingUnavailable", "InternalError",
            "HelmReleaseFailed"} \subseteq Reasons
        /\ \A v : PrerequisiteReason(v) \in Reasons
    BY DEF Phases, NoFailure, FailureContexts, Reasons, PrerequisiteReason
  <1>3. CASE ResolveWorkspaceClass(w, ok)
    <2>1. StatusTypeOK'
      BY <1>1, <1>2, <1>3, MarkFailedType DEF ResolveWorkspaceClass
    <2>2. QED
      BY <1>3, <2>1, StatusOnlyType DEF ResolveWorkspaceClass
  <1>4. CASE ResolveClusterDeployment(w, ok)
    <2>1. StatusTypeOK'
      BY <1>1, <1>2, <1>4, WritePhaseType DEF ResolveClusterDeployment
    <2>2. QED
      BY <1>4, <2>1, StatusOnlyType DEF ResolveClusterDeployment
  <1>5. CASE GateUnreachable(w, ok)
    <2>1. StatusTypeOK'
      BY <1>1, <1>2, <1>5, WritePhaseType DEF GateUnreachable
    <2>2. QED
      BY <1>5, <2>1, StatusOnlyType DEF GateUnreachable
  <1>6. CASE GateOfferingAbsent(w, ok)
    <2>1. StatusTypeOK'
      BY <1>1, <1>2, <1>6, MarkFailedType DEF GateOfferingAbsent
    <2>2. QED
      BY <1>6, <2>1, StatusOnlyType DEF GateOfferingAbsent
  <1>7. CASE EnterWaiting(w, ok)
    <2>1. StatusTypeOK'
      BY <1>1, <1>2, <1>7, WritePhaseType DEF EnterWaiting
    <2>2. QED
      BY <1>7, <2>1, StatusOnlyType DEF EnterWaiting
  <1>8. CASE PrerequisitesFailed(w, ok)
    <2>1. StatusTypeOK'
      BY <1>1, <1>2, <1>8, MarkFailedType DEF PrerequisitesFailed
    <2>2. QED
      BY <1>8, <2>1, StatusOnlyType DEF PrerequisitesFailed
  <1>9. CASE PrerequisitesInstalling(w, ok)
    <2>1. StatusTypeOK'
      BY <1>1, <1>2, <1>9, WritePhaseType DEF PrerequisitesInstalling
    <2>2. QED
      BY <1>9, <2>1, StatusOnlyType DEF PrerequisitesInstalling
  <1>10. CASE StartUnreachable(w, ok)
    <2>1. StatusTypeOK'
      BY <1>1, <1>2, <1>10, WritePhaseType DEF StartUnreachable
    <2>2. QED
      BY <1>10, <2>1, StatusOnlyType DEF StartUnreachable
  <1>11. CASE StartNamespaceTerminating(w, ok)
    <2>1. StatusTypeOK'
      BY <1>1, <1>2, <1>11, WritePhaseType DEF StartNamespaceTerminating
    <2>2. QED
      BY <1>11, <2>1, StatusOnlyType DEF StartNamespaceTerminating
  <1>12. CASE PrerequisitesMissing(w, ok)
    <2>1. StatusTypeOK'
      BY <1>1, <1>2, <1>12, WritePhaseType DEF PrerequisitesMissing
    <2>2. pss' \in [Templates -> {"none", "Provisioning", "Deployed", "Failed"}]
      BY <1>12 DEF PrerequisitesMissing, TypeOK
    <2>3. QED
      BY <1>12, <2>1, <2>2 DEF PrerequisitesMissing, TypeOK, StatusTypeOK, FailureContexts,
         objVars, ssVars, remoteVars, clusterVars
  <1>13. CASE CheckServiceReadiness(w, ok)
    <2>1. StatusTypeOK'
      <3>1. CASE WriteStatus(w, ok, "Running", NoFailure, TRUE)
        BY <1>1, <1>2, <3>1, WriteStatusType
      <3>2. CASE MarkFailed(w, ok, "HelmReleaseFailed")
        BY <1>1, <1>2, <3>2, MarkFailedType
      <3>3. QED
        BY <1>13, <3>1, <3>2 DEF CheckServiceReadiness
    <2>2. QED
      BY <1>13, <2>1, StatusOnlyType DEF CheckServiceReadiness
  <1>14. CASE ReconcileRoutes(w)
    BY <1>14 DEF ReconcileRoutes, TypeOK, objVars, statusVars, ssVars, clusterVars, prereqVars
  <1>15. CASE StartDeployment(w, ok)
    <2>1. StatusTypeOK'
      <3>1. CASE WriteStatus(w, ok, "Deploying", NoFailure, ready[w])
        BY <1>1, <1>2, <3>1, WriteStatusType DEF StatusTypeOK
      <3>2. CASE MarkFailed(w, ok, "InternalError")
        BY <1>1, <1>2, <3>2, MarkFailedType
      <3>3. QED
        BY <1>15, <3>1, <3>2 DEF StartDeployment
    <2>2. ss' \in [Workspaces -> SSPhases]
      <3>1. ss' = ss \/ ss' = [ss EXCEPT ![w] = "new"]
        BY <1>15 DEF StartDeployment
      <3>2. QED
        BY <3>1 DEF TypeOK, SSPhases
    <2>3. ns' \in [Workspaces -> {"none", "active", "terminating"}]
      BY <1>15 DEF StartDeployment, TypeOK
    <2>4. QED
      BY <1>15, <2>1, <2>2, <2>3 DEF StartDeployment, TypeOK, StatusTypeOK, FailureContexts,
         objVars, clusterVars, prereqVars
  <1>16. ASSUME NEW b \in BOOLEAN, StayDeleting(w, b)
        PROVE  StatusTypeOK' /\ ObjTypeOK
    <2>1. StatusTypeOK'
      BY <1>1, <1>2, <1>16, WritePhaseType DEF StayDeleting
    <2>2. QED
      BY <1>16, <2>1 DEF StayDeleting, TypeOK, objVars
  <1>17. CASE StartValuesInvalid(w, ok)
    <2>1. StatusTypeOK'
      BY <1>1, <1>2, <1>17, MarkFailedType DEF StartValuesInvalid
    <2>2. QED
      BY <1>17, <2>1, StatusOnlyType DEF StartValuesInvalid
  <1>18. CASE DeleteRoutesBlocked(w, ok)
    BY <1>16, <1>18 DEF DeleteRoutesBlocked, TypeOK, StatusTypeOK, FailureContexts,
       ssVars, remoteVars, clusterVars, prereqVars
  <1>19. ASSUME routes' = RoutesCleaned(w)
        PROVE  routes' \in [Workspaces -> BOOLEAN]
    BY <1>19 DEF RoutesCleaned, TypeOK
  <1>20. RouteExcuses(w) \in SUBSET {"routes", "namespace"}
    BY DEF RouteExcuses, TypeOK
  <1>21. CASE DeleteInterrupted(w, ok)
    <2>1. StatusTypeOK' /\ ObjTypeOK
      BY <1>16, <1>21 DEF DeleteInterrupted
    <2>2. gaveUp' \in [Workspaces -> SUBSET {"routes", "namespace"}]
      BY <1>20, <1>21 DEF DeleteInterrupted, TypeOK
    <2>3. routes' \in [Workspaces -> BOOLEAN]
      BY <1>19, <1>21 DEF DeleteInterrupted
    <2>4. UNCHANGED <<ssVars, ns, clusterVars, prereqVars>>
      BY <1>21 DEF DeleteInterrupted
    <2>5. QED
      BY <2>1, <2>2, <2>3, <2>4 DEF TypeOK, StatusTypeOK, FailureContexts,
         ssVars, clusterVars, prereqVars
  <1>22. CASE DeleteClusterGone(w, ok)
    <2>1. StatusTypeOK' /\ ObjTypeOK
      BY <1>16, <1>22, RemoveFinalizerType DEF DeleteClusterGone
    <2>2. ss' \in [Workspaces -> SSPhases] /\ ssState' \in [Workspaces -> {"none", "Deployed", "Failed"}]
      <3>1. /\ ss' = [ss EXCEPT ![w] = "none"] \/ ss' = [ss EXCEPT ![w] = "deleting"]
            /\ ssState' = [ssState EXCEPT ![w] = "none"] \/ ssState' = ssState
        BY <1>22 DEF DeleteClusterGone
      <3>2. /\ ss \in [Workspaces -> SSPhases]
            /\ ssState \in [Workspaces -> {"none", "Deployed", "Failed"}]
        BY DEF TypeOK
      <3>3. ss' \in [Workspaces -> SSPhases]
        BY <3>1, <3>2 DEF SSPhases
      <3>4. ssState' \in [Workspaces -> {"none", "Deployed", "Failed"}]
        BY <3>1, <3>2
      <3>5. QED
        BY <3>3, <3>4
    <2>3. gaveUp' \in [Workspaces -> SUBSET {"routes", "namespace"}]
      BY <1>20, <1>22 DEF DeleteClusterGone, TypeOK
    <2>4. ns' \in [Workspaces -> {"none", "active", "terminating"}]
      BY <1>22 DEF DeleteClusterGone, TypeOK
    <2>5. routes' \in [Workspaces -> BOOLEAN]
      BY <1>19, <1>22 DEF DeleteClusterGone
    <2>6. UNCHANGED <<rel, clusterVars, prereqVars>>
      BY <1>22 DEF DeleteClusterGone
    <2>7. QED
      BY <2>1, <2>2, <2>3, <2>4, <2>5, <2>6 DEF TypeOK, StatusTypeOK, FailureContexts,
         clusterVars, prereqVars
  <1>23. CASE DeleteServiceSet(w, ok)
    <2>1. StatusTypeOK' /\ ObjTypeOK
      BY <1>16, <1>23, RemoveFinalizerType DEF DeleteServiceSet
    <2>2. ss' \in [Workspaces -> SSPhases] /\ ssState' \in [Workspaces -> {"none", "Deployed", "Failed"}]
      BY <1>23 DEF DeleteServiceSet, TypeOK, SSPhases
    <2>3. gaveUp' \in [Workspaces -> SUBSET {"routes", "namespace"}]
      BY <1>20, <1>23 DEF DeleteServiceSet, TypeOK
    <2>4. ns' \in [Workspaces -> {"none", "active", "terminating"}]
      BY <1>23 DEF DeleteServiceSet, TypeOK
    <2>5. routes' \in [Workspaces -> BOOLEAN]
      BY <1>19, <1>23 DEF DeleteServiceSet
    <2>6. UNCHANGED <<rel, clusterVars, prereqVars>>
      BY <1>23 DEF DeleteServiceSet
    <2>7. QED
      BY <2>1, <2>2, <2>3, <2>4, <2>5, <2>6 DEF TypeOK, StatusTypeOK, FailureContexts,
         clusterVars, prereqVars
  <1>24. CASE DeleteNamespace(w, ok)
    <2>1. StatusTypeOK' /\ ObjTypeOK
      BY <1>16, <1>24, RemoveFinalizerType DEF DeleteNamespace
    <2>2. ss' \in [Workspaces -> SSPhases] /\ ssState' \in [Workspaces -> {"none", "Deployed", "Failed"}]
      BY <1>24 DEF DeleteNamespace, TypeOK, SSPhases
    <2>3. gaveUp' \in [Workspaces -> SUBSET {"routes", "namespace"}]
      BY <1>20, <1>24 DEF DeleteNamespace, TypeOK
    <2>4. ns' \in [Workspaces -> {"none", "active", "terminating"}]
      <3>1. \/ ns' = ns
            \/ ns' = [ns EXCEPT ![w] = IF @ = "active" THEN "terminating" ELSE @]
        BY <1>24 DEF DeleteNamespace
      <3>2. ns \in [Workspaces -> {"none", "active", "terminating"}]
        BY DEF TypeOK
      <3>3. QED
        BY <3>1, <3>2
    <2>5. routes' \in [Workspaces -> BOOLEAN]
      BY <1>19, <1>24 DEF DeleteNamespace
    <2>6. UNCHANGED <<rel, clusterVars, prereqVars>>
      BY <1>24 DEF DeleteNamespace
    <2>7. QED
      BY <2>1, <2>2, <2>3, <2>4, <2>5, <2>6 DEF TypeOK, StatusTypeOK, FailureContexts,
         clusterVars, prereqVars
  <1>25. QED
    BY <1>3, <1>4, <1>5, <1>6, <1>7, <1>8, <1>9, <1>10, <1>11, <1>12, <1>13, <1>14,
       <1>15, <1>17, <1>18, <1>21, <1>22, <1>23, <1>24 DEF Reconcile

\* What users, k0rdent, Sveltos, the scheduler and the clusters do to one
\* workspace keeps every type.
LEMMA WorkspaceStepType ==
    ASSUME TypeOK, NEW w \in Workspaces,
           UserStep(w) \/ GraceExpires(w) \/ ReleaseStep(w)
    PROVE  TypeOK'
  <1> USE DEF objVars, statusVars, ssVars, remoteVars, clusterVars, prereqVars, controllerVars
  <1>1. CASE Create(w)
    <2>1. older' \in [Workspaces -> SUBSET Workspaces]
      <3>1. PICK seniors \in SUBSET Existing :
               older' = [v \in Workspaces |->
                           IF v = w THEN seniors
                           ELSE IF v \in Existing \ seniors THEN older[v] \cup {w}
                           ELSE older[v]]
        BY <1>1 DEF Create
      <3>2. Existing \subseteq Workspaces
        BY DEF Existing
      <3>3. QED
        BY <3>1, <3>2 DEF TypeOK
    <2>2. QED
      BY <1>1, <2>1 DEF Create, TypeOK, Clusters
  <1>2. CASE Delete(w)
    <2>1. CASE fin[w]
      <3>1. /\ obj' = [obj EXCEPT ![w] = "deleting"]
            /\ UNCHANGED <<older, suspend, grace, fin, statusVars, ssVars, remoteVars, clusterVars,
                           prereqVars>>
        BY <1>2, <2>1 DEF Delete
      <3>2. obj' \in [Workspaces -> Clusters]
        BY <3>1 DEF TypeOK, Clusters
      <3>3. QED
        BY <3>1, <3>2 DEF TypeOK, statusVars, ssVars, remoteVars, clusterVars, prereqVars
    <2>2. CASE ~fin[w]
      <3>1. DropObject(w) /\ UNCHANGED <<ssVars, remoteVars, clusterVars, prereqVars>>
        BY <1>2, <2>2 DEF Delete
      <3>2. QED
        BY <3>1, DropObjectType DEF TypeOK, StatusTypeOK, FailureContexts
    <2>3. QED
      BY <2>1, <2>2
  <1>3. CASE ToggleSuspend(w)
    BY <1>3 DEF ToggleSuspend, TypeOK
  <1>4. CASE GraceExpires(w)
    BY <1>4 DEF GraceExpires, TypeOK
  <1>5. CASE AdoptServiceSet(w)
    BY <1>5 DEF AdoptServiceSet, TypeOK, SSPhases
  <1>6. CASE HelmInstall(w)
    BY <1>6 DEF HelmInstall, TypeOK
  <1>7. CASE PodsScheduled(w)
    BY <1>7 DEF PodsScheduled, TypeOK
  <1>8. CASE ReportDeployed(w)
    BY <1>8 DEF ReportDeployed, TypeOK
  <1>9. CASE ReportFailed(w)
    BY <1>9 DEF ReportFailed, TypeOK
  <1>10. CASE HelmUninstall(w)
    BY <1>10 DEF HelmUninstall, TypeOK, SSPhases
  <1>11. CASE NamespaceTerminated(w)
    BY <1>11 DEF NamespaceTerminated, TypeOK
  <1>12. QED
    BY <1>1, <1>2, <1>3, <1>4, <1>5, <1>6, <1>7, <1>8, <1>9, <1>10, <1>11
       DEF UserStep, ReleaseStep

\* So does everything that happens to the clusters and the shared installs.
LEMMA ClusterStepType ==
    ASSUME TypeOK, ClusterStep
    PROVE  TypeOK'
  <1> USE DEF objVars, statusVars, ssVars, remoteVars, clusterVars, prereqVars, controllerVars
  <1>1. CASE DeleteCluster
    BY <1>1 DEF DeleteCluster, TypeOK, Clusters
  <1>2. CASE ClusterDestroyed
    BY <1>2 DEF ClusterDestroyed, TypeOK, Clusters
  <1>3. CASE CreateCluster
    BY <1>3 DEF CreateCluster, TypeOK, Clusters
  <1>4. CASE ChildUp
    BY <1>4 DEF ChildUp, TypeOK
  <1>5. CASE ChildDown
    BY <1>5 DEF ChildDown, TypeOK
  <1>6. CASE RegionalChanges
    BY <1>6 DEF RegionalChanges, TypeOK
  <1>7. ASSUME NEW c \in Classes, ToggleClass(c)
        PROVE  TypeOK'
    BY <1>7 DEF ToggleClass, TypeOK
  <1>8. ASSUME NEW t \in Templates,
               PrereqDeployed(t) \/ PrereqDisturbed(t) \/ ColonyChanges(t)
        PROVE  TypeOK'
    <2>1. CASE PrereqDeployed(t)
      BY <2>1 DEF PrereqDeployed, TypeOK
    <2>2. CASE PrereqDisturbed(t)
      <3>1. pss' \in [Templates -> {"none", "Provisioning", "Deployed", "Failed"}]
        BY <2>2 DEF PrereqDisturbed, TypeOK
      <3>2. UNCHANGED <<controllerVars, ssVars, remoteVars, clusterVars, colony>>
        BY <2>2 DEF PrereqDisturbed
      <3>3. QED
        BY <3>1, <3>2 DEF TypeOK
    <2>3. CASE ColonyChanges(t)
      BY <2>3 DEF ColonyChanges, TypeOK
    <2>4. QED
      BY <1>8, <2>1, <2>2, <2>3
  <1>9. ASSUME NEW s \in Selectors, NodesJoin(s)
        PROVE  TypeOK'
    <2>1. gpus' \in [Selectors -> Nat]
      BY <1>9, GpuAssumption DEF NodesJoin, TypeOK
    <2>2. QED
      BY <1>9, <2>1 DEF NodesJoin, TypeOK
  <1>10. QED
    BY <1>1, <1>2, <1>3, <1>4, <1>5, <1>6, <1>7, <1>8, <1>9 DEF ClusterStep

\* The types hold at the start and every step of the system keeps them.
THEOREM TypeCorrect == Spec => []TypeOK
  <1>1. Init => TypeOK
    <2>1. SUFFICES ASSUME Init PROVE TypeOK
      OBVIOUS
    <2>2. failCtx \in [Workspaces -> [phase : Phases, reason : Reasons]]
      BY <2>1 DEF Init, NoFailure, Phases, Reasons
    <2>3. gpus \in [Selectors -> Nat]
      <3>1. PICK late \in Latecomers :
                gpus = [s \in Selectors |-> IF s \in late THEN 0 ELSE Total[s]]
        BY <2>1 DEF Init
      <3>2. QED
        BY <3>1, GpuAssumption
    <2>4. QED
      BY <2>1, <2>2, <2>3 DEF Init, TypeOK, Clusters, Phases, SSPhases
  <1>2. TypeOK /\ [Next]_vars => TypeOK'
    <2>1. SUFFICES ASSUME TypeOK, [Next]_vars PROVE TypeOK'
      OBVIOUS
    <2>2. CASE UNCHANGED vars
      BY <2>1, <2>2 DEF TypeOK, vars, objVars, statusVars, ssVars, remoteVars,
         clusterVars, prereqVars
    <2>3. ASSUME NEW w \in Workspaces, NEW ok \in Writes, Reconcile(w, ok)
          PROVE  TypeOK'
      <3>1. ok \in BOOLEAN
        BY DEF Writes
      <3>2. QED
        BY <2>1, <2>3, <3>1, ReconcileType
    <2>4. QED
      BY <2>1, <2>2, <2>3, WorkspaceStepType, ClusterStepType DEF Next
  <1>3. QED
    BY <1>1, <1>2, PTL DEF Spec

(***************************************************************************)
(* Teardown                                                                *)
(***************************************************************************)
TornDown(v) == Finalized(v) /\ RoutesFirst(v) /\ ReleaseFirst(v)

\* What Teardown says of one workspace depends on these variables alone.
LEMMA TornDownUnchanged ==
    ASSUME NEW v \in Workspaces, TornDown(v), cd' = cd,
           obj'[v] = obj[v], fin'[v] = fin[v], ss'[v] = ss[v], rel'[v] = rel[v],
           ns'[v] = ns[v], routes'[v] = routes[v], gaveUp'[v] = gaveUp[v]
    PROVE  TornDown(v)'
  BY DEF TornDown, Finalized, RoutesFirst, ReleaseFirst

\* A pass that only puts the finalizer on and writes status keeps Teardown.
LEMMA StatusOnlyTeardown ==
    ASSUME TypeOK, Teardown, NEW w \in Workspaces, obj[w] = "live", StatusOnly(w)
    PROVE  Teardown'
  <1>1. SUFFICES ASSUME NEW v \in Workspaces PROVE TornDown(v)'
    BY DEF Teardown, TornDown
  <1>2. TornDown(v)
    BY DEF Teardown, TornDown
  <1>3. UNCHANGED <<obj, ss, rel, ns, routes, gaveUp, cd>> /\ fin' = [fin EXCEPT ![w] = TRUE]
    BY DEF StatusOnly, objVars, ssVars, remoteVars, clusterVars
  <1>4. QED
    BY <1>2, <1>3 DEF TypeOK, TornDown, Finalized, RoutesFirst, ReleaseFirst

\* Every pass over a live workspace keeps Teardown.
LEMMA LivePassTeardown ==
    ASSUME TypeOK, Teardown, NEW w \in Workspaces, NEW ok \in BOOLEAN,
           \/ ResolveWorkspaceClass(w, ok) \/ ResolveClusterDeployment(w, ok)
           \/ GateUnreachable(w, ok) \/ GateOfferingAbsent(w, ok) \/ EnterWaiting(w, ok)
           \/ PrerequisitesFailed(w, ok) \/ PrerequisitesMissing(w, ok)
           \/ PrerequisitesInstalling(w, ok) \/ CheckServiceReadiness(w, ok)
           \/ ReconcileRoutes(w) \/ StartUnreachable(w, ok) \/ StartValuesInvalid(w, ok)
           \/ StartNamespaceTerminating(w, ok) \/ StartDeployment(w, ok)
    PROVE  Teardown'
  <1>1. obj[w] = "live"
    BY DEF ResolveWorkspaceClass, ResolveClusterDeployment, GateUnreachable,
       GateOfferingAbsent, EnterWaiting, PrerequisitesFailed, PrerequisitesMissing,
       PrerequisitesInstalling, CheckServiceReadiness, ReconcileRoutes, StartUnreachable,
       StartValuesInvalid, StartNamespaceTerminating, StartDeployment, Starting,
       PastPrerequisites, PrerequisitesEvaluated, PastGate, PastCluster, PastClass, Active
  <1>2. CASE StatusOnly(w)
    BY <1>1, <1>2, StatusOnlyTeardown
  <1>3. CASE PrerequisitesMissing(w, ok)
    <2>1. fin' = [fin EXCEPT ![w] = TRUE] /\ UNCHANGED <<objVars, ssVars, remoteVars, clusterVars>>
      BY <1>3 DEF PrerequisitesMissing
    <2>2. SUFFICES ASSUME NEW v \in Workspaces PROVE TornDown(v)'
      BY DEF Teardown, TornDown
    <2>3. TornDown(v)
      BY DEF Teardown, TornDown
    <2>4. QED
      BY <1>1, <2>1, <2>3 DEF TypeOK, TornDown, Finalized, RoutesFirst, ReleaseFirst,
         objVars, ssVars, remoteVars, clusterVars
  <1>4. CASE ReconcileRoutes(w)
    <2>1. /\ fin' = [fin EXCEPT ![w] = TRUE] /\ routes' = [routes EXCEPT ![w] = TRUE]
          /\ RouteProvider
          /\ UNCHANGED <<objVars, ssVars, ns, gaveUp, clusterVars>>
      BY <1>4 DEF ReconcileRoutes
    <2>2. SUFFICES ASSUME NEW v \in Workspaces PROVE TornDown(v)'
      BY DEF Teardown, TornDown
    <2>3. TornDown(v)
      BY DEF Teardown, TornDown
    <2>4. QED
      BY <1>1, <2>1, <2>3 DEF TypeOK, TornDown, Finalized, RoutesFirst, ReleaseFirst,
         objVars, ssVars, clusterVars
  <1>5. CASE StartDeployment(w, ok)
    <2>1. /\ fin' = [fin EXCEPT ![w] = TRUE] /\ ns' = [ns EXCEPT ![w] = "active"]
          /\ ns[w] # "terminating" /\ Starting(w)
          /\ UNCHANGED <<objVars, rel, routes, gaveUp, clusterVars>>
      BY <1>5 DEF StartDeployment
    <2>2. ss' = ss \/ (ss[w] = "none" /\ ss' = [ss EXCEPT ![w] = "new"])
      BY <1>5 DEF StartDeployment
    <2>3. cd # "absent"
      BY <2>1 DEF Starting, PastPrerequisites, PastGate, PastCluster
    <2>4. SUFFICES ASSUME NEW v \in Workspaces PROVE TornDown(v)'
      BY DEF Teardown, TornDown
    <2>5. TornDown(v)
      BY DEF Teardown, TornDown
    <2>6. CASE v # w
      <3>1. /\ cd' = cd /\ obj' = obj /\ rel' = rel /\ routes' = routes /\ gaveUp' = gaveUp
            /\ fin'[v] = fin[v] /\ ss'[v] = ss[v] /\ ns'[v] = ns[v]
        BY <2>1, <2>2, <2>6 DEF TypeOK, objVars, clusterVars
      <3>2. QED
        BY <2>5, <3>1, TornDownUnchanged
    <2>7. CASE v = w
      BY <1>1, <2>1, <2>2, <2>3, <2>5, <2>7 DEF TypeOK, TornDown, Finalized, RoutesFirst,
         ReleaseFirst, objVars, clusterVars
    <2>8. QED
      BY <2>6, <2>7
  <1>6. QED
    BY <1>2, <1>3, <1>4, <1>5 DEF ResolveWorkspaceClass, ResolveClusterDeployment,
       GateUnreachable, GateOfferingAbsent, EnterWaiting, PrerequisitesFailed,
       PrerequisitesInstalling, CheckServiceReadiness, StartUnreachable,
       StartValuesInvalid, StartNamespaceTerminating

\* The route step of a deletion: routes that survive it are accounted for.
LEMMA RouteStep ==
    ASSUME TypeOK, NEW w \in Workspaces, TornDown(w), routes' = RoutesCleaned(w)
    PROVE  /\ routes'[w] => "routes" \in RouteExcuses(w)
           /\ ~RouteProvider => ~routes'[w]
           /\ \A v \in Workspaces \ {w} : routes'[v] = routes[v]
  BY DEF TypeOK, TornDown, RoutesFirst, RoutesCleaned, RouteExcuses, RoutesReachable

\* Leaving the finalizer on, or taking it off, touches no other workspace.
LEMMA FinalizerStep ==
    ASSUME TypeOK, NEW w \in Workspaces, NEW ok \in BOOLEAN,
           RemoveFinalizer(w, ok) \/ \E b \in BOOLEAN : StayDeleting(w, b)
    PROVE  /\ \/ obj'[w] = "absent" /\ ~fin'[w]
              \/ obj'[w] = obj[w] /\ fin'[w] = fin[w]
           /\ \A v \in Workspaces \ {w} : obj'[v] = obj[v] /\ fin'[v] = fin[v]
  <1>1. CASE DropObject(w)
    BY <1>1 DEF DropObject, TypeOK
  <1>2. CASE \E b \in BOOLEAN : StayDeleting(w, b)
    BY <1>2 DEF StayDeleting, objVars
  <1>3. QED
    BY <1>1, <1>2 DEF RemoveFinalizer

\* Every pass over a workspace being deleted keeps Teardown.
LEMMA DeletePassTeardown ==
    ASSUME TypeOK, Teardown, NEW w \in Workspaces, NEW ok \in BOOLEAN,
           \/ DeleteRoutesBlocked(w, ok) \/ DeleteInterrupted(w, ok)
           \/ DeleteClusterGone(w, ok) \/ DeleteServiceSet(w, ok) \/ DeleteNamespace(w, ok)
    PROVE  Teardown'
  <1>1. /\ Finalizing(w)
        /\ RemoveFinalizer(w, ok) \/ \E b \in BOOLEAN : StayDeleting(w, b)
        /\ cd' = cd /\ rel' = rel
    BY DEF DeleteRoutesBlocked, DeleteInterrupted, DeleteClusterGone, DeleteServiceSet,
       DeleteNamespace, ssVars, clusterVars
  <1>2. obj[w] = "deleting" /\ fin[w]
    BY <1>1 DEF Finalizing
  <1>3. /\ \/ obj'[w] = "absent" /\ ~fin'[w]
           \/ obj'[w] = obj[w] /\ fin'[w] = fin[w]
        /\ \A v \in Workspaces \ {w} : obj'[v] = obj[v] /\ fin'[v] = fin[v]
    BY <1>1, FinalizerStep
  <1>4. TornDown(w)
    BY DEF Teardown, TornDown
  <1>5. SUFFICES ASSUME NEW v \in Workspaces PROVE TornDown(v)'
    BY DEF Teardown, TornDown
  <1>6. TornDown(v)
    BY DEF Teardown, TornDown
  <1>7. CASE DeleteRoutesBlocked(w, ok)
    <2>1. UNCHANGED <<obj, fin, ssVars, remoteVars, clusterVars>>
      BY <1>7 DEF DeleteRoutesBlocked, StayDeleting, objVars
    <2>2. QED
      BY <1>6, <2>1, TornDownUnchanged DEF ssVars, remoteVars, clusterVars
  <1>8. CASE DeleteInterrupted(w, ok)
    <2>1. /\ routes' = RoutesCleaned(w)
          /\ gaveUp' = [gaveUp EXCEPT ![w] = RouteExcuses(w)]
          /\ UNCHANGED <<obj, fin, ss, ns>>
      BY <1>8 DEF DeleteInterrupted, StayDeleting, objVars, ssVars
    <2>2. CASE v # w
      BY <1>1, <1>4, <1>6, <2>1, <2>2, RouteStep, TornDownUnchanged DEF TypeOK
    <2>3. CASE v = w
      BY <1>1, <1>2, <1>4, <2>1, <2>3, RouteStep DEF TypeOK, TornDown, Finalized,
         RoutesFirst, ReleaseFirst
    <2>4. QED
      BY <2>2, <2>3
  <1>9. CASE DeleteClusterGone(w, ok)
    <2>1. /\ routes' = RoutesCleaned(w)
          /\ gaveUp' = [gaveUp EXCEPT ![w] = RouteExcuses(w)]
          /\ cd # "live" /\ ns' = ns
      BY <1>9 DEF DeleteClusterGone, TargetClusterGone
    <2>2. \/ ss' = [ss EXCEPT ![w] = "none"]
          \/ /\ ss[w] \in {"live", "deleting"}
             /\ ss' = [ss EXCEPT ![w] = "deleting"]
             /\ obj' = obj /\ fin' = fin
      BY <1>9 DEF DeleteClusterGone, StayDeleting, objVars
    <2>3. CASE v # w
      <3>1. /\ cd' = cd /\ rel' = rel /\ ns' = ns /\ obj'[v] = obj[v] /\ fin'[v] = fin[v]
            /\ ss'[v] = ss[v] /\ gaveUp'[v] = gaveUp[v]
        BY <1>1, <1>3, <2>1, <2>2, <2>3 DEF TypeOK
      <3>2. routes'[v] = routes[v]
        BY <1>4, <2>1, <2>3, RouteStep
      <3>3. QED
        BY <1>6, <3>1, <3>2, TornDownUnchanged
    <2>4. CASE v = w
      <3>1. /\ routes'[w] => "routes" \in gaveUp'[w]
            /\ ~RouteProvider => ~routes'[w]
        BY <1>4, <2>1, RouteStep DEF TypeOK
      <3>2. \/ ss'[w] = "none"
            \/ /\ ss[w] \in {"live", "deleting"} /\ ss'[w] = "deleting"
               /\ obj' = obj /\ fin' = fin
        BY <2>2 DEF TypeOK
      <3>3. QED
        BY <1>1, <1>2, <1>3, <1>4, <2>1, <2>4, <3>1, <3>2 DEF TornDown, Finalized,
           RoutesFirst, ReleaseFirst
    <2>5. QED
      BY <2>3, <2>4
  <1>10. CASE DeleteServiceSet(w, ok)
    <2>1. /\ routes' = RoutesCleaned(w)
          /\ gaveUp' = [gaveUp EXCEPT ![w] = RouteExcuses(w)]
          /\ ss[w] \in {"live", "deleting"}
          /\ ss' = [ss EXCEPT ![w] = "deleting"]
          /\ UNCHANGED <<obj, fin, ns>>
      BY <1>10 DEF DeleteServiceSet, ServiceSetGone, TypeOK, SSPhases, StayDeleting, objVars
    <2>2. CASE v # w
      BY <1>1, <1>4, <1>6, <2>1, <2>2, RouteStep, TornDownUnchanged DEF TypeOK
    <2>3. CASE v = w
      BY <1>1, <1>2, <1>4, <2>1, <2>3, RouteStep DEF TypeOK, TornDown, Finalized,
         RoutesFirst, ReleaseFirst
    <2>4. QED
      BY <2>2, <2>3
  <1>11. CASE DeleteNamespace(w, ok)
    <2>1. /\ routes' = RoutesCleaned(w)
          /\ cd = "live"
          /\ ss[w] \in {"none", "new"}
          /\ ss' = [ss EXCEPT ![w] = "none"]
      BY <1>11 DEF DeleteNamespace, ServiceSetGone, TargetClusterGone
    <2>2. \/ /\ ns' = [ns EXCEPT ![w] = IF @ = "active" THEN "terminating" ELSE @]
             /\ gaveUp' = [gaveUp EXCEPT ![w] = RouteExcuses(w) \ {"namespace"}]
          \/ /\ ns' = ns
             /\ gaveUp' = [gaveUp EXCEPT ![w] = RouteExcuses(w) \cup {"namespace"}]
          \/ /\ ns' = ns
             /\ gaveUp' = [gaveUp EXCEPT ![w] = RouteExcuses(w)]
             /\ obj' = obj /\ fin' = fin
      BY <1>11 DEF DeleteNamespace, StayDeleting, objVars
    <2>3. CASE v # w
      BY <1>1, <1>3, <1>4, <1>6, <2>1, <2>2, <2>3, RouteStep, TornDownUnchanged DEF TypeOK
    <2>4. CASE v = w
      <3>1. rel'[w] = "none" /\ ss'[w] = "none"
        BY <1>1, <1>4, <2>1 DEF TypeOK, TornDown, ReleaseFirst
      <3>2. routes'[w] => "routes" \in gaveUp'[w]
        BY <1>4, <2>1, <2>2, RouteStep DEF TypeOK
      <3>3. ~fin'[w] /\ ns'[w] = "active" => "namespace" \in gaveUp'[w]
        BY <1>2, <2>2 DEF TypeOK
      <3>4. QED
        BY <1>1, <1>2, <1>3, <1>4, <2>1, <2>4, <3>1, <3>2, <3>3, RouteStep
           DEF TornDown, Finalized, RoutesFirst, ReleaseFirst
    <2>5. QED
      BY <2>3, <2>4
  <1>12. QED
    BY <1>7, <1>8, <1>9, <1>10, <1>11

\* So does everything users, k0rdent, Sveltos and kube GC do to a workspace.
LEMMA WorkspaceStepTeardown ==
    ASSUME TypeOK, Teardown, NEW w \in Workspaces,
           UserStep(w) \/ GraceExpires(w) \/ ReleaseStep(w)
    PROVE  Teardown'
  <1> USE DEF objVars, statusVars, ssVars, remoteVars, clusterVars, prereqVars, controllerVars
  <1>1. SUFFICES ASSUME NEW v \in Workspaces PROVE TornDown(v)'
    BY DEF Teardown, TornDown
  <1>2. TornDown(v) /\ TornDown(w)
    BY DEF Teardown, TornDown
  <1>3. CASE Create(w)
    BY <1>2, <1>3 DEF Create, TypeOK, TornDown, Finalized, RoutesFirst, ReleaseFirst
  <1>4. CASE Delete(w)
    <2>1. CASE fin[w]
      BY <1>2, <1>4, <2>1 DEF Delete, TypeOK, TornDown, Finalized, RoutesFirst, ReleaseFirst
    <2>2. CASE ~fin[w]
      <3>1. /\ obj' = [obj EXCEPT ![w] = "absent"] /\ fin' = [fin EXCEPT ![w] = FALSE]
            /\ obj[w] = "live" /\ UNCHANGED <<ssVars, remoteVars, clusterVars>>
        BY <1>4, <2>2 DEF Delete, DropObject
      <3>2. QED
        BY <1>2, <2>2, <3>1 DEF TypeOK, TornDown, Finalized, RoutesFirst, ReleaseFirst
    <2>3. QED
      BY <2>1, <2>2
  <1>5. CASE ToggleSuspend(w)
    BY <1>2, <1>5 DEF ToggleSuspend, TypeOK, TornDown, Finalized, RoutesFirst, ReleaseFirst
  <1>6. CASE GraceExpires(w)
    BY <1>2, <1>6 DEF GraceExpires, TypeOK, TornDown, Finalized, RoutesFirst, ReleaseFirst
  <1>7. CASE AdoptServiceSet(w)
    BY <1>2, <1>7 DEF AdoptServiceSet, TypeOK, TornDown, Finalized, RoutesFirst, ReleaseFirst
  <1>8. CASE HelmInstall(w)
    BY <1>2, <1>8 DEF HelmInstall, TypeOK, TornDown, Finalized, RoutesFirst, ReleaseFirst
  <1>9. CASE PodsScheduled(w)
    BY <1>2, <1>9 DEF PodsScheduled, TypeOK, TornDown, Finalized, RoutesFirst, ReleaseFirst
  <1>10. CASE ReportDeployed(w)
    BY <1>2, <1>10 DEF ReportDeployed, TypeOK, TornDown, Finalized, RoutesFirst, ReleaseFirst
  <1>11. CASE ReportFailed(w)
    BY <1>2, <1>11 DEF ReportFailed, TypeOK, TornDown, Finalized, RoutesFirst, ReleaseFirst
  <1>12. CASE HelmUninstall(w)
    BY <1>2, <1>12 DEF HelmUninstall, TypeOK, TornDown, Finalized, RoutesFirst, ReleaseFirst
  <1>13. CASE NamespaceTerminated(w)
    BY <1>2, <1>13 DEF NamespaceTerminated, TypeOK, TornDown, Finalized, RoutesFirst, ReleaseFirst
  <1>14. QED
    BY <1>3, <1>4, <1>5, <1>6, <1>7, <1>8, <1>9, <1>10, <1>11, <1>12, <1>13 DEF UserStep, ReleaseStep

\* And everything that happens to the clusters.
LEMMA ClusterStepTeardown ==
    ASSUME TypeOK, Teardown, ClusterStep
    PROVE  Teardown'
  <1> USE DEF objVars, statusVars, ssVars, remoteVars, clusterVars, prereqVars, controllerVars
  <1>1. SUFFICES ASSUME NEW v \in Workspaces PROVE TornDown(v)'
    BY DEF Teardown, TornDown
  <1>2. TornDown(v)
    BY DEF Teardown, TornDown
  <1>3. CASE DeleteCluster
    BY <1>2, <1>3 DEF DeleteCluster, TypeOK, TornDown, Finalized, RoutesFirst, ReleaseFirst
  <1>4. CASE ClusterDestroyed
    BY <1>2, <1>4 DEF ClusterDestroyed, TypeOK, TornDown, Finalized, RoutesFirst, ReleaseFirst
  <1>5. CASE CreateCluster
    BY <1>2, <1>5 DEF CreateCluster, TypeOK, TornDown, Finalized, RoutesFirst, ReleaseFirst
  <1>6. CASE ChildUp
    BY <1>2, <1>6 DEF ChildUp, TypeOK, TornDown, Finalized, RoutesFirst, ReleaseFirst
  <1>7. CASE ChildDown
    BY <1>2, <1>7 DEF ChildDown, TypeOK, TornDown, Finalized, RoutesFirst, ReleaseFirst
  <1>8. CASE RegionalChanges
    BY <1>2, <1>8 DEF RegionalChanges, TypeOK, TornDown, Finalized, RoutesFirst, ReleaseFirst
  <1>9. CASE \E c \in Classes : ToggleClass(c)
    BY <1>2, <1>9, TornDownUnchanged DEF ToggleClass
  <1>10. CASE \E t \in Templates : PrereqDeployed(t) \/ PrereqDisturbed(t) \/ ColonyChanges(t)
    BY <1>2, <1>10, TornDownUnchanged DEF PrereqDeployed, PrereqDisturbed, ColonyChanges
  <1>11. CASE \E s \in Selectors : NodesJoin(s)
    BY <1>2, <1>11, TornDownUnchanged DEF NodesJoin
  <1>12. QED
    BY <1>3, <1>4, <1>5, <1>6, <1>7, <1>8, <1>9, <1>10, <1>11 DEF ClusterStep

\* Teardown is inductive: what deletion relies on holds of every workspace in
\* every state.
THEOREM TeardownHolds == Spec => []Teardown
  <1>1. Init => Teardown
    <2>1. SUFFICES ASSUME Init, NEW v \in Workspaces PROVE TornDown(v)
      BY DEF Teardown, TornDown
    <2>2. /\ ~fin[v] /\ ~routes[v]
          /\ ss[v] = "none" /\ rel[v] = "none" /\ ns[v] = "none"
      BY <2>1 DEF Init
    <2>3. QED
      BY <2>2 DEF TornDown, Finalized, RoutesFirst, ReleaseFirst
  <1>2. TypeOK /\ Teardown /\ [Next]_vars => Teardown'
    <2>1. SUFFICES ASSUME TypeOK, Teardown, [Next]_vars PROVE Teardown'
      OBVIOUS
    <2>2. CASE UNCHANGED vars
      BY <2>1, <2>2 DEF Teardown, Finalized, RoutesFirst, ReleaseFirst, vars, objVars, ssVars,
         remoteVars, clusterVars
    <2>3. ASSUME NEW w \in Workspaces, NEW ok \in Writes, Reconcile(w, ok)
          PROVE  Teardown'
      <3>1. ok \in BOOLEAN
        BY DEF Writes
      <3>2. QED
        BY <2>1, <2>3, <3>1, LivePassTeardown, DeletePassTeardown DEF Reconcile
    <2>4. QED
      BY <2>1, <2>2, <2>3, WorkspaceStepTeardown, ClusterStepTeardown DEF Next
  <1>3. QED
    BY <1>1, <1>2, TypeCorrect, PTL DEF Spec

\* Namespace termination never races the Helm uninstall, whatever fails when.
THEOREM NamespaceAfterUninstallHolds == Spec => []NamespaceAfterUninstall
  <1>1. Teardown => NamespaceAfterUninstall
    BY DEF Teardown, ReleaseFirst, NamespaceAfterUninstall
  <1>2. QED
    BY <1>1, TeardownHolds, PTL

\* A workspace object never disappears before what it owns.
THEOREM NoOrphansHolds == Spec => []NoOrphans
  <1>1. Teardown => NoOrphans
    BY DEF Teardown, Finalized, NoOrphans
  <1>2. QED
    BY <1>1, TeardownHolds, PTL

\* The front door closes before the backend goes.
THEOREM FrontDoorFirstHolds == Spec => []FrontDoorFirst
  <1>1. Teardown => FrontDoorFirst
    BY DEF Teardown, RoutesFirst, FrontDoorFirst
  <1>2. QED
    BY <1>1, TeardownHolds, PTL

==============================================================================
