------------------------ MODULE WorkspaceStatusProofs ------------------------
(***************************************************************************)
(* Proofs about the status a WorkspaceDeployment reports: what a Failed    *)
(* one says of its failure, who is served first, and what stands behind a  *)
(* Running one.  They rest on a summary of what every pass does to the     *)
(* status, so that each property looks at a handful of status writes and   *)
(* not at every place a pass can end.                                      *)
(***************************************************************************)
EXTENDS WorkspaceDeploymentProofs

\* Phases a pass over a live workspace falls back to.
Fallbacks == {"Pending", "Waiting", "InstallingPrerequisites"}

\* What a pass over a live workspace may do to the status of w.
LiveWrite(w, ok) ==
    \/ UNCHANGED statusVars
    \/ \E o \in BOOLEAN, p \in Fallbacks : WritePhase(w, o, p)
    \/ \E r \in Reasons : MarkFailed(w, ok, r)
    \/ /\ phase[w] = "Deploying" /\ ss[w] # "none" /\ ssState[w] = "Deployed"
       /\ WriteStatus(w, ok, "Running", NoFailure, TRUE)
    \/ Starting(w) /\ WriteStatus(w, ok, "Deploying", NoFailure, ready[w])

\* What any step does to the object and the status of w, or to nobody's.
StatusStep(w, ok) ==
    \/ obj[w] = "live" /\ obj' = obj /\ LiveWrite(w, ok)
    \/ obj[w] = "deleting" /\ obj' = obj /\ \E o \in BOOLEAN : WritePhase(w, o, "Deleting")
    \/ DropObject(w)
    \/ obj[w] = "absent" /\ obj' = [obj EXCEPT ![w] = "live"] /\ UNCHANGED statusVars
    \/ obj[w] = "live" /\ obj' = [obj EXCEPT ![w] = "deleting"] /\ UNCHANGED statusVars

\* Every pass over a live workspace is such a step.
LEMMA LivePassStatus ==
    ASSUME NEW w \in Workspaces, NEW ok \in BOOLEAN,
           \/ ResolveWorkspaceClass(w, ok) \/ ResolveClusterDeployment(w, ok)
           \/ GateUnreachable(w, ok) \/ GateOfferingAbsent(w, ok) \/ EnterWaiting(w, ok)
           \/ PrerequisitesFailed(w, ok) \/ PrerequisitesMissing(w, ok)
           \/ PrerequisitesInstalling(w, ok) \/ CheckServiceReadiness(w, ok)
           \/ ReconcileRoutes(w) \/ StartUnreachable(w, ok) \/ StartValuesInvalid(w, ok)
           \/ StartNamespaceTerminating(w, ok) \/ StartDeployment(w, ok)
    PROVE  obj[w] = "live" /\ obj' = obj /\ LiveWrite(w, ok)
  <1>1. obj[w] = "live"
    BY DEF ResolveWorkspaceClass, ResolveClusterDeployment, GateUnreachable,
       GateOfferingAbsent, EnterWaiting, PrerequisitesFailed, PrerequisitesMissing,
       PrerequisitesInstalling, CheckServiceReadiness, ReconcileRoutes, StartUnreachable,
       StartValuesInvalid, StartNamespaceTerminating, StartDeployment, Starting,
       PastPrerequisites, PrerequisitesEvaluated, PastGate, PastCluster, PastClass, Active
  <1>2. obj' = obj
    BY DEF ResolveWorkspaceClass, ResolveClusterDeployment, GateUnreachable,
       GateOfferingAbsent, EnterWaiting, PrerequisitesFailed, PrerequisitesMissing,
       PrerequisitesInstalling, CheckServiceReadiness, ReconcileRoutes, StartUnreachable,
       StartValuesInvalid, StartNamespaceTerminating, StartDeployment, StatusOnly, objVars
  <1>3. CASE ResolveClusterDeployment(w, ok) \/ GateUnreachable(w, ok) \/ EnterWaiting(w, ok)
             \/ PrerequisitesMissing(w, ok) \/ PrerequisitesInstalling(w, ok)
             \/ StartNamespaceTerminating(w, ok)
    <2>1. CASE PrerequisitesMissing(w, ok)
      <3>1. PICK o \in BOOLEAN : WritePhase(w, o, "InstallingPrerequisites")
        BY <2>1 DEF PrerequisitesMissing
      <3>2. QED
        BY <1>1, <1>2, <3>1 DEF LiveWrite, Fallbacks
    <2>2. CASE ~PrerequisitesMissing(w, ok)
      <3>1. \E p \in Fallbacks : WritePhase(w, ok, p)
        BY <1>3, <2>2 DEF ResolveClusterDeployment, GateUnreachable, EnterWaiting,
           PrerequisitesInstalling, StartNamespaceTerminating, Fallbacks
      <3>2. QED
        BY <1>1, <1>2, <3>1 DEF LiveWrite
    <2>3. QED
      BY <2>1, <2>2
  <1>4. CASE StartUnreachable(w, ok)
    <2>1. WritePhase(w, ok /\ child = "nosecret", "Pending")
      BY <1>4 DEF StartUnreachable
    <2>2. (ok /\ child = "nosecret") \in BOOLEAN /\ "Pending" \in Fallbacks
      BY DEF Fallbacks
    <2>3. \E o \in BOOLEAN, p \in Fallbacks : WritePhase(w, o, p)
      BY <2>1, <2>2
    <2>4. QED
      BY <1>1, <1>2, <2>3 DEF LiveWrite
  <1>5. CASE ResolveWorkspaceClass(w, ok) \/ GateOfferingAbsent(w, ok) \/ PrerequisitesFailed(w, ok)
             \/ StartValuesInvalid(w, ok)
    <2>1. \E r \in Reasons : MarkFailed(w, ok, r)
      BY <1>5 DEF ResolveWorkspaceClass, GateOfferingAbsent, PrerequisitesFailed,
         StartValuesInvalid, PrerequisiteReason, Reasons
    <2>2. QED
      BY <1>1, <1>2, <2>1 DEF LiveWrite
  <1>6. CASE CheckServiceReadiness(w, ok)
    <2>1. "HelmReleaseFailed" \in Reasons
      BY DEF Reasons
    <2>2. QED
      BY <1>1, <1>2, <1>6, <2>1 DEF CheckServiceReadiness, LiveWrite
  <1>7. CASE StartDeployment(w, ok)
    <2>1. "InternalError" \in Reasons
      BY DEF Reasons
    <2>2. QED
      BY <1>1, <1>2, <1>7, <2>1 DEF StartDeployment, LiveWrite
  <1>8. CASE ReconcileRoutes(w)
    BY <1>1, <1>2, <1>8 DEF ReconcileRoutes, LiveWrite
  <1>9. QED
    BY <1>3, <1>4, <1>5, <1>6, <1>7, <1>8

\* Every pass over a workspace being deleted is such a step.
LEMMA DeletePassStatus ==
    ASSUME NEW w \in Workspaces, NEW ok \in BOOLEAN,
           \/ DeleteRoutesBlocked(w, ok) \/ DeleteInterrupted(w, ok) \/ DeleteClusterGone(w, ok)
           \/ DeleteServiceSet(w, ok) \/ DeleteNamespace(w, ok)
    PROVE  StatusStep(w, ok)
  <1>1. obj[w] = "deleting"
    BY DEF DeleteRoutesBlocked, DeleteInterrupted, DeleteClusterGone, DeleteServiceSet,
       DeleteNamespace, Finalizing
  <1>2. DropObject(w) \/ \E o \in BOOLEAN : StayDeleting(w, o)
    BY DEF DeleteRoutesBlocked, DeleteInterrupted, DeleteClusterGone, DeleteServiceSet,
       DeleteNamespace, RemoveFinalizer
  <1>3. QED
    BY <1>1, <1>2 DEF StayDeleting, objVars, StatusStep

\* Every step of the system is one for some workspace, or leaves objects and
\* status alone.
LEMMA NextStatus ==
    ASSUME [Next]_vars
    PROVE  \/ UNCHANGED <<obj, statusVars>>
           \/ \E w \in Workspaces, ok \in BOOLEAN : StatusStep(w, ok)
  <1>1. CASE UNCHANGED vars
    BY <1>1 DEF vars, objVars
  <1>2. ASSUME NEW w \in Workspaces, NEW ok \in Writes, Reconcile(w, ok)
        PROVE  \E o \in BOOLEAN : StatusStep(w, o)
    <2>1. ok \in BOOLEAN
      BY DEF Writes
    <2>2. QED
      BY <1>2, <2>1, LivePassStatus, DeletePassStatus DEF Reconcile, StatusStep
  <1>3. ASSUME NEW w \in Workspaces, UserStep(w)
        PROVE  UNCHANGED <<obj, statusVars>> \/ StatusStep(w, TRUE)
    BY <1>3 DEF UserStep, Create, Delete, ToggleSuspend, StatusStep
  <1>4. ASSUME NEW w \in Workspaces, GraceExpires(w) \/ ReleaseStep(w)
        PROVE  UNCHANGED <<obj, statusVars>>
    BY <1>4 DEF GraceExpires, ReleaseStep, AdoptServiceSet, HelmInstall, PodsScheduled,
       ReportDeployed, ReportFailed, HelmUninstall, NamespaceTerminated, controllerVars, objVars
  <1>5. CASE ClusterStep
    BY <1>5 DEF ClusterStep, DeleteCluster, ClusterDestroyed, CreateCluster, ChildUp, ChildDown,
       RegionalChanges, ToggleClass, NodesJoin, PrereqDeployed, PrereqDisturbed, ColonyChanges,
       controllerVars, objVars
  <1>6. QED
    BY <1>1, <1>2, <1>3, <1>4, <1>5 DEF Next

(***************************************************************************)
(* What a Failed workspace says of its failure                             *)
(***************************************************************************)
\* A status write to w leaves the status of the others alone.
LEMMA WriteStatusAt ==
    ASSUME TypeOK, NEW w \in Workspaces, NEW ok, NEW p, NEW f, NEW r,
           WriteStatus(w, ok, p, f, r), NEW v \in Workspaces
    PROVE  \/ v = w /\ phase'[v] = p /\ failCtx'[v] = f
           \/ phase'[v] = phase[v] /\ failCtx'[v] = failCtx[v]
  BY DEF TypeOK, WriteStatus

\* The phase Deleting is written to objects being deleted only, so that no
\* live workspace fails from it.
Explained ==
    /\ FailureExplained
    /\ \A w \in Workspaces : phase[w] = "Deleting" => obj[w] = "deleting"

\* What a step does to the status of v, given that failures are explained:
\* nothing; a reset; a phase that is not Failed; or a first failure, taken
\* from a phase a live workspace can be in.
LEMMA StatusStepAt ==
    ASSUME TypeOK, Explained, NEW w \in Workspaces, NEW ok \in BOOLEAN, StatusStep(w, ok),
           NEW v \in Workspaces
    PROVE  \/ phase'[v] = phase[v] /\ failCtx'[v] = failCtx[v]
           \/ phase'[v] # "Failed" /\ (phase'[v] = "Deleting" => v = w /\ obj[v] = "deleting" /\ obj' = obj)
           \/ /\ phase[v] # "Failed" /\ phase'[v] = "Failed"
              /\ failCtx'[v].phase \notin {"None", "Failed", "Deleting"}
  <1>1. CASE obj[w] = "live" /\ obj' = obj /\ LiveWrite(w, ok)
    <2>1. CASE UNCHANGED statusVars
      BY <2>1 DEF statusVars
    <2>2. CASE \E o \in BOOLEAN, p \in Fallbacks : WritePhase(w, o, p)
      BY <2>2, WriteStatusAt DEF WritePhase, Fallbacks
    <2>3. ASSUME NEW r \in Reasons, MarkFailed(w, ok, r)
          PROVE  \/ phase'[v] = phase[v] /\ failCtx'[v] = failCtx[v]
                 \/ /\ phase[v] # "Failed" /\ phase'[v] = "Failed"
                    /\ failCtx'[v].phase \notin {"None", "Failed", "Deleting"}
      <3>1. \/ v = w /\ phase'[v] = "Failed" /\ failCtx'[v] = CaptureFailure(w, r)
            \/ phase'[v] = phase[v] /\ failCtx'[v] = failCtx[v]
        BY <2>3, WriteStatusAt DEF MarkFailed
      <3>2. CASE v = w /\ phase[v] = "Failed" /\ phase'[v] = "Failed" /\ failCtx'[v] = CaptureFailure(w, r)
        <4>1. failCtx[v] # NoFailure
          BY <3>2 DEF Explained, FailureExplained, NoFailure
        <4>2. QED
          BY <3>2, <4>1 DEF CaptureFailure
      <3>3. CASE v = w /\ phase[v] # "Failed" /\ phase'[v] = "Failed" /\ failCtx'[v] = CaptureFailure(w, r)
        <4>1. failCtx'[v].phase = IF phase[w] = "None" THEN "Pending" ELSE phase[w]
          BY <3>3 DEF CaptureFailure, BuildFailureContext
        <4>2. phase[w] # "Deleting"
          BY <1>1 DEF Explained
        <4>3. QED
          BY <3>3, <4>1, <4>2
      <3>4. QED
        BY <3>1, <3>2, <3>3
    <2>4. CASE WriteStatus(w, ok, "Running", NoFailure, TRUE)
      BY <2>4 DEF WriteStatus, TypeOK
    <2>5. CASE WriteStatus(w, ok, "Deploying", NoFailure, ready[w])
      BY <2>5, WriteStatusAt
    <2>6. QED
      BY <1>1, <2>1, <2>2, <2>3, <2>4, <2>5 DEF LiveWrite
  <1>2. CASE obj[w] = "deleting" /\ obj' = obj /\ \E o \in BOOLEAN : WritePhase(w, o, "Deleting")
    BY <1>2, WriteStatusAt DEF WritePhase
  <1>3. CASE DropObject(w)
    BY <1>3 DEF DropObject, TypeOK
  <1>4. CASE UNCHANGED statusVars
    BY <1>4 DEF statusVars
  <1>5. QED
    BY <1>1, <1>2, <1>3, <1>4 DEF StatusStep

\* An object leaves the deletion only by being dropped, which resets its phase.
LEMMA DeletingStays ==
    ASSUME TypeOK, NEW w \in Workspaces, NEW ok \in BOOLEAN, StatusStep(w, ok),
           NEW v \in Workspaces, obj[v] = "deleting"
    PROVE  obj'[v] = "deleting" \/ phase'[v] = "None"
  BY DEF TypeOK, StatusStep, DropObject

\* Explained is inductive.
LEMMA ExplainedStep ==
    ASSUME TypeOK, Explained, [Next]_vars
    PROVE  Explained'
  <1>1. CASE UNCHANGED <<obj, statusVars>>
    BY <1>1 DEF Explained, FailureExplained, statusVars
  <1>2. ASSUME NEW w \in Workspaces, NEW ok \in BOOLEAN, StatusStep(w, ok)
        PROVE  Explained'
    <2>1. SUFFICES ASSUME NEW v \in Workspaces
                   PROVE  /\ phase'[v] = "Failed" => failCtx'[v].phase \notin {"None", "Failed", "Deleting"}
                          /\ phase'[v] = "Deleting" => obj'[v] = "deleting"
      BY DEF Explained, FailureExplained
    <2>2. /\ phase[v] = "Failed" => failCtx[v].phase \notin {"None", "Failed", "Deleting"}
          /\ phase[v] = "Deleting" => obj[v] = "deleting"
      BY DEF Explained, FailureExplained
    <2>3. QED
      BY <1>2, <2>2, StatusStepAt, DeletingStays
  <1>3. QED
    BY <1>1, <1>2, NextStatus

\* Explained holds of every reachable state.
THEOREM ExplainedHolds == Spec => []Explained
  <1>1. Init => Explained
    <2>1. Init => \A w \in Workspaces : phase[w] = "None"
      BY DEF Init
    <2>2. (\A w \in Workspaces : phase[w] = "None") => Explained
      BY DEF Explained, FailureExplained
    <2>3. QED
      BY <2>1, <2>2
  <1>2. QED
    BY <1>1, ExplainedStep, TypeCorrect, PTL DEF Spec

\* A Failed workspace names the phase it failed in, under every fault.
THEOREM FailureExplainedHolds == Spec => []FailureExplained
  <1>1. Explained => FailureExplained
    BY DEF Explained
  <1>2. QED
    BY <1>1, ExplainedHolds, PTL

\* Later failing passes never rewrite the context of the first failure.
THEOREM FirstFailureWinsHolds == Spec => FirstFailureWins
  <1>1. TypeOK /\ Explained /\ [Next]_vars =>
          [\A w \in Workspaces :
              phase[w] = "Failed" /\ phase'[w] = "Failed" => failCtx'[w] = failCtx[w]]_vars
    <2>1. SUFFICES ASSUME TypeOK, Explained, [Next]_vars,
                          NEW v \in Workspaces, phase[v] = "Failed", phase'[v] = "Failed"
                   PROVE  failCtx'[v] = failCtx[v]
      OBVIOUS
    <2>2. CASE UNCHANGED <<obj, statusVars>>
      BY <2>2 DEF statusVars
    <2>3. CASE \E w \in Workspaces, ok \in BOOLEAN : StatusStep(w, ok)
      BY <2>1, <2>3, StatusStepAt
    <2>4. QED
      BY <2>1, <2>2, <2>3, NextStatus
  <1>2. QED
    BY <1>1, ExplainedHolds, TypeCorrect, PTL DEF Spec, FirstFailureWins

(***************************************************************************)
(* Oldest first                                                            *)
(***************************************************************************)
\* Only a pass that got past the gate and the prerequisites of v makes v
\* start deploying.
LEMMA StartsDeploying ==
    ASSUME TypeOK, [Next]_vars, NEW v \in Workspaces,
           phase[v] # "Deploying", phase'[v] = "Deploying"
    PROVE  Starting(v)
  <1>1. PICK w \in Workspaces, ok \in BOOLEAN : StatusStep(w, ok)
    BY NextStatus DEF statusVars
  <1>2. CASE obj[w] = "live" /\ obj' = obj /\ LiveWrite(w, ok)
    <2>1. CASE \E o \in BOOLEAN, p \in Fallbacks : WritePhase(w, o, p)
      BY <2>1, WriteStatusAt DEF WritePhase, Fallbacks
    <2>2. CASE \E r \in Reasons : MarkFailed(w, ok, r)
      BY <2>2, WriteStatusAt DEF MarkFailed
    <2>3. CASE WriteStatus(w, ok, "Running", NoFailure, TRUE)
      BY <2>3 DEF WriteStatus, TypeOK
    <2>4. CASE Starting(w) /\ WriteStatus(w, ok, "Deploying", NoFailure, ready[w])
      BY <2>4, WriteStatusAt
    <2>5. QED
      BY <1>2, <2>1, <2>2, <2>3, <2>4 DEF LiveWrite, statusVars
  <1>3. CASE \E o \in BOOLEAN : WritePhase(w, o, "Deleting")
    BY <1>3, WriteStatusAt DEF WritePhase
  <1>4. CASE DropObject(w)
    BY <1>4 DEF DropObject, TypeOK
  <1>5. CASE UNCHANGED statusVars
    BY <1>5 DEF statusVars
  <1>6. QED
    BY <1>1, <1>2, <1>3, <1>4, <1>5 DEF StatusStep

\* No workspace starts deploying past an older one Waiting for the same GPUs,
\* for every inventory, demand and fault.
THEOREM ServedOldestFirstHolds == Spec => ServedOldestFirst
  <1>1. TypeOK /\ [Next]_vars =>
          [\A v, w \in Workspaces :
              /\ phase[w] # "Deploying" /\ phase'[w] = "Deploying"
              /\ Selector[w] # NoSelector /\ Selector[v] = Selector[w]
              /\ v \in older[w]
              => phase[v] # "Waiting"]_vars
    <2>1. SUFFICES ASSUME TypeOK, [Next]_vars, NEW v \in Workspaces, NEW w \in Workspaces,
                          phase[w] # "Deploying", phase'[w] = "Deploying",
                          Selector[w] # NoSelector, Selector[v] = Selector[w], v \in older[w]
                   PROVE  phase[v] # "Waiting"
      OBVIOUS
    <2>2. Starting(w)
      BY <2>1, StartsDeploying
    <2>3. Gated(w) /\ GatePasses(w)
      BY <2>1, <2>2 DEF Starting, PastPrerequisites, PastGate, Gated
    <2>4. ~HasOlderWaitingSibling(w)
      BY <2>3 DEF GatePasses, MustWait
    <2>5. QED
      BY <2>1, <2>4 DEF HasOlderWaitingSibling, IsOlderWorkspace
  <1>2. QED
    BY <1>1, TypeCorrect, PTL DEF Spec, ServedOldestFirst

(***************************************************************************)
(* What stands behind a Running workspace                                  *)
(***************************************************************************)
\* What a step does to ServiceSets, their states and releases, on a cluster
\* that stays: nothing; it creates or adopts the ServiceSet of w, installs or
\* places its release, reports on it; deletes or finishes deleting the
\* ServiceSet of a workspace being deleted.
ReleaseEffect(w) ==
    \/ UNCHANGED <<ss, ssState, rel>>
    \/ ss[w] = "none" /\ ss' = [ss EXCEPT ![w] = "new"] /\ UNCHANGED <<ssState, rel>>
    \/ ss[w] = "new" /\ ss' = [ss EXCEPT ![w] = "live"] /\ UNCHANGED <<ssState, rel>>
    \/ rel[w] = "none" /\ rel' = [rel EXCEPT ![w] = "pending"] /\ UNCHANGED <<ss, ssState>>
    \/ rel' = [rel EXCEPT ![w] = "scheduled"] /\ UNCHANGED <<ss, ssState>>
    \/ /\ ss[w] = "live" /\ rel[w] = "scheduled"
       /\ ssState' = [ssState EXCEPT ![w] = "Deployed"] /\ UNCHANGED <<ss, rel>>
    \/ ssState' = [ssState EXCEPT ![w] = "Failed"] /\ UNCHANGED <<ss, rel>>
    \/ /\ obj[w] = "deleting" /\ ss[w] \notin {"none", "new"}
       /\ ss' = [ss EXCEPT ![w] = "deleting"] /\ UNCHANGED <<ssState, rel>>
    \/ /\ ss[w] = "deleting" \/ (obj[w] = "deleting" /\ ss[w] \in {"none", "new"})
       /\ ss' = [ss EXCEPT ![w] = "none"]
       /\ ssState' = [ssState EXCEPT ![w] = "none"]
       /\ rel' = [rel EXCEPT ![w] = "none"] \/ rel' = rel
    \/ ss[w] = "none" /\ rel' = [rel EXCEPT ![w] = "none"] /\ UNCHANGED <<ss, ssState>>

\* Every step is one of these for some workspace, on a cluster nobody deletes.
LEMMA NextRelease ==
    ASSUME TypeOK, Teardown, cd = "live", "cd" \notin Faults, [Next]_vars
    PROVE  /\ cd' = "live"
           /\ UNCHANGED <<ss, ssState, rel>> \/ \E w \in Workspaces : ReleaseEffect(w)
  <1>1. CASE UNCHANGED vars
    BY <1>1 DEF vars, ssVars, clusterVars
  <1>2. ASSUME NEW w \in Workspaces, NEW ok \in Writes, Reconcile(w, ok)
        PROVE  cd' = "live" /\ ReleaseEffect(w)
    <2>1. CASE StatusOnly(w)
      BY <2>1 DEF StatusOnly, ssVars, clusterVars, ReleaseEffect
    <2>2. CASE PrerequisitesMissing(w, ok)
      BY <2>2 DEF PrerequisitesMissing, ssVars, clusterVars, ReleaseEffect
    <2>3. CASE ReconcileRoutes(w)
      BY <2>3 DEF ReconcileRoutes, ssVars, clusterVars, ReleaseEffect
    <2>4. CASE StartDeployment(w, ok)
      <3>1. /\ ss' = ss \/ (ss[w] = "none" /\ ss' = [ss EXCEPT ![w] = "new"])
            /\ ssState' = ssState /\ rel' = rel /\ cd' = cd
        BY <2>4 DEF StartDeployment, clusterVars
      <3>2. CASE ss' = ss
        BY <3>1, <3>2 DEF ReleaseEffect
      <3>3. CASE ss[w] = "none" /\ ss' = [ss EXCEPT ![w] = "new"]
        BY <3>1, <3>3 DEF ReleaseEffect
      <3>4. QED
        BY <3>1, <3>2, <3>3
    <2>5. CASE DeleteRoutesBlocked(w, ok) \/ DeleteInterrupted(w, ok)
      BY <2>5 DEF DeleteRoutesBlocked, DeleteInterrupted, ssVars, clusterVars, ReleaseEffect
    <2>6. CASE DeleteClusterGone(w, ok)
      BY <2>6 DEF DeleteClusterGone, TargetClusterGone
    <2>7. CASE DeleteServiceSet(w, ok)
      BY <2>7 DEF DeleteServiceSet, Finalizing, ServiceSetGone, clusterVars, ReleaseEffect
    <2>8. CASE DeleteNamespace(w, ok)
      BY <2>8 DEF DeleteNamespace, Finalizing, ServiceSetGone, clusterVars, ReleaseEffect
    <2>9. QED
      BY <1>2, <2>1, <2>2, <2>3, <2>4, <2>5, <2>6, <2>7, <2>8
      DEF Reconcile, ResolveWorkspaceClass, ResolveClusterDeployment, GateUnreachable,
          GateOfferingAbsent, EnterWaiting, PrerequisitesFailed, PrerequisitesInstalling,
          CheckServiceReadiness, StartUnreachable, StartValuesInvalid, StartNamespaceTerminating
  <1>3. ASSUME NEW w \in Workspaces, UserStep(w) \/ GraceExpires(w)
        PROVE  cd' = "live" /\ ReleaseEffect(w)
    BY <1>3 DEF UserStep, Create, Delete, ToggleSuspend, GraceExpires, ssVars, clusterVars,
       ReleaseEffect
  <1>4. ASSUME NEW w \in Workspaces, ReleaseStep(w)
        PROVE  cd' = "live" /\ ReleaseEffect(w)
    <2>1. CASE NamespaceTerminated(w)
      <3>1. ss[w] = "none"
        BY <2>1 DEF NamespaceTerminated, Teardown, ReleaseFirst
      <3>2. QED
        BY <2>1, <3>1 DEF NamespaceTerminated, clusterVars, ReleaseEffect
    <2>2. CASE AdoptServiceSet(w) \/ HelmInstall(w)
      BY <2>2 DEF AdoptServiceSet, HelmInstall, clusterVars, ReleaseEffect
    <2>3. CASE PodsScheduled(w)
      BY <2>3 DEF PodsScheduled, clusterVars, ReleaseEffect
    <2>4. CASE ReportDeployed(w)
      <3>1. /\ ss[w] = "live" /\ rel[w] = "scheduled" /\ ss' = ss /\ rel' = rel /\ cd' = cd
            /\ ssState' = [ssState EXCEPT ![w] = "Deployed"]
        BY <2>4 DEF ReportDeployed, clusterVars
      <3>2. QED
        BY <3>1 DEF ReleaseEffect
    <2>5. CASE ReportFailed(w)
      BY <2>5 DEF ReportFailed, clusterVars, ReleaseEffect
    <2>6. CASE HelmUninstall(w)
      <3>1. /\ ss[w] = "deleting" /\ cd' = cd
            /\ ss' = [ss EXCEPT ![w] = "none"]
            /\ ssState' = [ssState EXCEPT ![w] = "none"]
            /\ rel' = [rel EXCEPT ![w] = "none"]
        BY <2>6 DEF HelmUninstall, clusterVars
      <3>2. QED
        BY <3>1 DEF ReleaseEffect
    <2>7. QED
      BY <1>4, <2>1, <2>2, <2>3, <2>4, <2>5, <2>6 DEF ReleaseStep
  <1>5. CASE ClusterStep
    BY <1>5 DEF ClusterStep, DeleteCluster, ClusterDestroyed, CreateCluster, ChildUp, ChildDown,
       RegionalChanges, ToggleClass, NodesJoin, PrereqDeployed, PrereqDisturbed, ColonyChanges,
       ssVars, clusterVars
  <1>6. QED
    BY <1>1, <1>2, <1>3, <1>4, <1>5 DEF Next

\* The inductive form of RunningIsBacked: besides it, a release reported
\* Deployed is placed and its ServiceSet is there, and a workspace that does
\* not exist is not Running when it is created.
Backed ==
    /\ cd = "live"
    /\ RunningIsBacked
    /\ \A w \in Workspaces :
          /\ ssState[w] = "Deployed" => ss[w] \in {"live", "deleting"} /\ rel[w] = "scheduled"
          /\ obj[w] = "absent" => phase[w] # "Running"

\* A reported release stays placed.
LEMMA DeployedStays ==
    ASSUME TypeOK, Backed, NEW w \in Workspaces, ReleaseEffect(w),
           NEW v \in Workspaces, ssState'[v] = "Deployed"
    PROVE  ss'[v] \in {"live", "deleting"} /\ rel'[v] = "scheduled"
  <1>1. ssState[v] = "Deployed" => ss[v] \in {"live", "deleting"} /\ rel[v] = "scheduled"
    BY DEF Backed
  <1>2. CASE v # w
    BY <1>1, <1>2 DEF ReleaseEffect, TypeOK
  <1>3. CASE v = w
    BY <1>1, <1>3 DEF ReleaseEffect, TypeOK
  <1>4. QED
    BY <1>2, <1>3

\* Nobody touches the release of a live workspace that is placed.
LEMMA PlacedStays ==
    ASSUME TypeOK, NEW w \in Workspaces, ReleaseEffect(w),
           NEW v \in Workspaces, obj[v] = "live", ss[v] = "live", rel[v] = "scheduled"
    PROVE  ss'[v] = "live" /\ rel'[v] = "scheduled"
  <1>1. CASE v # w
    BY <1>1 DEF ReleaseEffect, TypeOK
  <1>2. CASE v = w
    BY <1>2 DEF ReleaseEffect, TypeOK
  <1>3. QED
    BY <1>1, <1>2

\* A workspace is Running after a step if it was before, or if the step found
\* its release Deployed; and it exists.
LEMMA BecomesRunning ==
    ASSUME TypeOK, [Next]_vars, NEW v \in Workspaces, phase'[v] = "Running"
    PROVE  \/ phase[v] = "Running" /\ (obj'[v] = obj[v] \/ obj[v] = "absent" \/ obj'[v] = "deleting")
           \/ /\ phase[v] = "Deploying" /\ ss[v] # "none" /\ ssState[v] = "Deployed"
              /\ obj[v] = "live" /\ obj' = obj
  <1>1. CASE UNCHANGED <<obj, statusVars>>
    BY <1>1 DEF statusVars
  <1>2. ASSUME NEW w \in Workspaces, NEW ok \in BOOLEAN, StatusStep(w, ok)
        PROVE  \/ phase[v] = "Running" /\ (obj'[v] = obj[v] \/ obj[v] = "absent" \/ obj'[v] = "deleting")
               \/ /\ phase[v] = "Deploying" /\ ss[v] # "none" /\ ssState[v] = "Deployed"
                  /\ obj[v] = "live" /\ obj' = obj
    <2>1. CASE obj[w] = "live" /\ obj' = obj /\ LiveWrite(w, ok)
      <3>1. CASE \E o \in BOOLEAN, p \in Fallbacks : WritePhase(w, o, p)
        BY <2>1, <3>1, WriteStatusAt DEF WritePhase, Fallbacks
      <3>2. CASE \E r \in Reasons : MarkFailed(w, ok, r)
        BY <2>1, <3>2, WriteStatusAt DEF MarkFailed
      <3>3. CASE /\ phase[w] = "Deploying" /\ ss[w] # "none" /\ ssState[w] = "Deployed"
                 /\ WriteStatus(w, ok, "Running", NoFailure, TRUE)
        BY <2>1, <3>3 DEF WriteStatus, TypeOK
      <3>4. CASE WriteStatus(w, ok, "Deploying", NoFailure, ready[w])
        BY <2>1, <3>4, WriteStatusAt
      <3>5. QED
        BY <2>1, <3>1, <3>2, <3>3, <3>4 DEF LiveWrite, statusVars
    <2>2. CASE obj' = obj /\ \E o \in BOOLEAN : WritePhase(w, o, "Deleting")
      BY <2>2, WriteStatusAt DEF WritePhase
    <2>3. CASE DropObject(w)
      BY <2>3 DEF DropObject, TypeOK
    <2>4. CASE UNCHANGED statusVars /\ obj[w] = "absent" /\ obj' = [obj EXCEPT ![w] = "live"]
      BY <2>4 DEF statusVars, TypeOK
    <2>5. CASE UNCHANGED statusVars /\ obj' = [obj EXCEPT ![w] = "deleting"]
      BY <2>5 DEF statusVars, TypeOK
    <2>6. QED
      BY <1>2, <2>1, <2>2, <2>3, <2>4, <2>5 DEF StatusStep
  <1>3. QED
    BY <1>1, <1>2, NextStatus

\* Backed is inductive on a cluster nobody deletes.
LEMMA BackedStep ==
    ASSUME TypeOK, Teardown, Backed, "cd" \notin Faults, [Next]_vars
    PROVE  Backed'
  <1>1. /\ cd' = "live"
        /\ UNCHANGED <<ss, ssState, rel>> \/ \E w \in Workspaces : ReleaseEffect(w)
    BY NextRelease DEF Backed
  <1>2. SUFFICES ASSUME NEW v \in Workspaces
                 PROVE  /\ ssState'[v] = "Deployed" =>
                              ss'[v] \in {"live", "deleting"} /\ rel'[v] = "scheduled"
                        /\ phase'[v] = "Running" => obj'[v] # "absent"
                        /\ obj'[v] = "live" /\ phase'[v] = "Running" =>
                              ss'[v] = "live" /\ rel'[v] = "scheduled"
    BY <1>1 DEF Backed, RunningIsBacked
  <1>3. /\ ssState[v] = "Deployed" => ss[v] \in {"live", "deleting"} /\ rel[v] = "scheduled"
        /\ phase[v] = "Running" => obj[v] # "absent"
        /\ obj[v] = "live" /\ phase[v] = "Running" => ss[v] = "live" /\ rel[v] = "scheduled"
    BY DEF Backed, RunningIsBacked
  <1>4. ss[v] = "deleting" => obj[v] = "deleting"
    BY DEF Teardown, RoutesFirst
  <1>5. ssState'[v] = "Deployed" => ss'[v] \in {"live", "deleting"} /\ rel'[v] = "scheduled"
    BY <1>1, <1>3, DeployedStays
  <1>6. phase'[v] = "Running" => obj'[v] # "absent"
    BY <1>3, BecomesRunning
  <1>7. ASSUME obj'[v] = "live", phase'[v] = "Running"
        PROVE  ss'[v] = "live" /\ rel'[v] = "scheduled"
    <2>1. obj[v] = "live" /\ ss[v] = "live" /\ rel[v] = "scheduled"
      BY <1>3, <1>4, <1>7, BecomesRunning
    <2>2. QED
      BY <1>1, <2>1, PlacedStays
  <1>8. QED
    BY <1>5, <1>6, <1>7

\* On a cluster nobody deletes, a Running workspace has its ServiceSet and
\* its pods until its user deletes it, whatever else fails.
THEOREM RunningIsBackedHolds == ASSUME "cd" \notin Faults PROVE Spec => []RunningIsBacked
  <1>1. Init => Backed
    <2>1. Init => cd = "live" /\ \A w \in Workspaces : phase[w] = "None" /\ ssState[w] = "none"
      BY DEF Init
    <2>2. cd = "live" /\ (\A w \in Workspaces : phase[w] = "None" /\ ssState[w] = "none") => Backed
      BY DEF Backed, RunningIsBacked
    <2>3. QED
      BY <2>1, <2>2
  <1>2. TypeOK /\ Teardown /\ Backed /\ [Next]_vars => Backed'
    BY BackedStep
  <1>3. Backed => RunningIsBacked
    BY DEF Backed
  <1>4. QED
    BY <1>1, <1>2, <1>3, TypeCorrect, TeardownHolds, PTL DEF Spec

(***************************************************************************)
(* The life of a workspace                                                 *)
(***************************************************************************)
\* What the abstraction needs to know besides: a ServiceSet starts without a
\* report, and nothing is shown of a workspace before its finalizer is on.
Recorded ==
    \A w \in Workspaces :
        /\ ss[w] = "none" => ssState[w] = "none"
        /\ ~fin[w] => phase[w] = "None"

\* A step of w in the abstract life, or no visible step at all.
Refines(w) == Lifecycle!LifecycleStep(w) \/ UNCHANGED Lifecycle!lifecycleVars

\* The release of a workspace is seen the same as long as its ServiceSet and
\* the report on it stay.
LEMMA ReleaseSeenStays ==
    ASSUME UNCHANGED <<ss, ssState>>
    PROVE  ReleaseSeen' = ReleaseSeen
  BY DEF ReleaseSeen

\* A status write that is lost shows nothing.
LEMMA LostWriteRefines ==
    ASSUME NEW w \in Workspaces, NEW ok, ~ok, NEW p, NEW f, NEW r, WriteStatus(w, ok, p, f, r),
           UNCHANGED <<obj, ss, ssState>>
    PROVE  Refines(w)
  BY ReleaseSeenStays DEF WriteStatus, Refines, Lifecycle!lifecycleVars, Lifecycle!shown

\* A pass that falls back to an earlier phase holds the workspace up.
LEMMA FallbackRefines ==
    ASSUME NEW w \in Workspaces, NEW ok \in BOOLEAN, NEW p \in Fallbacks, WritePhase(w, ok, p),
           obj[w] = "live", UNCHANGED <<obj, ss, ssState>>,
           p = "Pending" => phase[w] # "Running",
           p = "InstallingPrerequisites" => Prerequisites(w) # <<>>,
           p = "Waiting" => Selector[w] # NoSelector /\ phase[w] \in Lifecycle!Startable
    PROVE  Refines(w)
  <1>1. CASE ~ok
    BY <1>1, LostWriteRefines DEF WritePhase
  <1>2. CASE ok
    <2>1. Lifecycle!Show(w, p, failCtx[w], ready[w])
      BY <1>2 DEF WritePhase, WriteStatus, Lifecycle!Show
    <2>2. Lifecycle!HoldUp(w)
      BY <2>1, ReleaseSeenStays DEF Lifecycle!HoldUp, Fallbacks
    <2>3. QED
      BY <2>2 DEF Refines, Lifecycle!LifecycleStep
  <1>3. QED
    BY <1>1, <1>2

\* The phases a pass that gets past the gate starts from.
LEMMA LiveStartable ==
    ASSUME TypeOK, Explained, NEW w \in Workspaces, obj[w] = "live",
           phase[w] \notin {"Deploying", "Running", "Failed"}
    PROVE  phase[w] \in Lifecycle!Startable
  BY DEF TypeOK, Phases, Explained, Lifecycle!Startable

\* A failing pass is a failure, or adds nothing to the one on record.
LEMMA FailureRefines ==
    ASSUME TypeOK, Explained, NEW w \in Workspaces, NEW ok \in BOOLEAN, NEW r \in Reasons,
           MarkFailed(w, ok, r), obj[w] = "live", UNCHANGED <<obj, ss, ssState>>
    PROVE  Refines(w)
  <1>1. CASE ~ok
    BY <1>1, LostWriteRefines DEF MarkFailed
  <1>2. CASE ok /\ phase[w] = "Failed"
    <2>1. failCtx[w] # NoFailure
      BY <1>2 DEF Explained, FailureExplained, NoFailure
    <2>2. UNCHANGED statusVars
      BY <1>2, <2>1 DEF MarkFailed, CaptureFailure, WriteStatus, statusVars, TypeOK
    <2>3. QED
      BY <2>2, ReleaseSeenStays DEF statusVars, Refines, Lifecycle!lifecycleVars, Lifecycle!shown
  <1>3. CASE ok /\ phase[w] # "Failed"
    <2>1. Lifecycle!Show(w, "Failed", BuildFailureContext(w, r), ready[w])
      BY <1>3 DEF MarkFailed, CaptureFailure, WriteStatus, Lifecycle!Show
    <2>2. Lifecycle!Fail(w)
      BY <1>3, <2>1, ReleaseSeenStays DEF Lifecycle!Fail, BuildFailureContext
    <2>3. QED
      BY <2>2 DEF Refines, Lifecycle!LifecycleStep
  <1>4. QED
    BY <1>1, <1>2, <1>3

\* Starting a deployment makes the release, and may show it.
LEMMA StartRefines ==
    ASSUME TypeOK, Explained, Recorded, NEW w \in Workspaces, NEW ok \in BOOLEAN,
           StartDeployment(w, ok)
    PROVE  Refines(w)
  <1>1. obj[w] = "live" /\ phase[w] \in Lifecycle!Startable /\ UNCHANGED <<obj, ssState>>
    BY LiveStartable DEF StartDeployment, Starting, PastPrerequisites, PastGate, PastCluster,
       PastClass, Active, objVars
  <1>2. CASE ss' = ss /\ MarkFailed(w, ok, "InternalError")
    BY <1>1, <1>2, FailureRefines DEF Reasons
  <1>3. CASE /\ ss' = IF ss[w] = "none" THEN [ss EXCEPT ![w] = "new"] ELSE ss
             /\ WriteStatus(w, ok, "Deploying", NoFailure, ready[w])
    <2>1. ss[w] = "none" => ssState[w] # "Deployed"
      BY DEF Recorded
    <2>2. ReleaseSeen' = [ReleaseSeen EXCEPT ![w] = IF @ = "none" THEN "applied" ELSE @]
      <3>1. CASE ss[w] = "none"
        BY <1>1, <1>3, <2>1, <3>1 DEF ReleaseSeen, TypeOK
      <3>2. CASE ss[w] # "none"
        BY <1>1, <1>3, <3>2 DEF ReleaseSeen, TypeOK
      <3>3. QED
        BY <3>1, <3>2
    <2>3. Lifecycle!Show(w, "Deploying", NoFailure, ready[w]) \/ UNCHANGED Lifecycle!shown
      BY <1>3 DEF WriteStatus, Lifecycle!Show, Lifecycle!shown
    <2>4. Lifecycle!Deploy(w)
      BY <1>1, <2>2, <2>3 DEF Lifecycle!Deploy
    <2>5. QED
      BY <2>4 DEF Refines, Lifecycle!LifecycleStep
  <1>4. QED
    BY <1>2, <1>3 DEF StartDeployment

\* Every pass over a live workspace is a step of its abstract life.
LEMMA LivePassRefines ==
    ASSUME TypeOK, Explained, Recorded, NEW w \in Workspaces, NEW ok \in BOOLEAN,
           \/ ResolveWorkspaceClass(w, ok) \/ ResolveClusterDeployment(w, ok)
           \/ GateUnreachable(w, ok) \/ GateOfferingAbsent(w, ok) \/ EnterWaiting(w, ok)
           \/ PrerequisitesFailed(w, ok) \/ PrerequisitesMissing(w, ok)
           \/ PrerequisitesInstalling(w, ok) \/ CheckServiceReadiness(w, ok)
           \/ ReconcileRoutes(w) \/ StartUnreachable(w, ok) \/ StartValuesInvalid(w, ok)
           \/ StartNamespaceTerminating(w, ok) \/ StartDeployment(w, ok)
    PROVE  Refines(w)
  <1>1. obj[w] = "live" /\ obj' = obj
    BY LivePassStatus
  <1>2. StatusOnly(w) \/ PrerequisitesMissing(w, ok) \/ ReconcileRoutes(w) => UNCHANGED <<ss, ssState>>
    BY DEF StatusOnly, PrerequisitesMissing, ReconcileRoutes, ssVars
  <1>3. CASE ResolveClusterDeployment(w, ok) \/ GateUnreachable(w, ok)
             \/ StartNamespaceTerminating(w, ok)
    <2>1. WritePhase(w, ok, "Pending") /\ phase[w] # "Running" /\ StatusOnly(w)
      BY <1>3 DEF ResolveClusterDeployment, GateUnreachable, StartNamespaceTerminating, Gated, Starting
    <2>2. QED
      BY <1>1, <1>2, <2>1, FallbackRefines DEF Fallbacks
  <1>4. CASE StartUnreachable(w, ok)
    <2>1. /\ WritePhase(w, ok /\ child = "nosecret", "Pending")
          /\ phase[w] # "Running" /\ StatusOnly(w)
      BY <1>4 DEF StartUnreachable, Starting
    <2>2. (ok /\ child = "nosecret") \in BOOLEAN
      OBVIOUS
    <2>3. QED
      BY <1>1, <1>2, <2>1, <2>2, FallbackRefines DEF Fallbacks
  <1>5. CASE EnterWaiting(w, ok)
    <2>1. WritePhase(w, ok, "Waiting") /\ Gated(w) /\ StatusOnly(w)
      BY <1>5 DEF EnterWaiting
    <2>2. Selector[w] # NoSelector /\ phase[w] \in Lifecycle!Startable
      BY <1>1, <2>1, LiveStartable DEF Gated
    <2>3. QED
      BY <1>1, <1>2, <2>1, <2>2, FallbackRefines DEF Fallbacks
  <1>6. CASE PrerequisitesMissing(w, ok) \/ PrerequisitesInstalling(w, ok)
    <2>1. /\ \E o \in BOOLEAN : WritePhase(w, o, "InstallingPrerequisites")
          /\ Prerequisites(w) # <<>>
      BY <1>6 DEF PrerequisitesMissing, PrerequisitesInstalling, PrerequisitesEvaluated
    <2>2. UNCHANGED <<ss, ssState>>
      BY <1>2, <1>6 DEF PrerequisitesInstalling
    <2>3. QED
      BY <1>1, <2>1, <2>2, FallbackRefines DEF Fallbacks
  <1>7. CASE ResolveWorkspaceClass(w, ok) \/ GateOfferingAbsent(w, ok) \/ PrerequisitesFailed(w, ok)
             \/ StartValuesInvalid(w, ok)
    <2>1. StatusOnly(w) /\ \E r \in Reasons : MarkFailed(w, ok, r)
      BY <1>7 DEF ResolveWorkspaceClass, GateOfferingAbsent, PrerequisitesFailed,
         StartValuesInvalid, PrerequisiteReason, Reasons
    <2>2. QED
      BY <1>1, <1>2, <2>1, FailureRefines
  <1>8. CASE CheckServiceReadiness(w, ok)
    <2>1. UNCHANGED <<ss, ssState>>
      BY <1>2, <1>8 DEF CheckServiceReadiness
    <2>2. CASE MarkFailed(w, ok, "HelmReleaseFailed")
      BY <1>1, <2>1, <2>2, FailureRefines DEF Reasons
    <2>3. CASE ssState[w] = "Deployed" /\ WriteStatus(w, ok, "Running", NoFailure, TRUE)
      <3>1. CASE ~ok
        BY <1>1, <2>1, <2>3, <3>1, LostWriteRefines
      <3>2. CASE ok
        <4>1. phase[w] = "Deploying" /\ ReleaseSeen[w] = "deployed"
          BY <1>8, <2>3 DEF CheckServiceReadiness, ReleaseSeen
        <4>2. Lifecycle!Show(w, "Running", NoFailure, TRUE)
          BY <2>3, <3>2 DEF WriteStatus, Lifecycle!Show
        <4>3. Lifecycle!Run(w)
          BY <1>1, <2>1, <4>1, <4>2, ReleaseSeenStays DEF Lifecycle!Run
        <4>4. QED
          BY <4>3 DEF Refines, Lifecycle!LifecycleStep
      <3>3. QED
        BY <3>1, <3>2
    <2>4. QED
      BY <1>8, <2>2, <2>3 DEF CheckServiceReadiness
  <1>9. CASE ReconcileRoutes(w)
    <2>1. UNCHANGED statusVars
      BY <1>9 DEF ReconcileRoutes
    <2>2. QED
      BY <1>1, <1>2, <1>9, <2>1, ReleaseSeenStays
      DEF statusVars, Refines, Lifecycle!lifecycleVars, Lifecycle!shown
  <1>10. QED
    BY <1>3, <1>4, <1>5, <1>6, <1>7, <1>8, <1>9, StartRefines

\* The ServiceSet of w goes, and with it the release.
LEMMA ReleaseSeenDropped ==
    ASSUME NEW w \in Workspaces, TypeOK, ss' = [ss EXCEPT ![w] = "none"],
           ssState' = [ssState EXCEPT ![w] = "none"]
    PROVE  ReleaseSeen' = [ReleaseSeen EXCEPT ![w] = "none"]
  BY DEF ReleaseSeen, TypeOK

\* A pass that stops before the finalizer tears down some of w.
LEMMA StayDeletingRefines ==
    ASSUME NEW w \in Workspaces, NEW ok \in BOOLEAN, StayDeleting(w, ok), obj[w] = "deleting",
           ReleaseSeen' = ReleaseSeen \/ ReleaseSeen' = [ReleaseSeen EXCEPT ![w] = "none"]
    PROVE  Refines(w)
  <1>1. obj' = obj
    BY DEF StayDeleting, objVars
  <1>2. Lifecycle!Show(w, "Deleting", failCtx[w], ready[w]) \/ UNCHANGED Lifecycle!shown
    BY DEF StayDeleting, WritePhase, WriteStatus, Lifecycle!Show, Lifecycle!shown
  <1>3. Lifecycle!TearDown(w)
    BY <1>1, <1>2 DEF Lifecycle!TearDown
  <1>4. QED
    BY <1>3 DEF Refines, Lifecycle!LifecycleStep

\* An object that is dropped without a release disappears.
LEMMA DropObjectRefines ==
    ASSUME NEW w \in Workspaces, DropObject(w),
           obj[w] = "deleting" \/ (obj[w] = "live" /\ phase[w] = "None" /\ ReleaseSeen[w] = "none"),
           ReleaseSeen' = [ReleaseSeen EXCEPT ![w] = "none"]
    PROVE  Refines(w)
  <1>1. Lifecycle!Show(w, "None", NoFailure, FALSE) /\ obj' = [obj EXCEPT ![w] = "absent"]
    BY DEF DropObject, Lifecycle!Show
  <1>2. Lifecycle!Disappear(w)
    BY <1>1 DEF Lifecycle!Disappear
  <1>3. QED
    BY <1>2 DEF Refines, Lifecycle!LifecycleStep

\* Deleting a ServiceSet that is there does not show yet.
LEMMA ReleaseSeenLingers ==
    ASSUME NEW w \in Workspaces, TypeOK, ss[w] # "none", ss' = [ss EXCEPT ![w] = "deleting"],
           ssState' = ssState
    PROVE  ReleaseSeen' = ReleaseSeen
  <1>1. \A v \in Workspaces : (ss'[v] = "none") = (ss[v] = "none")
    BY DEF TypeOK
  <1>2. QED
    BY <1>1 DEF ReleaseSeen

\* Every pass over a workspace being deleted is a step of its abstract life.
LEMMA DeletePassRefines ==
    ASSUME TypeOK, NEW w \in Workspaces, NEW ok \in BOOLEAN,
           \/ DeleteRoutesBlocked(w, ok) \/ DeleteInterrupted(w, ok) \/ DeleteClusterGone(w, ok)
           \/ DeleteServiceSet(w, ok) \/ DeleteNamespace(w, ok)
    PROVE  Refines(w)
  <1>1. obj[w] = "deleting"
    BY DEF DeleteRoutesBlocked, DeleteInterrupted, DeleteClusterGone, DeleteServiceSet,
       DeleteNamespace, Finalizing
  <1>2. \/ (\E o \in BOOLEAN : StayDeleting(w, o)) /\ UNCHANGED <<ss, ssState>>
        \/ /\ \E o \in BOOLEAN : StayDeleting(w, o)
           /\ ss[w] # "none" /\ ss' = [ss EXCEPT ![w] = "deleting"] /\ ssState' = ssState
        \/ /\ DropObject(w) \/ \E o \in BOOLEAN : StayDeleting(w, o)
           /\ ss' = [ss EXCEPT ![w] = "none"] /\ ssState' = [ssState EXCEPT ![w] = "none"]
    <2>1. CASE DeleteRoutesBlocked(w, ok) \/ DeleteInterrupted(w, ok)
      BY <2>1 DEF DeleteRoutesBlocked, DeleteInterrupted, ssVars
    <2>2. CASE DeleteServiceSet(w, ok)
      BY <2>2 DEF DeleteServiceSet, ServiceSetGone
    <2>3. CASE DeleteClusterGone(w, ok)
      BY <2>3 DEF DeleteClusterGone, RemoveFinalizer
    <2>4. CASE DeleteNamespace(w, ok)
      BY <2>4 DEF DeleteNamespace, RemoveFinalizer
    <2>5. QED
      BY <2>1, <2>2, <2>3, <2>4
  <1>3. CASE (\E o \in BOOLEAN : StayDeleting(w, o)) /\ UNCHANGED <<ss, ssState>>
    BY <1>1, <1>3, ReleaseSeenStays, StayDeletingRefines
  <1>4. CASE /\ \E o \in BOOLEAN : StayDeleting(w, o)
             /\ ss[w] # "none" /\ ss' = [ss EXCEPT ![w] = "deleting"] /\ ssState' = ssState
    BY <1>1, <1>4, ReleaseSeenLingers, StayDeletingRefines
  <1>5. CASE /\ DropObject(w) \/ \E o \in BOOLEAN : StayDeleting(w, o)
             /\ ss' = [ss EXCEPT ![w] = "none"] /\ ssState' = [ssState EXCEPT ![w] = "none"]
    BY <1>1, <1>5, ReleaseSeenDropped, DropObjectRefines, StayDeletingRefines
  <1>6. QED
    BY <1>2, <1>3, <1>4, <1>5

\* So is every step of its user, of k0rdent and of the child cluster.
LEMMA OutsideStepRefines ==
    ASSUME TypeOK, Teardown, Recorded, NEW w \in Workspaces,
           UserStep(w) \/ GraceExpires(w) \/ ReleaseStep(w)
    PROVE  Refines(w)
  <1>1. ss[w] # "none" => obj[w] # "absent"
    BY DEF Teardown, Finalized
  <1>2. CASE ToggleSuspend(w) \/ GraceExpires(w) \/ HelmInstall(w) \/ PodsScheduled(w)
             \/ NamespaceTerminated(w)
    <2>1. UNCHANGED <<obj, statusVars, ss, ssState>>
      BY <1>2 DEF ToggleSuspend, GraceExpires, HelmInstall, PodsScheduled, NamespaceTerminated,
         controllerVars, objVars, ssVars
    <2>2. QED
      BY <2>1, ReleaseSeenStays DEF statusVars, Refines, Lifecycle!lifecycleVars, Lifecycle!shown
  <1>3. CASE Create(w)
    <2>1. /\ obj[w] = "absent" /\ obj' = [obj EXCEPT ![w] = "live"]
          /\ UNCHANGED <<statusVars, ss, ssState>>
      BY <1>3 DEF Create, ssVars
    <2>2. Lifecycle!Appear(w)
      BY <2>1, ReleaseSeenStays DEF statusVars, Lifecycle!Appear, Lifecycle!shown
    <2>3. QED
      BY <2>2 DEF Refines, Lifecycle!LifecycleStep
  <1>4. CASE Delete(w) /\ fin[w]
    <2>1. /\ obj[w] = "live" /\ obj' = [obj EXCEPT ![w] = "deleting"]
          /\ UNCHANGED <<statusVars, ss, ssState>>
      BY <1>4 DEF Delete, ssVars
    <2>2. Lifecycle!RequestDeletion(w)
      BY <2>1, ReleaseSeenStays DEF statusVars, Lifecycle!RequestDeletion, Lifecycle!shown
    <2>3. QED
      BY <2>2 DEF Refines, Lifecycle!LifecycleStep
  <1>5. CASE Delete(w) /\ ~fin[w]
    <2>1. obj[w] = "live" /\ DropObject(w) /\ UNCHANGED <<ss, ssState>>
      BY <1>5 DEF Delete, ssVars
    <2>2. phase[w] = "None" /\ ss[w] = "none"
      BY <1>5 DEF Recorded, Teardown, Finalized
    <2>3. ReleaseSeen[w] = "none" /\ ReleaseSeen' = [ReleaseSeen EXCEPT ![w] = "none"]
      BY <2>1, <2>2 DEF ReleaseSeen
    <2>4. QED
      BY <2>1, <2>2, <2>3, DropObjectRefines
  <1>6. CASE AdoptServiceSet(w)
    <2>1. /\ ss[w] = "new" /\ ss' = [ss EXCEPT ![w] = "live"] /\ ssState' = ssState
          /\ UNCHANGED <<obj, statusVars>>
      BY <1>6 DEF AdoptServiceSet, controllerVars, objVars
    <2>2. \A v \in Workspaces : (ss'[v] = "none") = (ss[v] = "none")
      BY <2>1 DEF TypeOK
    <2>3. ReleaseSeen' = ReleaseSeen
      BY <2>1, <2>2 DEF ReleaseSeen
    <2>4. QED
      BY <2>1, <2>3 DEF statusVars, Refines, Lifecycle!lifecycleVars, Lifecycle!shown
  <1>7. CASE ReportDeployed(w) \/ ReportFailed(w)
    <2>1. PICK s \in {"Deployed", "Failed"} :
             /\ ss[w] = "live" /\ ss' = ss /\ ssState' = [ssState EXCEPT ![w] = s]
             /\ UNCHANGED <<obj, statusVars>>
      BY <1>7 DEF ReportDeployed, ReportFailed, controllerVars, objVars
    <2>2. \E r \in {"applied", "deployed"} : ReleaseSeen' = [ReleaseSeen EXCEPT ![w] = r]
      <3>1. ReleaseSeen' = [ReleaseSeen EXCEPT ![w] = IF s = "Deployed" THEN "deployed" ELSE "applied"]
        BY <2>1 DEF ReleaseSeen, TypeOK
      <3>2. QED
        BY <3>1
    <2>3. ReleaseSeen[w] # "none"
      BY <2>1 DEF ReleaseSeen
    <2>4. Lifecycle!Report(w)
      BY <1>1, <2>1, <2>2, <2>3 DEF statusVars, Lifecycle!Report, Lifecycle!shown
    <2>5. QED
      BY <2>4 DEF Refines, Lifecycle!LifecycleStep
  <1>8. CASE HelmUninstall(w)
    <2>1. /\ ss[w] = "deleting" /\ ss' = [ss EXCEPT ![w] = "none"]
          /\ ssState' = [ssState EXCEPT ![w] = "none"]
          /\ UNCHANGED <<obj, statusVars>>
      BY <1>8 DEF HelmUninstall, controllerVars, objVars
    <2>2. obj[w] = "deleting"
      BY <2>1 DEF Teardown, RoutesFirst
    <2>3. Lifecycle!TearDown(w)
      BY <2>1, <2>2, ReleaseSeenDropped DEF statusVars, Lifecycle!TearDown, Lifecycle!shown
    <2>4. QED
      BY <2>3 DEF Refines, Lifecycle!LifecycleStep
  <1>9. QED
    BY <1>2, <1>3, <1>4, <1>5, <1>6, <1>7, <1>8 DEF UserStep, ReleaseStep

\* What a step does to the ServiceSets and the reports on them: it makes the
\* ServiceSet of w, moves one that is there, reports on it, or removes it
\* with its report.
ReportEffect(w) ==
    \/ ss' = [ss EXCEPT ![w] = "new"] /\ ssState' = ssState
    \/ /\ ss[w] # "none" /\ ssState' = ssState
       /\ \E s \in {"live", "deleting"} : ss' = [ss EXCEPT ![w] = s]
    \/ /\ ss[w] # "none" /\ ss' = ss
       /\ \E s \in {"Deployed", "Failed"} : ssState' = [ssState EXCEPT ![w] = s]
    \/ ss' = [ss EXCEPT ![w] = "none"] /\ ssState' = [ssState EXCEPT ![w] = "none"]

\* What a step does to the finalizer and the status of w: a pass puts the
\* finalizer on before it writes, a deletion finds it there, and both go with
\* the object.
FinalizerEffect(w) ==
    \/ /\ fin' = [fin EXCEPT ![w] = TRUE]
       /\ \A v \in Workspaces \ {w} : phase'[v] = phase[v]
    \/ /\ fin[w] /\ fin' = fin
       /\ \A v \in Workspaces \ {w} : phase'[v] = phase[v]
    \/ DropObject(w)

\* Every pass has these two effects.
LEMMA PassEffects ==
    ASSUME TypeOK, NEW w \in Workspaces, NEW ok \in BOOLEAN, Reconcile(w, ok)
    PROVE  /\ UNCHANGED <<ss, ssState>> \/ ReportEffect(w)
           /\ FinalizerEffect(w)
  <1>1. ASSUME NEW o, NEW p, NEW f, NEW r, WriteStatus(w, o, p, f, r)
        PROVE  \A v \in Workspaces \ {w} : phase'[v] = phase[v]
    BY <1>1 DEF WriteStatus, TypeOK
  <1>2. ASSUME NEW o, StayDeleting(w, o), fin[w]
        PROVE  FinalizerEffect(w)
    BY <1>1, <1>2 DEF StayDeleting, WritePhase, FinalizerEffect
  <1>3. CASE ResolveWorkspaceClass(w, ok) \/ ResolveClusterDeployment(w, ok)
             \/ GateUnreachable(w, ok) \/ GateOfferingAbsent(w, ok) \/ EnterWaiting(w, ok)
             \/ PrerequisitesFailed(w, ok) \/ PrerequisitesInstalling(w, ok)
             \/ CheckServiceReadiness(w, ok) \/ StartUnreachable(w, ok)
             \/ StartValuesInvalid(w, ok) \/ StartNamespaceTerminating(w, ok)
    <2>1. StatusOnly(w) /\ \E o, p, f, r : WriteStatus(w, o, p, f, r)
      BY <1>3 DEF ResolveWorkspaceClass, ResolveClusterDeployment, GateUnreachable,
         GateOfferingAbsent, EnterWaiting, PrerequisitesFailed, PrerequisitesInstalling,
         CheckServiceReadiness, StartUnreachable, StartValuesInvalid,
         StartNamespaceTerminating, MarkFailed, WritePhase
    <2>2. QED
      BY <1>1, <2>1 DEF StatusOnly, ssVars, FinalizerEffect
  <1>4. CASE PrerequisitesMissing(w, ok)
    BY <1>1, <1>4 DEF PrerequisitesMissing, WritePhase, ssVars, FinalizerEffect
  <1>5. CASE ReconcileRoutes(w)
    BY <1>5 DEF ReconcileRoutes, ssVars, statusVars, FinalizerEffect
  <1>6. CASE StartDeployment(w, ok)
    <2>1. /\ fin' = [fin EXCEPT ![w] = TRUE] /\ ssState' = ssState
          /\ ss' = ss \/ ss' = [ss EXCEPT ![w] = "new"]
          /\ \E o, p, f, r : WriteStatus(w, o, p, f, r)
      BY <1>6 DEF StartDeployment, MarkFailed
    <2>2. QED
      BY <1>1, <2>1 DEF ReportEffect, FinalizerEffect
  <1>7. CASE DeleteRoutesBlocked(w, ok) \/ DeleteInterrupted(w, ok)
    BY <1>2, <1>7 DEF DeleteRoutesBlocked, DeleteInterrupted, Finalizing, ssVars
  <1>8. CASE DeleteServiceSet(w, ok)
    BY <1>2, <1>8 DEF DeleteServiceSet, ServiceSetGone, Finalizing, ReportEffect
  <1>9. CASE DeleteClusterGone(w, ok)
    <2>1. fin[w] /\ (DropObject(w) \/ \E o : StayDeleting(w, o))
      BY <1>9 DEF DeleteClusterGone, RemoveFinalizer, Finalizing
    <2>2. FinalizerEffect(w)
      BY <1>2, <2>1 DEF FinalizerEffect
    <2>3. ReportEffect(w)
      BY <1>9 DEF DeleteClusterGone, ReportEffect
    <2>4. QED
      BY <2>2, <2>3
  <1>10. CASE DeleteNamespace(w, ok)
    <2>1. fin[w] /\ (DropObject(w) \/ \E o : StayDeleting(w, o))
      BY <1>10 DEF DeleteNamespace, RemoveFinalizer, Finalizing
    <2>2. FinalizerEffect(w)
      BY <1>2, <2>1 DEF FinalizerEffect
    <2>3. ReportEffect(w)
      BY <1>10 DEF DeleteNamespace, ReportEffect
    <2>4. QED
      BY <2>2, <2>3
  <1>11. QED
    BY <1>3, <1>4, <1>5, <1>6, <1>7, <1>8, <1>9, <1>10 DEF Reconcile

\* Neither effect leaves a stray report or a phase without a finalizer.
LEMMA EffectsRecorded ==
    ASSUME TypeOK, Recorded, NEW w \in Workspaces,
           UNCHANGED <<ss, ssState>> \/ ReportEffect(w),
           UNCHANGED <<fin, phase>> \/ FinalizerEffect(w)
    PROVE  Recorded'
  <1>1. SUFFICES ASSUME NEW v \in Workspaces
                 PROVE  /\ ss'[v] = "none" => ssState'[v] = "none"
                        /\ ~fin'[v] => phase'[v] = "None"
    BY DEF Recorded
  <1>2. /\ ss[v] = "none" => ssState[v] = "none"
        /\ ~fin[v] => phase[v] = "None"
    BY DEF Recorded
  <1>3. ss'[v] = "none" => ssState'[v] = "none"
    <2>1. CASE v = w
      BY <1>2, <2>1 DEF ReportEffect, TypeOK
    <2>2. CASE v # w
      BY <1>2, <2>2 DEF ReportEffect, TypeOK
    <2>3. QED
      BY <2>1, <2>2
  <1>4. ~fin'[v] => phase'[v] = "None"
    <2>1. CASE v = w
      BY <1>2, <2>1 DEF FinalizerEffect, DropObject, TypeOK
    <2>2. CASE v # w
      BY <1>2, <2>2 DEF FinalizerEffect, DropObject, TypeOK
    <2>3. QED
      BY <2>1, <2>2
  <1>5. QED
    BY <1>3, <1>4

\* What happens to clusters, classes, nodes and shared installs changes no
\* workspace and no ServiceSet of one.
LEMMA ClusterStepUnseen ==
    ASSUME ClusterStep \/ UNCHANGED vars
    PROVE  UNCHANGED <<obj, fin, statusVars, ss, ssState>>
  <1>1. CASE ClusterStep
    <2>1. UNCHANGED <<controllerVars, ss, ssState>>
      BY <1>1 DEF ClusterStep, DeleteCluster, ClusterDestroyed, CreateCluster, ChildUp, ChildDown,
         RegionalChanges, ToggleClass, NodesJoin, PrereqDeployed, PrereqDisturbed, ColonyChanges,
         controllerVars, ssVars
    <2>2. QED
      BY <2>1 DEF controllerVars, objVars
  <1>2. CASE UNCHANGED vars
    BY <1>2 DEF vars, objVars, ssVars
  <1>3. QED
    BY <1>1, <1>2

\* Recorded is inductive.
LEMMA RecordedStep ==
    ASSUME TypeOK, Recorded, [Next]_vars
    PROVE  Recorded'
  <1>1. CASE UNCHANGED <<ss, ssState, fin, phase>>
    BY <1>1 DEF Recorded
  <1>2. ASSUME NEW w \in Workspaces, NEW ok \in Writes, Reconcile(w, ok)
        PROVE  Recorded'
    <2>1. ok \in BOOLEAN
      BY DEF Writes
    <2>2. QED
      BY <1>2, <2>1, PassEffects, EffectsRecorded
  <1>3. ASSUME NEW w \in Workspaces, UserStep(w) \/ GraceExpires(w)
        PROVE  Recorded'
    <2>1. UNCHANGED <<ss, ssState>> /\ (UNCHANGED <<fin, phase>> \/ DropObject(w))
      BY <1>3 DEF UserStep, Create, Delete, ToggleSuspend, GraceExpires, ssVars, statusVars
    <2>2. QED
      BY <2>1, EffectsRecorded DEF FinalizerEffect
  <1>4. ASSUME NEW w \in Workspaces, ReleaseStep(w)
        PROVE  Recorded'
    <2>1. UNCHANGED <<fin, phase>>
      BY <1>4 DEF ReleaseStep, AdoptServiceSet, HelmInstall, PodsScheduled, ReportDeployed,
         ReportFailed, HelmUninstall, NamespaceTerminated, controllerVars, statusVars
    <2>2. UNCHANGED <<ss, ssState>> \/ ReportEffect(w)
      BY <1>4 DEF ReleaseStep, AdoptServiceSet, HelmInstall, PodsScheduled, ReportDeployed,
         ReportFailed, HelmUninstall, NamespaceTerminated, ReportEffect
    <2>3. QED
      BY <2>1, <2>2, EffectsRecorded
  <1>5. CASE ClusterStep \/ UNCHANGED vars
    BY <1>1, <1>5, ClusterStepUnseen DEF statusVars
  <1>6. QED
    BY <1>2, <1>3, <1>4, <1>5 DEF Next

\* Recorded holds of every reachable state.
LEMMA RecordedHolds == Spec => []Recorded
  <1>1. Init => Recorded
    <2>1. SUFFICES ASSUME Init, NEW w \in Workspaces
                   PROVE  ssState[w] = "none" /\ phase[w] = "None"
      BY DEF Recorded
    <2>2. QED
      BY <2>1 DEF Init
  <1>2. QED
    BY <1>1, RecordedStep, TypeCorrect, PTL DEF Spec

\* Every step is a step of the abstract life of some workspace, or not seen.
LEMMA NextRefines ==
    ASSUME TypeOK, Teardown, Explained, Recorded, [Next]_vars
    PROVE  UNCHANGED Lifecycle!lifecycleVars \/ \E w \in Workspaces : Refines(w)
  <1>1. CASE ClusterStep \/ UNCHANGED vars
    BY <1>1, ClusterStepUnseen, ReleaseSeenStays
    DEF statusVars, Lifecycle!lifecycleVars, Lifecycle!shown
  <1>2. ASSUME NEW w \in Workspaces, NEW ok \in Writes, Reconcile(w, ok)
        PROVE  Refines(w)
    <2>1. ok \in BOOLEAN
      BY DEF Writes
    <2>2. QED
      BY <1>2, <2>1, LivePassRefines, DeletePassRefines DEF Reconcile
  <1>3. QED
    BY <1>1, <1>2, OutsideStepRefines DEF Next

\* The controller implements WorkspaceLifecycle: for any workspaces, classes,
\* prerequisites and GPU pools and under every combination of faults, each
\* step of the system is a step of the abstract life of one workspace or is
\* not seen in it.
THEOREM ImplementsLifecycleHolds == Spec => ImplementsLifecycle
  <1>1. Init => Lifecycle!LifecycleInit
    <2>1. SUFFICES ASSUME Init PROVE Lifecycle!LifecycleInit
      OBVIOUS
    <2>2. ReleaseSeen = [w \in Workspaces |-> "none"]
      BY <2>1 DEF Init, ReleaseSeen
    <2>3. QED
      BY <2>1, <2>2 DEF Init, Lifecycle!LifecycleInit
  <1>2. TypeOK /\ Teardown /\ Explained /\ Recorded /\ [Next]_vars
        => [Lifecycle!LifecycleNext]_(Lifecycle!lifecycleVars)
    BY NextRefines DEF Refines, Lifecycle!LifecycleNext
  <1>3. QED
    BY <1>1, <1>2, TypeCorrect, TeardownHolds, ExplainedHolds, RecordedHolds, PTL
    DEF Spec, ImplementsLifecycle, Lifecycle!LifecycleSpec

\* A live workspace that is Deploying or Running has a ServiceSet that nobody
\* is deleting: checkServiceReadiness, which only polls when it finds none,
\* never polls for one that will not come.
ReleaseKept ==
    \A w \in Workspaces :
        obj[w] = "live" /\ phase[w] \in {"Deploying", "Running"} => ss[w] \in {"new", "live"}

\* The part of it that the abstract life guarantees.
Released ==
    \A w \in Workspaces :
        /\ obj[w] = "absent" => phase[w] = "None"
        /\ obj[w] = "live" /\ phase[w] \in {"Deploying", "Running"} => ReleaseSeen[w] # "none"

\* No step of an abstract life takes the release from a deployed workspace.
LEMMA RefinesReleased ==
    ASSUME TypeOK, Released, NEW w \in Workspaces, Refines(w)
    PROVE  Released'
  <1>1. SUFFICES ASSUME NEW v \in Workspaces
                 PROVE  /\ obj'[v] = "absent" => phase'[v] = "None"
                        /\ obj'[v] = "live" /\ phase'[v] \in {"Deploying", "Running"}
                              => ReleaseSeen'[v] # "none"
    BY DEF Released
  <1>2. /\ obj[v] = "absent" => phase[v] = "None"
        /\ obj[v] = "live" /\ phase[v] \in {"Deploying", "Running"} => ReleaseSeen[v] # "none"
    BY DEF Released
  <1>3. DOMAIN obj = Workspaces /\ DOMAIN phase = Workspaces /\ DOMAIN ReleaseSeen = Workspaces
    BY DEF TypeOK, ReleaseSeen
  <1>4. CASE UNCHANGED Lifecycle!lifecycleVars
    BY <1>2, <1>4 DEF Lifecycle!lifecycleVars, Lifecycle!shown
  <1>5. CASE Lifecycle!Appear(w)
    BY <1>2, <1>3, <1>5 DEF Lifecycle!Appear, Lifecycle!shown
  <1>6. CASE Lifecycle!HoldUp(w)
    BY <1>2, <1>3, <1>6 DEF Lifecycle!HoldUp, Lifecycle!Show
  <1>7. CASE Lifecycle!Fail(w)
    BY <1>2, <1>3, <1>7 DEF Lifecycle!Fail, Lifecycle!Show
  <1>8. CASE Lifecycle!Deploy(w)
    BY <1>2, <1>3, <1>8 DEF Lifecycle!Deploy, Lifecycle!Show, Lifecycle!shown
  <1>9. CASE Lifecycle!Report(w)
    BY <1>2, <1>3, <1>9 DEF Lifecycle!Report, Lifecycle!shown
  <1>10. CASE Lifecycle!Run(w)
    BY <1>2, <1>3, <1>10 DEF Lifecycle!Run, Lifecycle!Show
  <1>11. CASE Lifecycle!RequestDeletion(w)
    BY <1>2, <1>3, <1>11 DEF Lifecycle!RequestDeletion, Lifecycle!shown
  <1>12. CASE Lifecycle!TearDown(w)
    BY <1>2, <1>3, <1>12 DEF Lifecycle!TearDown, Lifecycle!Show, Lifecycle!shown
  <1>13. CASE Lifecycle!Disappear(w)
    BY <1>2, <1>3, <1>13 DEF Lifecycle!Disappear, Lifecycle!Show
  <1>14. QED
    BY <1>4, <1>5, <1>6, <1>7, <1>8, <1>9, <1>10, <1>11, <1>12, <1>13
    DEF Refines, Lifecycle!LifecycleStep

\* The ServiceSet a workspace deployed with stays until the workspace is
\* deleted, whatever writes are lost and whatever clusters come and go.
THEOREM ReleaseKeptHolds == Spec => []ReleaseKept
  <1>1. Init => Released
    <2>1. SUFFICES ASSUME Init, NEW w \in Workspaces PROVE phase[w] = "None"
      BY DEF Released
    <2>2. QED
      BY <2>1 DEF Init
  <1>2. TypeOK /\ Teardown /\ Explained /\ Recorded /\ Released /\ [Next]_vars => Released'
    <2>1. SUFFICES ASSUME TypeOK, Teardown, Explained, Recorded, Released, [Next]_vars
                   PROVE  Released'
      OBVIOUS
    <2>2. CASE UNCHANGED Lifecycle!lifecycleVars
      BY <2>1, <2>2 DEF Released, Lifecycle!lifecycleVars, Lifecycle!shown
    <2>3. QED
      BY <2>1, <2>2, NextRefines, RefinesReleased
  <1>3. TypeOK /\ Teardown /\ Released => ReleaseKept
    <2>1. SUFFICES ASSUME TypeOK, Teardown, Released, NEW w \in Workspaces,
                          obj[w] = "live", phase[w] \in {"Deploying", "Running"}
                   PROVE  ss[w] \in {"new", "live"}
      BY DEF ReleaseKept
    <2>2. ss[w] # "none"
      BY <2>1 DEF Released, ReleaseSeen
    <2>3. ss[w] # "deleting"
      BY <2>1 DEF Teardown, RoutesFirst
    <2>4. QED
      BY <2>1, <2>2, <2>3 DEF TypeOK, SSPhases
  <1>4. QED
    BY <1>1, <1>2, <1>3, TypeCorrect, TeardownHolds, ExplainedHolds, RecordedHolds, PTL DEF Spec

==============================================================================
