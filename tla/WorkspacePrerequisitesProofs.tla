-------------------- MODULE WorkspacePrerequisitesProofs ---------------------
(***************************************************************************)
(* Proofs about the prerequisites of a class: what the loop over them      *)
(* returns, for every list of them and every state of the shared installs, *)
(* and what that means for the workspaces that got past them.              *)
(***************************************************************************)
EXTENDS WorkspaceStatusProofs, Induction

Prerequisite == [tmpl : Templates, ns : STRING, versioned : BOOLEAN, object : BOOLEAN]

PrerequisitePhases == {"Conflict", "Satisfied", "Failed", "Installing", "Pending"}

Verdicts == {"Satisfied", "Missing", "Installing", "Failed", "Conflict", "Invalid"}

\* The phase of a prerequisite is one of five.
LEMMA PrerequisitePhaseType ==
    ASSUME NEW p
    PROVE  PrerequisitePhase(p) \in PrerequisitePhases
  BY DEF PrerequisitePhase, PrerequisitePhases

\* An iteration of the loop yields a verdict.
LEMMA VerdictAfterType ==
    ASSUME NEW overall \in Verdicts, NEW p \in Prerequisite
    PROVE  VerdictAfter(overall, p) \in Verdicts
  BY DEF VerdictAfter, Verdicts

\* The loop is a run of such iterations, one for each prerequisite.
LEMMA VerdictRun ==
    ASSUME NEW ps \in Seq(Prerequisite)
    PROVE  \E f \in [0 .. Len(ps) -> Verdicts] :
              /\ f[0] = "Satisfied"
              /\ \A i \in 1 .. Len(ps) : f[i] = VerdictAfter(f[i - 1], ps[i])
              /\ Verdict(ps) = f[Len(ps)]
  <1> DEFINE n == Len(ps)
             step == [x \in Verdicts \X (1 .. n) |-> VerdictAfter(x[1], ps[x[2]])]
             Run(f) == f = [i \in 0 .. n |-> IF i = 0 THEN "Satisfied" ELSE VerdictAfter(f[i - 1], ps[i])]
             after == CHOOSE f : Run(f)
  <1>1. n \in Nat /\ \A i \in 1 .. n : ps[i] \in Prerequisite
    OBVIOUS
  <1>2. step \in [Verdicts \X (1 .. n) -> Verdicts]
    BY <1>1, VerdictAfterType
  <1>3. "Satisfied" \in Verdicts
    BY DEF Verdicts
  <1>4. PICK f \in [0 .. n -> Verdicts] : IsRun(f, n, "Satisfied", step)
    <2> HIDE DEF step, n
    <2>1. QED
      BY <1>1, <1>2, <1>3, Recursion
  <1>5. ASSUME NEW i \in 1 .. n
        PROVE  f[i] = VerdictAfter(f[i - 1], ps[i])
    <2>1. <<f[i - 1], i>> \in Verdicts \X (1 .. n)
      OBVIOUS
    <2>2. QED
      BY <1>4, <2>1 DEF IsRun
  <1>6. Run(f)
    <2>1. \A i \in 0 .. n : f[i] = IF i = 0 THEN "Satisfied" ELSE VerdictAfter(f[i - 1], ps[i])
      BY <1>4, <1>5 DEF IsRun
    <2>2. QED
      BY <2>1
  <1>7. Run(after)
    <2> HIDE DEF Run
    <2>1. QED
      BY <1>6
  <1>8. Verdict(ps) = after[n]
    BY DEF Verdict
  <1>9. \A i \in 0 .. n : after[i] = IF i = 0 THEN "Satisfied" ELSE VerdictAfter(after[i - 1], ps[i])
    <2> HIDE DEF after
    <2>1. QED
      BY <1>7
  <1>10. \A i \in 0 .. n : after[i] = f[i]
    <2> HIDE DEF after
    <2> DEFINE same == {i \in 0 .. n : after[i] = f[i]}
    <2>1. 0 \in same
      BY <1>4, <1>9 DEF IsRun
    <2>2. ASSUME NEW i \in 1 .. n, i - 1 \in same
          PROVE  i \in same
      BY <1>5, <1>9, <2>2
    <2>3. \A i \in 0 .. n : i \in same
      <3> HIDE DEF same
      <3>1. QED
        BY <1>1, <2>1, <2>2, UpTo
    <2>4. QED
      BY <2>3
  <1>11. QED
    <2> HIDE DEF after
    <2>1. Verdict(ps) = f[n]
      BY <1>8, <1>10
    <2>2. QED
      BY <1>4, <1>5, <2>1 DEF IsRun

\* WorstVerdict of the first m prerequisites.
WorstOf(ps, m) ==
    LET is(k) == {i \in 1 .. m : PrerequisitePhase(ps[i]) = k}
        open  == is("Installing") \cup is("Pending")
    IN  IF \E i \in 1 .. m : ps[i].versioned THEN "Invalid"
        ELSE IF is("Conflict") # {} THEN "Conflict"
        ELSE IF is("Failed") # {} THEN "Failed"
        ELSE IF open = {} THEN "Satisfied"
        ELSE IF \E i \in is("Pending") : \A j \in open : j <= i THEN "Missing"
        ELSE "Installing"

\* WorstOf by what it rests on: which phases occur, and which of the pending
\* ones comes last.
Occurs(ps, m, k) == \E i \in 1 .. m : PrerequisitePhase(ps[i]) = k

Versioned(ps, m) == \E i \in 1 .. m : ps[i].versioned

PendingLast(ps, m) ==
    \E i \in 1 .. m :
        /\ PrerequisitePhase(ps[i]) = "Pending"
        /\ \A j \in 1 .. m : PrerequisitePhase(ps[j]) \in {"Installing", "Pending"} => j <= i

\* WorstOf, case by case.
LEMMA WorstOfCases ==
    ASSUME NEW ps, NEW m \in Nat
    PROVE  WorstOf(ps, m) =
              IF Versioned(ps, m) THEN "Invalid"
              ELSE IF Occurs(ps, m, "Conflict") THEN "Conflict"
              ELSE IF Occurs(ps, m, "Failed") THEN "Failed"
              ELSE IF ~Occurs(ps, m, "Installing") /\ ~Occurs(ps, m, "Pending") THEN "Satisfied"
              ELSE IF PendingLast(ps, m) THEN "Missing" ELSE "Installing"
  <1> DEFINE is(k) == {i \in 1 .. m : PrerequisitePhase(ps[i]) = k}
             open == is("Installing") \cup is("Pending")
  <1>1. open = {} <=> ~Occurs(ps, m, "Installing") /\ ~Occurs(ps, m, "Pending")
    BY DEF Occurs
  <1>2. (\E i \in is("Pending") : \A j \in open : j <= i) <=> PendingLast(ps, m)
    BY DEF PendingLast
  <1>3. is("Conflict") # {} <=> Occurs(ps, m, "Conflict")
    BY DEF Occurs
  <1>4. is("Failed") # {} <=> Occurs(ps, m, "Failed")
    BY DEF Occurs
  <1>5. QED
    BY <1>1, <1>2, <1>3, <1>4 DEF WorstOf, Versioned

\* What the m-th prerequisite adds to each of these.
LEMMA OccursStep ==
    ASSUME NEW ps, NEW n \in Nat, NEW m \in 1 .. n, NEW k
    PROVE  /\ Occurs(ps, m, k) <=> Occurs(ps, m - 1, k) \/ PrerequisitePhase(ps[m]) = k
           /\ Versioned(ps, m) <=> Versioned(ps, m - 1) \/ ps[m].versioned
  <1>1. \A i \in 1 .. m : i = m \/ i \in 1 .. m - 1
    OBVIOUS
  <1>2. m \in 1 .. m /\ \A i \in 1 .. m - 1 : i \in 1 .. m
    OBVIOUS
  <1>3. QED
    BY <1>1, <1>2, Zenon DEF Occurs, Versioned

\* What it does to the last open one: a pending one takes its place, an
\* installing one ends it.
LEMMA PendingLastStep ==
    ASSUME NEW ps, NEW n \in Nat, NEW m \in 1 .. n
    PROVE  /\ PrerequisitePhase(ps[m]) = "Pending" => PendingLast(ps, m)
           /\ PrerequisitePhase(ps[m]) = "Installing" => ~PendingLast(ps, m)
           /\ PrerequisitePhase(ps[m]) \notin {"Installing", "Pending"} =>
                 (PendingLast(ps, m) <=> PendingLast(ps, m - 1))
  <1>1. \A i \in 1 .. m : i = m \/ (i \in 1 .. m - 1 /\ i <= m /\ ~(m <= i))
    OBVIOUS
  <1>2. m \in 1 .. m /\ \A i \in 1 .. m - 1 : i \in 1 .. m
    OBVIOUS
  <1>3. PrerequisitePhase(ps[m]) = "Pending" => PendingLast(ps, m)
    BY <1>1, <1>2 DEF PendingLast
  <1>4. PrerequisitePhase(ps[m]) = "Installing" => ~PendingLast(ps, m)
    BY <1>1, <1>2 DEF PendingLast
  <1>5. ASSUME PrerequisitePhase(ps[m]) \notin {"Installing", "Pending"}
        PROVE  PendingLast(ps, m) <=> PendingLast(ps, m - 1)
    BY <1>1, <1>2, <1>5 DEF PendingLast
  <1>6. QED
    BY <1>3, <1>4, <1>5

\* One iteration of the loop keeps the verdict the worst one.
LEMMA WorstOfStep ==
    ASSUME NEW ps \in Seq(Prerequisite), NEW m \in 1 .. Len(ps)
    PROVE  VerdictAfter(WorstOf(ps, m - 1), ps[m]) = WorstOf(ps, m)
  <1> DEFINE k == PrerequisitePhase(ps[m])
  <1>1. m \in Nat /\ m - 1 \in Nat /\ Len(ps) \in Nat /\ ps[m] \in Prerequisite
    OBVIOUS
  <1>2. k \in PrerequisitePhases
    BY PrerequisitePhaseType
  <1>3. /\ Occurs(ps, m, "Conflict") <=> Occurs(ps, m - 1, "Conflict") \/ k = "Conflict"
        /\ Occurs(ps, m, "Failed") <=> Occurs(ps, m - 1, "Failed") \/ k = "Failed"
        /\ Occurs(ps, m, "Installing") <=> Occurs(ps, m - 1, "Installing") \/ k = "Installing"
        /\ Occurs(ps, m, "Pending") <=> Occurs(ps, m - 1, "Pending") \/ k = "Pending"
        /\ Versioned(ps, m) <=> Versioned(ps, m - 1) \/ ps[m].versioned
    BY <1>1, OccursStep
  <1>4. /\ k = "Pending" => PendingLast(ps, m)
        /\ k = "Installing" => ~PendingLast(ps, m)
        /\ k \notin {"Installing", "Pending"} => (PendingLast(ps, m) <=> PendingLast(ps, m - 1))
    BY <1>1, PendingLastStep
  <1> HIDE DEF k
  <1>5. VerdictAfter(WorstOf(ps, m - 1), ps[m]) =
           LET overall == WorstOf(ps, m - 1)
               settled == overall \in {"Failed", "Conflict"}
           IN  IF overall = "Invalid" \/ ps[m].versioned THEN "Invalid"
               ELSE CASE k = "Conflict"                       -> "Conflict"
                      [] k = "Failed" /\ overall # "Conflict" -> "Failed"
                      [] k = "Installing" /\ ~settled         -> "Installing"
                      [] k = "Pending" /\ ~settled            -> "Missing"
                      [] OTHER                                -> overall
    BY DEF VerdictAfter, k
  <1>6. CASE k = "Conflict"
    BY <1>1, <1>3, <1>4, <1>5, <1>6, WorstOfCases
  <1>7. CASE k = "Failed"
    BY <1>1, <1>3, <1>4, <1>5, <1>7, WorstOfCases
  <1>8. CASE k = "Installing"
    BY <1>1, <1>3, <1>4, <1>5, <1>8, WorstOfCases
  <1>9. CASE k = "Pending"
    BY <1>1, <1>3, <1>4, <1>5, <1>9, WorstOfCases
  <1>10. CASE k = "Satisfied"
    BY <1>1, <1>3, <1>4, <1>5, <1>10, WorstOfCases
  <1>11. QED
    BY <1>2, <1>6, <1>7, <1>8, <1>9, <1>10 DEF PrerequisitePhases

\* For every list of prerequisites and every state of the shared installs,
\* the loop returns the worst verdict.
LEMMA VerdictWorst ==
    ASSUME NEW ps \in Seq(Prerequisite)
    PROVE  Verdict(ps) = WorstOf(ps, Len(ps))
  <1>1. PICK f \in [0 .. Len(ps) -> Verdicts] :
              /\ f[0] = "Satisfied"
              /\ \A i \in 1 .. Len(ps) : f[i] = VerdictAfter(f[i - 1], ps[i])
              /\ Verdict(ps) = f[Len(ps)]
    BY VerdictRun
  <1> DEFINE worst == {m \in 0 .. Len(ps) : f[m] = WorstOf(ps, m)}
  <1>2. 0 \in worst
    <2>1. WorstOf(ps, 0) = "Satisfied"
      BY WorstOfCases DEF Occurs, Versioned
    <2>2. QED
      BY <1>1, <2>1
  <1>3. ASSUME NEW m \in 1 .. Len(ps), m - 1 \in worst
        PROVE  m \in worst
    BY <1>1, <1>3, WorstOfStep
  <1>4. \A m \in 0 .. Len(ps) : m \in worst
    <2>1. Len(ps) \in Nat
      OBVIOUS
    <2> HIDE DEF worst
    <2>2. QED
      BY <1>2, <1>3, <2>1, UpTo
  <1>5. QED
    BY <1>1, <1>4

\* VerdictIsWorst holds in every state, reachable or not.
THEOREM VerdictIsWorstHolds == Spec => []VerdictIsWorst
  <1>1. ASSUME NEW c \in Classes
        PROVE  Verdict(Prereqs[c]) = WorstVerdict(Prereqs[c])
    <2>1. Prereqs[c] \in Seq(Prerequisite)
      BY PrereqAssumption DEF Prerequisite
    <2>2. DOMAIN Prereqs[c] = 1 .. Len(Prereqs[c])
      BY <2>1
    <2>3. WorstVerdict(Prereqs[c]) = WorstOf(Prereqs[c], Len(Prereqs[c]))
      BY <2>2 DEF WorstVerdict, WorstOf
    <2>4. QED
      BY <2>1, <2>3, VerdictWorst
  <1>2. VerdictIsWorst
    BY <1>1 DEF VerdictIsWorst
  <1>3. QED
    BY <1>2, PTL

(***************************************************************************)
(* Past the prerequisites                                                  *)
(***************************************************************************)
\* Healthy is what the controller calls Satisfied.
LEMMA HealthyIsSatisfied ==
    ASSUME TypeOK, NEW p \in Prerequisite
    PROVE  PrerequisiteHealthy(p) <=> PrerequisitePhase(p) = "Satisfied"
  <1>1. p.tmpl \in Templates
    BY DEF Prerequisite
  <1>2. /\ pss[p.tmpl] \in {"none", "Provisioning", "Deployed", "Failed"}
        /\ colony[p.tmpl] \in {"none", "known", "Deployed"}
    BY <1>1 DEF TypeOK
  <1>3. QED
    BY <1>2 DEF PrerequisiteHealthy, PrerequisitePhase, PrerequisiteNamespaceConflict

\* The verdict is Satisfied when no prerequisite carries a version and all
\* are healthy, and only then.
LEMMA SatisfiedMeansHealthy ==
    ASSUME TypeOK, NEW ps \in Seq(Prerequisite)
    PROVE  Verdict(ps) = "Satisfied" <=>
              \A i \in DOMAIN ps : ~ps[i].versioned /\ PrerequisiteHealthy(ps[i])
  <1>1. Len(ps) \in Nat /\ DOMAIN ps = 1 .. Len(ps) /\ \A i \in DOMAIN ps : ps[i] \in Prerequisite
    OBVIOUS
  <1>2. Verdict(ps) = "Satisfied" <=>
           /\ ~Versioned(ps, Len(ps))
           /\ ~Occurs(ps, Len(ps), "Conflict") /\ ~Occurs(ps, Len(ps), "Failed")
           /\ ~Occurs(ps, Len(ps), "Installing") /\ ~Occurs(ps, Len(ps), "Pending")
    BY <1>1, VerdictWorst, WorstOfCases
  <1>3. \A i \in 1 .. Len(ps) :
           PrerequisiteHealthy(ps[i]) <=>
              PrerequisitePhase(ps[i]) \notin {"Conflict", "Failed", "Installing", "Pending"}
    BY <1>1, HealthyIsSatisfied, PrerequisitePhaseType DEF PrerequisitePhases
  <1>4. QED
    BY <1>1, <1>2, <1>3 DEF Occurs, Versioned

\* The prerequisites of a class are such a list.
LEMMA PrerequisitesType ==
    ASSUME NEW w \in Workspaces
    PROVE  Prerequisites(w) \in Seq(Prerequisite)
  BY PrereqAssumption DEF Prerequisites, Prerequisite

\* A pass that got past the prerequisites found them all healthy.
LEMMA PastMeansHealthy ==
    ASSUME TypeOK, NEW w \in Workspaces, PastPrerequisites(w)
    PROVE  \A i \in DOMAIN Prerequisites(w) :
              ~Prerequisites(w)[i].versioned /\ PrerequisiteHealthy(Prerequisites(w)[i])
  <1>1. Prerequisites(w) \in Seq(Prerequisite)
    BY PrerequisitesType
  <1>2. CASE Prerequisites(w) = <<>>
    BY <1>2
  <1>3. CASE Verdict(Prerequisites(w)) = "Satisfied"
    BY <1>1, <1>3, SatisfiedMeansHealthy
  <1>4. QED
    BY <1>2, <1>3 DEF PastPrerequisites

\* A workspace starts deploying only with every prerequisite healthy and
\* where its class asked for it, whatever else fails.
THEOREM PrerequisitesBeforeDeployingHolds == Spec => PrerequisitesBeforeDeploying
  <1>1. TypeOK /\ [Next]_vars =>
          [\A w \in Workspaces :
              phase[w] # "Deploying" /\ phase'[w] = "Deploying" =>
                  \A i \in DOMAIN Prerequisites(w) :
                      PrerequisiteHealthy(Prerequisites(w)[i])]_vars
    <2>1. SUFFICES ASSUME TypeOK, [Next]_vars, NEW w \in Workspaces,
                          phase[w] # "Deploying", phase'[w] = "Deploying"
                   PROVE  \A i \in DOMAIN Prerequisites(w) :
                              PrerequisiteHealthy(Prerequisites(w)[i])
      OBVIOUS
    <2>2. PastPrerequisites(w)
      BY <2>1, StartsDeploying DEF Starting
    <2>3. QED
      BY <2>1, <2>2, PastMeansHealthy
  <1>2. QED
    BY <1>1, TypeCorrect, PTL DEF Spec, PrerequisitesBeforeDeploying

\* While nobody disturbs a shared install, it goes from missing to
\* Provisioning to Deployed, and stays where it is.
LEMMA InstallsStay ==
    ASSUME TypeOK, [Next]_vars, Faults \cap {"prereq", "colony"} = {},
           NEW t \in Templates, pss[t] = "Deployed"
    PROVE  pss'[t] = "Deployed" /\ pssNs'[t] = pssNs[t]
  <1>1. CASE UNCHANGED vars
    BY <1>1 DEF vars, prereqVars
  <1>2. ASSUME NEW w \in Workspaces, NEW ok \in Writes, Reconcile(w, ok)
        PROVE  pss'[t] = "Deployed" /\ pssNs'[t] = pssNs[t]
    <2>1. CASE PrerequisitesMissing(w, ok)
      <3> DEFINE ps == Prerequisites(w)
      <3>1. PICK k : /\ pss' = [u \in Templates |->
                                  IF u \in Installs(ps, k) THEN "Provisioning" ELSE pss[u]]
                     /\ pssNs' = [u \in Templates |->
                                    IF u \in Installs(ps, k) THEN InstallNamespace(ps, u)
                                    ELSE pssNs[u]]
        BY <2>1 DEF PrerequisitesMissing
      <3>2. t \notin Installs(ps, k)
        BY DEF Installs, PrerequisitePhase
      <3>3. QED
        BY <3>1, <3>2
    <2>2. CASE ~PrerequisitesMissing(w, ok)
      <3>1. UNCHANGED prereqVars
        BY <1>2, <2>2 DEF Reconcile, ResolveWorkspaceClass, ResolveClusterDeployment, GateUnreachable,
           GateOfferingAbsent, EnterWaiting, PrerequisitesFailed, PrerequisitesInstalling,
           CheckServiceReadiness, ReconcileRoutes, StartUnreachable, StartValuesInvalid,
           StartNamespaceTerminating, StartDeployment, DeleteRoutesBlocked, DeleteInterrupted,
           DeleteClusterGone, DeleteServiceSet, DeleteNamespace, StatusOnly, prereqVars
      <3>2. QED
        BY <3>1 DEF prereqVars
    <2>3. QED
      BY <2>1, <2>2
  <1>3. ASSUME NEW w \in Workspaces, UserStep(w) \/ GraceExpires(w) \/ ReleaseStep(w)
        PROVE  UNCHANGED prereqVars
    BY <1>3 DEF UserStep, Create, Delete, ToggleSuspend, GraceExpires, ReleaseStep, AdoptServiceSet,
       HelmInstall, PodsScheduled, ReportDeployed, ReportFailed, HelmUninstall, NamespaceTerminated,
       prereqVars
  <1>4. CASE ClusterStep
    <2>1. ASSUME NEW u \in Templates, PrereqDeployed(u)
          PROVE  pss'[t] = "Deployed" /\ pssNs'[t] = pssNs[t]
      BY <2>1 DEF PrereqDeployed, TypeOK
    <2>2. QED
      BY <1>4, <2>1 DEF ClusterStep, DeleteCluster, ClusterDestroyed, CreateCluster, ChildUp,
         ChildDown, RegionalChanges, ToggleClass, NodesJoin, PrereqDisturbed, ColonyChanges,
         prereqVars
  <1>5. QED
    BY <1>1, <1>2, <1>3, <1>4 DEF Next, prereqVars

\* The inductive form of ServedWhereAsked: besides it, the colony runs none
\* of the shared services, so every healthy one is an install of its own.
Served ==
    /\ \A t \in Templates : colony[t] = "none"
    /\ ServedWhereAsked

\* The colony's services change only when the colony does.
LEMMA ColonyStays ==
    ASSUME [Next]_vars, "colony" \notin Faults, NEW t \in Templates, colony[t] = "none"
    PROVE  colony'[t] = "none"
  <1>1. CASE UNCHANGED vars
    BY <1>1 DEF vars, prereqVars
  <1>2. ASSUME NEW w \in Workspaces, NEW ok \in Writes, Reconcile(w, ok)
        PROVE  colony' = colony
    BY <1>2 DEF Reconcile, ResolveWorkspaceClass, ResolveClusterDeployment, GateUnreachable,
       GateOfferingAbsent, EnterWaiting, PrerequisitesFailed, PrerequisitesMissing,
       PrerequisitesInstalling, CheckServiceReadiness, ReconcileRoutes, StartUnreachable,
       StartValuesInvalid, StartNamespaceTerminating, StartDeployment, DeleteRoutesBlocked,
       DeleteInterrupted, DeleteClusterGone, DeleteServiceSet, DeleteNamespace, StatusOnly, prereqVars
  <1>3. ASSUME NEW w \in Workspaces, UserStep(w) \/ GraceExpires(w) \/ ReleaseStep(w)
        PROVE  colony' = colony
    BY <1>3 DEF UserStep, Create, Delete, ToggleSuspend, GraceExpires, ReleaseStep, AdoptServiceSet,
       HelmInstall, PodsScheduled, ReportDeployed, ReportFailed, HelmUninstall, NamespaceTerminated,
       prereqVars
  <1>4. CASE ClusterStep
    BY <1>4 DEF ClusterStep, DeleteCluster, ClusterDestroyed, CreateCluster, ChildUp, ChildDown,
       RegionalChanges, ToggleClass, NodesJoin, PrereqDeployed, PrereqDisturbed, ColonyChanges,
       prereqVars
  <1>5. QED
    BY <1>1, <1>2, <1>3, <1>4 DEF Next

\* So a healthy prerequisite stays healthy.
LEMMA HealthyStays ==
    ASSUME TypeOK, Served, [Next]_vars, Faults \cap {"prereq", "colony"} = {},
           NEW p \in Prerequisite, PrerequisiteHealthy(p)
    PROVE  PrerequisiteHealthy(p)'
  <1>1. p.tmpl \in Templates
    BY DEF Prerequisite
  <1>2. colony[p.tmpl] = "none"
    BY <1>1 DEF Served
  <1>3. pss[p.tmpl] = "Deployed"
    BY <1>2 DEF PrerequisiteHealthy
  <1>4. pss'[p.tmpl] = "Deployed" /\ pssNs'[p.tmpl] = pssNs[p.tmpl]
    BY <1>1, <1>3, InstallsStay
  <1>5. QED
    BY <1>3, <1>4 DEF PrerequisiteHealthy, Incumbent

\* Served is inductive while nobody disturbs a shared install.
LEMMA ServedStep ==
    ASSUME TypeOK, Served, [Next]_vars, Faults \cap {"prereq", "colony"} = {}
    PROVE  Served'
  <1>1. \A t \in Templates : colony'[t] = "none"
    BY ColonyStays DEF Served
  <1>2. ASSUME NEW w \in Workspaces, phase'[w] \in {"Deploying", "Running"},
               NEW i \in DOMAIN Prerequisites(w)
        PROVE  PrerequisiteHealthy(Prerequisites(w)[i])'
    <2>1. Prerequisites(w)[i] \in Prerequisite
      BY PrerequisitesType
    <2>2. CASE phase[w] \in {"Deploying", "Running"}
      <3>1. PrerequisiteHealthy(Prerequisites(w)[i])
        BY <2>2 DEF Served, ServedWhereAsked
      <3>2. QED
        BY <2>1, <3>1, HealthyStays
    <2>3. CASE phase[w] \notin {"Deploying", "Running"}
      <3>1. Starting(w)
        BY <1>2, <2>3, BecomesRunning, StartsDeploying
      <3>2. PrerequisiteHealthy(Prerequisites(w)[i])
        BY <3>1, PastMeansHealthy DEF Starting
      <3>3. QED
        BY <2>1, <3>2, HealthyStays
    <2>4. QED
      BY <2>2, <2>3
  <1>3. ServedWhereAsked'
    BY <1>2 DEF ServedWhereAsked
  <1>4. QED
    BY <1>1, <1>3 DEF Served

\* As long as nobody disturbs a shared install and the colony provides none,
\* every workspace past its prerequisites keeps them, healthy and where its
\* class asked for them: of two classes that want one template in different
\* namespaces only one is ever served.
THEOREM ServedWhereAskedHolds ==
    ASSUME Faults \cap {"prereq", "colony"} = {} PROVE Spec => []ServedWhereAsked
  <1>1. Init => Served
    <2>1. Init => /\ \A w \in Workspaces : phase[w] = "None"
                  /\ \A t \in Templates : colony[t] = "none"
      BY DEF Init
    <2>2. (\A w \in Workspaces : phase[w] = "None") => ServedWhereAsked
      BY DEF ServedWhereAsked
    <2>3. QED
      BY <2>1, <2>2 DEF Served
  <1>2. TypeOK /\ Served /\ [Next]_vars => Served'
    BY ServedStep
  <1>3. Served => ServedWhereAsked
    BY DEF Served
  <1>4. QED
    BY <1>1, <1>2, <1>3, TypeCorrect, PTL DEF Spec

(***************************************************************************)
(* A Waiting workspace holds no GPUs                                       *)
(***************************************************************************)
\* Phases of a workspace that has not started deploying.
Idle == Fallbacks \cup {"None"}

\* The inductive form of NeverWaitsOnItself: a workspace that has not started
\* deploying has no ServiceSet, and one with a ServiceSet got past its
\* prerequisites, so that no pass sends it back before them.
Held ==
    /\ cd = "live"
    /\ \A w \in Workspaces :
          /\ phase[w] \in Idle => ss[w] = "none"
          /\ ss[w] # "none" =>
                \A i \in DOMAIN Prerequisites(w) :
                    /\ ~Prerequisites(w)[i].versioned
                    /\ PrerequisiteHealthy(Prerequisites(w)[i])

\* What a pass does to the phases and the ServiceSets of the others.
LEMMA OthersStay ==
    ASSUME TypeOK, NEW w \in Workspaces, NEW ok \in BOOLEAN, Reconcile(w, ok),
           NEW v \in Workspaces, v # w
    PROVE  phase'[v] = phase[v] /\ ss'[v] = ss[v]
  <1>1. ss'[v] = ss[v]
    <2>1. ss' = ss \/ \E s \in SSPhases : ss' = [ss EXCEPT ![w] = s]
      <3>1. CASE StatusOnly(w) \/ PrerequisitesMissing(w, ok) \/ ReconcileRoutes(w)
                 \/ DeleteRoutesBlocked(w, ok) \/ DeleteInterrupted(w, ok)
        BY <3>1 DEF StatusOnly, PrerequisitesMissing, ReconcileRoutes, DeleteRoutesBlocked,
           DeleteInterrupted, ssVars
      <3>2. CASE StartDeployment(w, ok)
        BY <3>2 DEF StartDeployment, SSPhases
      <3>3. CASE DeleteClusterGone(w, ok) \/ DeleteServiceSet(w, ok) \/ DeleteNamespace(w, ok)
        BY <3>3 DEF DeleteClusterGone, DeleteServiceSet, DeleteNamespace, SSPhases
      <3>4. QED
        BY <3>1, <3>2, <3>3 DEF Reconcile, ResolveWorkspaceClass, ResolveClusterDeployment,
           GateUnreachable, GateOfferingAbsent, EnterWaiting, PrerequisitesFailed,
           PrerequisitesInstalling, CheckServiceReadiness, StartUnreachable, StartValuesInvalid,
           StartNamespaceTerminating
    <2>2. QED
      BY <2>1 DEF TypeOK
  <1>2. phase'[v] = phase[v]
    <2>1. StatusStep(w, ok)
      BY LivePassStatus, DeletePassStatus DEF Reconcile, StatusStep
    <2>2. CASE LiveWrite(w, ok)
      <3>1. CASE \E o \in BOOLEAN, p \in Fallbacks : WritePhase(w, o, p)
        BY <3>1, WriteStatusAt DEF WritePhase
      <3>2. CASE \E r \in Reasons : MarkFailed(w, ok, r)
        BY <3>2, WriteStatusAt DEF MarkFailed
      <3>3. CASE WriteStatus(w, ok, "Running", NoFailure, TRUE)
        BY <3>3 DEF WriteStatus, TypeOK
      <3>4. CASE WriteStatus(w, ok, "Deploying", NoFailure, ready[w])
        BY <3>4, WriteStatusAt
      <3>5. QED
        BY <2>2, <3>1, <3>2, <3>3, <3>4 DEF LiveWrite, statusVars
    <2>3. CASE \E o \in BOOLEAN : WritePhase(w, o, "Deleting")
      BY <2>3, WriteStatusAt DEF WritePhase
    <2>4. CASE DropObject(w)
      BY <2>4 DEF DropObject, TypeOK
    <2>5. CASE UNCHANGED statusVars
      BY <2>5 DEF statusVars
    <2>6. QED
      BY <2>1, <2>2, <2>3, <2>4, <2>5 DEF StatusStep
  <1>3. QED
    BY <1>1, <1>2

\* A pass that falls back finds no ServiceSet and leaves none.
LEMMA FallbackHoldsNothing ==
    ASSUME TypeOK, Explained, Held, NEW w \in Workspaces, NEW ok,
           \/ ResolveClusterDeployment(w, ok) \/ GateUnreachable(w, ok) \/ EnterWaiting(w, ok)
           \/ PrerequisitesMissing(w, ok) \/ PrerequisitesInstalling(w, ok)
           \/ StartUnreachable(w, ok) \/ StartNamespaceTerminating(w, ok)
    PROVE  ss[w] = "none" /\ ss' = ss
  <1>1. ss' = ss
    BY DEF ResolveClusterDeployment, GateUnreachable, EnterWaiting, PrerequisitesMissing,
       PrerequisitesInstalling, StartUnreachable, StartNamespaceTerminating, StatusOnly, ssVars
  <1>2. phase[w] \in Phases /\ (phase[w] = "Deleting" => obj[w] = "deleting")
    BY DEF TypeOK, Explained
  <1>3. CASE GateUnreachable(w, ok) \/ EnterWaiting(w, ok) \/ StartUnreachable(w, ok)
             \/ StartNamespaceTerminating(w, ok)
    <2>1. obj[w] = "live" /\ phase[w] \notin {"Deploying", "Running", "Failed"}
      BY <1>3 DEF GateUnreachable, EnterWaiting, StartUnreachable, StartNamespaceTerminating,
         Starting, PastPrerequisites, PastGate, PastCluster, PastClass, Active, Gated
    <2>2. phase[w] \in Idle
      BY <1>2, <2>1 DEF Phases, Idle, Fallbacks
    <2>3. QED
      BY <1>1, <2>2 DEF Held
  <1>4. CASE ResolveClusterDeployment(w, ok)
    BY <1>4 DEF ResolveClusterDeployment, Held
  <1>5. CASE PrerequisitesMissing(w, ok) \/ PrerequisitesInstalling(w, ok)
    <2>1. Verdict(Prerequisites(w)) # "Satisfied"
      BY <1>5 DEF PrerequisitesMissing, PrerequisitesInstalling
    <2>2. ~ \A i \in DOMAIN Prerequisites(w) :
                    /\ ~Prerequisites(w)[i].versioned
                    /\ PrerequisiteHealthy(Prerequisites(w)[i])
      BY <2>1, PrerequisitesType, SatisfiedMeansHealthy
    <2>3. QED
      BY <1>1, <2>2 DEF Held
  <1>6. QED
    BY <1>3, <1>4, <1>5

\* Where its writes land, a pass creates a ServiceSet only together with the
\* phase Deploying, and only past the prerequisites.
LEMMA PassHolds ==
    ASSUME TypeOK, Explained, Held, Teardown', NEW w \in Workspaces, Reconcile(w, TRUE)
    PROVE  /\ phase'[w] \in Idle => ss'[w] = "none"
           /\ ss[w] = "none" /\ ss'[w] # "none" => PastPrerequisites(w)
  <1>1. CASE \/ ResolveClusterDeployment(w, TRUE) \/ GateUnreachable(w, TRUE) \/ EnterWaiting(w, TRUE)
             \/ PrerequisitesMissing(w, TRUE) \/ PrerequisitesInstalling(w, TRUE)
             \/ StartUnreachable(w, TRUE) \/ StartNamespaceTerminating(w, TRUE)
    <2>1. ss[w] = "none" /\ ss' = ss
      BY <1>1, FallbackHoldsNothing
    <2>2. QED
      BY <2>1
  <1>2. CASE \/ ResolveWorkspaceClass(w, TRUE) \/ GateOfferingAbsent(w, TRUE)
             \/ PrerequisitesFailed(w, TRUE) \/ StartValuesInvalid(w, TRUE)
             \/ CheckServiceReadiness(w, TRUE)
    <2>1. phase' = [phase EXCEPT ![w] = "Failed"] \/ phase' = [phase EXCEPT ![w] = "Running"]
      BY <1>2 DEF ResolveWorkspaceClass, GateOfferingAbsent, PrerequisitesFailed,
         StartValuesInvalid, CheckServiceReadiness, MarkFailed, WriteStatus
    <2>2. ss' = ss
      BY <1>2 DEF ResolveWorkspaceClass, GateOfferingAbsent, PrerequisitesFailed,
         StartValuesInvalid, CheckServiceReadiness, StatusOnly, ssVars
    <2>3. QED
      BY <2>1, <2>2 DEF TypeOK, Idle, Fallbacks
  <1>3. CASE ReconcileRoutes(w)
    BY <1>3 DEF ReconcileRoutes, statusVars, ssVars, Held
  <1>4. CASE StartDeployment(w, TRUE)
    <2>1. phase' = [phase EXCEPT ![w] = "Failed"] \/ phase' = [phase EXCEPT ![w] = "Deploying"]
      BY <1>4 DEF StartDeployment, MarkFailed, WriteStatus
    <2>2. PastPrerequisites(w)
      BY <1>4 DEF StartDeployment, Starting
    <2>3. QED
      BY <2>1, <2>2 DEF TypeOK, Idle, Fallbacks
  <1>5. CASE \/ DeleteRoutesBlocked(w, TRUE) \/ DeleteInterrupted(w, TRUE) \/ DeleteClusterGone(w, TRUE)
             \/ DeleteServiceSet(w, TRUE) \/ DeleteNamespace(w, TRUE)
    <2>1. DropObject(w) \/ \E o \in BOOLEAN : StayDeleting(w, o)
      BY <1>5 DEF DeleteRoutesBlocked, DeleteInterrupted, DeleteClusterGone, DeleteServiceSet,
         DeleteNamespace, RemoveFinalizer
    <2>2. ss'[w] = ss[w] \/ ss'[w] = "none" \/ (ss[w] # "none" /\ ss'[w] = "deleting")
      <3>1. \/ ss' = ss \/ ss' = [ss EXCEPT ![w] = "none"]
            \/ ss[w] # "none" /\ ss' = [ss EXCEPT ![w] = "deleting"]
        <4>1. CASE DeleteRoutesBlocked(w, TRUE) \/ DeleteInterrupted(w, TRUE)
          BY <4>1 DEF DeleteRoutesBlocked, DeleteInterrupted, ssVars
        <4>2. CASE DeleteClusterGone(w, TRUE)
          BY <4>2 DEF DeleteClusterGone
        <4>3. CASE DeleteServiceSet(w, TRUE)
          BY <4>3 DEF DeleteServiceSet, ServiceSetGone
        <4>4. CASE DeleteNamespace(w, TRUE)
          BY <4>4 DEF DeleteNamespace
        <4>5. QED
          BY <1>5, <4>1, <4>2, <4>3, <4>4
      <3>2. QED
        BY <3>1 DEF TypeOK
    <2>3. CASE DropObject(w)
      <3>1. obj'[w] = "absent"
        BY <2>3 DEF DropObject, TypeOK
      <3>2. ss'[w] = "none"
        BY <3>1 DEF Teardown, Finalized
      <3>3. QED
        BY <3>2
    <2>4. CASE \E o \in BOOLEAN : StayDeleting(w, o)
      <3>1. phase'[w] = "Deleting" \/ phase'[w] = phase[w]
        BY <2>4, WriteStatusAt DEF StayDeleting, WritePhase
      <3>2. phase[w] \in Idle => ss[w] = "none"
        BY DEF Held
      <3>3. QED
        BY <2>2, <3>1, <3>2 DEF Idle, Fallbacks
    <2>5. QED
      BY <2>1, <2>3, <2>4
  <1>6. QED
    BY <1>1, <1>2, <1>3, <1>4, <1>5 DEF Reconcile

\* The same of every step, for every workspace.
LEMMA StepHolds ==
    ASSUME TypeOK, Explained, Held, Teardown, Teardown', [Next]_vars, "write" \notin Faults,
           NEW v \in Workspaces
    PROVE  /\ phase'[v] \in Idle => ss'[v] = "none"
           /\ ss[v] = "none" /\ ss'[v] # "none" => PastPrerequisites(v)
  <1>1. phase[v] \in Idle => ss[v] = "none"
    BY DEF Held
  <1>2. CASE UNCHANGED vars
    BY <1>1, <1>2 DEF vars, statusVars, ssVars
  <1>3. ASSUME NEW w \in Workspaces, NEW ok \in Writes, Reconcile(w, ok)
        PROVE  /\ phase'[v] \in Idle => ss'[v] = "none"
               /\ ss[v] = "none" /\ ss'[v] # "none" => PastPrerequisites(v)
    <2>1. ok = TRUE /\ ok \in BOOLEAN
      BY DEF Writes
    <2>2. CASE v = w
      BY <1>3, <2>1, <2>2, PassHolds
    <2>3. CASE v # w
      BY <1>1, <1>3, <2>1, <2>3, OthersStay
    <2>4. QED
      BY <2>2, <2>3
  <1>4. ASSUME NEW w \in Workspaces, UserStep(w) \/ GraceExpires(w)
        PROVE  /\ phase'[v] \in Idle => ss'[v] = "none"
               /\ ss' = ss
    <2>1. ss' = ss /\ (phase' = phase \/ (DropObject(w) /\ obj[w] = "live"))
      BY <1>4 DEF UserStep, Create, Delete, ToggleSuspend, GraceExpires, ssVars, statusVars
    <2>2. CASE DropObject(w)
      <3>1. v = w => obj'[v] = "absent"
        BY <2>2 DEF DropObject, TypeOK
      <3>2. v = w => ss'[v] = "none"
        BY <3>1 DEF Teardown, Finalized
      <3>3. v # w => phase'[v] = phase[v]
        BY <2>2 DEF DropObject, TypeOK
      <3>4. QED
        BY <1>1, <2>1, <3>2, <3>3
    <2>3. QED
      BY <1>1, <2>1, <2>2
  <1>5. ASSUME NEW w \in Workspaces, ReleaseStep(w)
        PROVE  phase' = phase /\ (ss[v] = "none" => ss'[v] = "none")
    <2>1. phase' = phase
      BY <1>5 DEF ReleaseStep, AdoptServiceSet, HelmInstall, PodsScheduled, ReportDeployed,
         ReportFailed, HelmUninstall, NamespaceTerminated, controllerVars, statusVars
    <2>2. ss' = ss \/ (ss[w] = "new" /\ ss' = [ss EXCEPT ![w] = "live"])
          \/ ss' = [ss EXCEPT ![w] = "none"]
      BY <1>5 DEF ReleaseStep, AdoptServiceSet, HelmInstall, PodsScheduled, ReportDeployed,
         ReportFailed, HelmUninstall, NamespaceTerminated
    <2>3. QED
      BY <2>1, <2>2 DEF TypeOK
  <1>6. CASE ClusterStep
    <2>1. phase' = phase /\ ss' = ss
      BY <1>6 DEF ClusterStep, DeleteCluster, ClusterDestroyed, CreateCluster, ChildUp, ChildDown,
         RegionalChanges, ToggleClass, NodesJoin, PrereqDeployed, PrereqDisturbed, ColonyChanges,
         controllerVars, statusVars, ssVars
    <2>2. QED
      BY <1>1, <2>1
  <1>7. QED
    BY <1>1, <1>2, <1>3, <1>4, <1>5, <1>6 DEF Next

\* Held is inductive where writes land and nobody deletes the cluster or
\* disturbs a shared install.
LEMMA HeldStep ==
    ASSUME TypeOK, Explained, Served, Held, Teardown, Teardown', [Next]_vars,
           Faults \cap {"write", "cd", "prereq", "colony"} = {}
    PROVE  Held'
  <1>1. cd' = "live"
    BY NextRelease DEF Held
  <1>2. ASSUME NEW v \in Workspaces, ss'[v] # "none", NEW i \in DOMAIN Prerequisites(v)
        PROVE  /\ ~Prerequisites(v)[i].versioned
               /\ PrerequisiteHealthy(Prerequisites(v)[i])'
    <2>1. /\ ~Prerequisites(v)[i].versioned
          /\ PrerequisiteHealthy(Prerequisites(v)[i])
      <3>1. CASE ss[v] # "none"
        BY <3>1 DEF Held
      <3>2. CASE ss[v] = "none"
        <4>1. PastPrerequisites(v)
          BY <1>2, <3>2, StepHolds
        <4>2. QED
          BY <4>1, PastMeansHealthy
      <3>3. QED
        BY <3>1, <3>2
    <2>2. Prerequisites(v)[i] \in Prerequisite
      BY PrerequisitesType
    <2>3. Faults \cap {"prereq", "colony"} = {}
      OBVIOUS
    <2>4. QED
      BY <2>1, <2>2, <2>3, HealthyStays
  <1>3. \A v \in Workspaces : phase'[v] \in Idle => ss'[v] = "none"
    BY StepHolds
  <1>4. QED
    BY <1>1, <1>2, <1>3 DEF Held

\* A Waiting workspace holds no GPUs itself, where writes land and nobody
\* deletes the cluster or disturbs a shared install.  (A lost status write
\* breaks it: the run gap_regated_lost_write shows how.)
THEOREM NeverWaitsOnItselfHolds ==
    ASSUME Faults \cap {"write", "cd", "prereq", "colony"} = {}
    PROVE  Spec => []NeverWaitsOnItself
  <1>1. Init => Held /\ Served
    <2>1. Init => /\ cd = "live" /\ \A t \in Templates : colony[t] = "none"
                  /\ \A w \in Workspaces : phase[w] = "None" /\ ss[w] = "none"
      BY DEF Init
    <2>2. (\A w \in Workspaces : phase[w] = "None") => ServedWhereAsked
      BY DEF ServedWhereAsked
    <2>3. cd = "live" /\ (\A w \in Workspaces : ss[w] = "none") => Held
      BY DEF Held
    <2>4. QED
      BY <2>1, <2>2, <2>3 DEF Served
  <1>2. TypeOK /\ Explained /\ Served /\ Held /\ Teardown /\ Teardown' /\ [Next]_vars => Held'
    BY HeldStep
  <1>3. TypeOK /\ Served /\ [Next]_vars => Served'
    BY ServedStep
  <1>4. Held /\ Teardown => NeverWaitsOnItself
    BY DEF Held, Teardown, ReleaseFirst, NeverWaitsOnItself, Idle, Fallbacks
  <1>5. QED
    BY <1>1, <1>2, <1>3, <1>4, TypeCorrect, ExplainedHolds, TeardownHolds, PTL DEF Spec

==============================================================================
