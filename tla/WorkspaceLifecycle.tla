-------------------------- MODULE WorkspaceLifecycle --------------------------
(***************************************************************************)
(* What a user is promised of the life of a workspace, whatever happens to *)
(* classes, clusters, prerequisites and GPUs around it:                    *)
(*                                                                         *)
(*   - it is prepared, deployed and run in this order; it runs only when   *)
(*     its release was reported deployed; nothing but a prerequisite, a    *)
(*     failure or its deletion ends Running;                               *)
(*   - a failure records the phase it happened in, and that record stays   *)
(*     until the workspace deploys again or leaves Failed and fails anew;  *)
(*   - its release stays until it is deleted, and a workspace that is gone *)
(*     has left none;                                                      *)
(*   - once its deletion shows in the phase, no other phase follows.       *)
(***************************************************************************)
CONSTANTS
    Workspaces,     \* names of workspaces
    Prepared,       \* workspaces whose class has prerequisites
    OnGPUs,         \* workspaces that ask for GPUs
    Causes,         \* reasons of a failure
    NoFailure       \* no failure is recorded

VARIABLES
    life,       \* "absent", "live" or "deleting"
    phase,      \* the phase shown
    cause,      \* the failure shown
    ready,      \* it is shown to have run
    release     \* "none", "applied", or "deployed" when reported so

shown == <<phase, cause, ready>>
lifecycleVars == <<life, shown, release>>

LifecycleInit ==
    /\ life = [w \in Workspaces |-> "absent"]
    /\ phase = [w \in Workspaces |-> "None"]
    /\ cause = [w \in Workspaces |-> NoFailure]
    /\ ready = [w \in Workspaces |-> FALSE]
    /\ release = [w \in Workspaces |-> "none"]

\* Phases of a workspace that has not begun to deploy.
Startable == {"None", "Pending", "InstallingPrerequisites", "Waiting"}

Show(w, p, c, r) ==
    /\ phase' = [phase EXCEPT ![w] = p]
    /\ cause' = [cause EXCEPT ![w] = c]
    /\ ready' = [ready EXCEPT ![w] = r]

Appear(w) ==
    /\ life[w] = "absent"
    /\ life' = [life EXCEPT ![w] = "live"]
    /\ UNCHANGED <<shown, release>>

\* A live workspace is held up, or sent back before its deployment.
HoldUp(w) ==
    /\ life[w] = "live"
    /\ \E p \in {"Pending", "InstallingPrerequisites", "Waiting"} :
          /\ p = "Pending" => phase[w] # "Running"
          /\ p = "InstallingPrerequisites" => w \in Prepared
          /\ p = "Waiting" => w \in OnGPUs /\ phase[w] \in Startable
          /\ Show(w, p, cause[w], ready[w])
    /\ UNCHANGED <<life, release>>

Fail(w) ==
    /\ life[w] = "live" /\ phase[w] # "Failed"
    /\ LET failedIn == IF phase[w] = "None" THEN "Pending" ELSE phase[w]
       IN  \E r \in Causes : Show(w, "Failed", [phase |-> failedIn, reason |-> r], ready[w])
    /\ UNCHANGED <<life, release>>

\* The release is made before the phase shows it, and may be all that is done.
Deploy(w) ==
    /\ life[w] = "live" /\ phase[w] \in Startable
    /\ release' = [release EXCEPT ![w] = IF @ = "none" THEN "applied" ELSE @]
    /\ Show(w, "Deploying", NoFailure, ready[w]) \/ UNCHANGED shown
    /\ UNCHANGED life

Report(w) ==
    /\ life[w] # "absent" /\ release[w] # "none"
    /\ \E r \in {"applied", "deployed"} : release' = [release EXCEPT ![w] = r]
    /\ UNCHANGED <<life, shown>>

Run(w) ==
    /\ life[w] = "live" /\ phase[w] = "Deploying" /\ release[w] = "deployed"
    /\ Show(w, "Running", NoFailure, TRUE)
    /\ UNCHANGED <<life, release>>

RequestDeletion(w) ==
    /\ life[w] = "live"
    /\ life' = [life EXCEPT ![w] = "deleting"]
    /\ UNCHANGED <<shown, release>>

\* A pass over a workspace being deleted, or the uninstall, gets somewhere.
TearDown(w) ==
    /\ life[w] = "deleting"
    /\ Show(w, "Deleting", cause[w], ready[w]) \/ UNCHANGED shown
    /\ release' \in {release, [release EXCEPT ![w] = "none"]}
    /\ UNCHANGED life

\* A workspace goes with its release, or before anything was done for it.
Disappear(w) ==
    /\ life[w] = "deleting" \/ (life[w] = "live" /\ phase[w] = "None" /\ release[w] = "none")
    /\ life' = [life EXCEPT ![w] = "absent"]
    /\ Show(w, "None", NoFailure, FALSE)
    /\ release' = [release EXCEPT ![w] = "none"]

LifecycleStep(w) ==
    \/ Appear(w) \/ HoldUp(w) \/ Fail(w) \/ Deploy(w) \/ Report(w) \/ Run(w)
    \/ RequestDeletion(w) \/ TearDown(w) \/ Disappear(w)

LifecycleNext == \E w \in Workspaces : LifecycleStep(w)

LifecycleSpec == LifecycleInit /\ [][LifecycleNext]_lifecycleVars
==============================================================================
