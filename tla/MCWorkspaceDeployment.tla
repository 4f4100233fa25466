------------------------ MODULE MCWorkspaceDeployment ------------------------
(***************************************************************************)
(* Small instances of WorkspaceDeployment for TLC.                         *)
(***************************************************************************)
EXTENDS WorkspaceDeployment

\* A class is named by its prerequisites.
Prereq(t, n) == [tmpl |-> t, ns |-> n, versioned |-> FALSE, object |-> TRUE]
Versioned == [Prereq("a", "") EXCEPT !.versioned = TRUE]
NoObject == [Prereq("a", "") EXCEPT !.object = FALSE]
PrereqTemplates == {"a", "b"}
Items == {Prereq(t, n) : t \in PrereqTemplates, n \in {"", "default"}}

Plain == <<>>
Both == <<Prereq("a", ""), Prereq("b", "default")>>
Elsewhere == <<Prereq("b", "other"), NoObject>>

PlainClasses == {Plain}
SharedClasses == {Both, Elsewhere}

\* Every order of up to two prerequisites, some of three, and version
\* constraints.
AllClasses ==
    {Plain, <<Versioned>>} \cup {<<p>> : p \in Items} \cup {<<p, q>> : p, q \in Items}
        \cup {<<p, q, r>> : p, q, r \in {Both[1], Both[2]}}
        \cup {<<p, Versioned>> : p \in Items} \cup {<<Versioned, p>> : p \in Items}

PlainPrereqs == [c \in PlainClasses |-> c]
SharedPrereqs == [c \in SharedClasses |-> c]
AllPrereqs == [c \in AllClasses |-> c]

PrereqColonyNs == [t \in PrereqTemplates |-> "kube-system"]
NoColonyNs == [t \in {} |-> ""]

\* One selector with two GPUs, or no GPUs at all.
H100 == {"h100"}
TwoGpus == [s \in H100 |-> 2]
NoGpus == [s \in {} |-> 0]

\* Two workspaces compete for two GPUs: w1 needs both, w2 one.
GpuWorkspaces == {"w1", "w2"}
GpuClassOf == [w \in GpuWorkspaces |-> Plain]
GpuSelector == [w \in GpuWorkspaces |-> "h100"]
GpuDemand == [w \in GpuWorkspaces |-> IF w = "w1" THEN 2 ELSE 1]

\* One workspace, no GPU: every fault of the environment at once.
SoloWorkspaces == {"w1"}
SoloClassOf == [w \in SoloWorkspaces |-> Plain]
SoloSelector == [w \in SoloWorkspaces |-> NoSelector]
SoloDemand == [w \in SoloWorkspaces |-> 0]

\* One workspace that needs every GPU; one whose class has prerequisites.
SoloGpuSelector == [w \in SoloWorkspaces |-> "h100"]
SoloGpuDemand == [w \in SoloWorkspaces |-> 2]
SoloBothClassOf == [w \in SoloWorkspaces |-> Both]

\* Two workspaces whose classes share a prerequisite and disagree on where; one
\* of the classes has values that cannot be used for the other prerequisite.
SharedWorkspaces == {"w1", "w2"}
SharedClassOf == [w \in SharedWorkspaces |-> IF w = "w1" THEN Both ELSE Elsewhere]
SharedSelector == [w \in SharedWorkspaces |-> NoSelector]
SharedDemand == [w \in SharedWorkspaces |-> 0]
==============================================================================
