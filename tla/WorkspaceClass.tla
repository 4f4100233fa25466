---------------------------- MODULE WorkspaceClass ----------------------------
(***************************************************************************)
(* A WorkspaceClass: the reconciler that reports whether it is usable, and *)
(* what startDeployment makes of it and of a WorkspaceDeployment: resolved *)
(* resources, and the Helm values of the release with those resources      *)
(* injected at the paths of charts that ask for them.                      *)
(*                                                                         *)
(* Helm values are a tree: a function that says for every path whether     *)
(* there is nothing, a map or a leaf.  A path that does not parse is the   *)
(* empty one.  Admins edit the class between any two steps.                *)
(***************************************************************************)
EXTENDS Naturals, SequencesExt

CONSTANTS
    Fields,     \* resource fields, in the order they are injected
    Paths,      \* paths of values
    Namespaces, \* of ServiceTemplates
    ClassSpecs, \* [ns, values, res, paths]: what admins write
    UserSpecs,  \* [values, res]: what users write
    Faults      \* "write", "list", "api"

Unset == "unset"
Absent == "absent"
Malformed == << >>

PerReplica == <<"_exalsius", "resources", "perReplica">>
ExalsiusPath(f) ==
    IF f = "replicas" THEN <<"_exalsius", "resources", f>> ELSE Append(PerReplica, f)
Vendors == {"NVIDIA", "AMD"}
ResourceForVendor(v) == IF v = "NVIDIA" THEN "nvidia.com/gpu" ELSE "amd.com/gpu"

SelectorPath == <<"_exalsius", "scheduling", "nodeSelector">>
ResourceNamePath == ExalsiusPath("gpuResourceName")

Tree(t) ==
    /\ DOMAIN t = Paths
    /\ \A p, q \in Paths : IsStrictPrefix(p, q) /\ t[q] # Absent => t[p] = "map"

\* "selector" stands for the node selector the operator itself writes; the CRDs
\* accept no other vendors.
NotOurs(spec) ==
    /\ \A p \in Paths : spec.values[p] # "selector"
    /\ \A f \in ToSet(Fields) : spec.res[f] # "selector"
    /\ spec.res["gpuVendor"] \in Vendors \cup {Unset}

ASSUME ClassAssumption ==
    /\ "kcm-system" \in Namespaces
    /\ Fields \in Seq(STRING) /\ {"gpuVendor", "gpuType"} \subseteq ToSet(Fields)
    /\ {"selector", "resource"} \cap ToSet(Fields) = {}
    /\ {PerReplica, SelectorPath, ResourceNamePath} \subseteq Paths
    /\ {ExalsiusPath(f) : f \in ToSet(Fields)} \subseteq Paths
    /\ \A p \in Paths : /\ p \in Seq(STRING) /\ p # << >>
                        /\ Prefixes(p) \ {<< >>} \subseteq Paths
    /\ \A c \in ClassSpecs :
          /\ c.ns \in Namespaces \cup {""} /\ Tree(c.values) /\ NotOurs(c)
          /\ \A f \in ToSet(Fields) : c.paths[f] \in Seq(Paths \cup {Malformed})
    /\ \A u \in UserSpecs : Tree(u.values) /\ NotOurs(u)
    /\ Faults \subseteq {"write", "list", "api"}

VARIABLES
    template,   \* template[ns]: the ServiceTemplate "absent", "invalid" or "valid"
    class,      \* the spec of the class, or NoClass
    status,     \* its status; current: observedGeneration is the generation
    queued,     \* the class is in the work queue
    pass,       \* a pass about to write the status, or Idle
    user,       \* the spec of the workspace, or NoUser
    wsd,        \* its phase, resolvedResources and ResourcesInjected warnings
    job,        \* the status startDeployment is about to write, or Idle
    release,    \* values in the ServiceSet, or NoRelease
    made        \* history: the class and the user's spec it was made from, and
                \* the vendor of the nodes with the model asked for, if any was found

classVars == <<template, class, status, queued, pass>>
wsdVars == <<user, wsd, job, release, made>>
vars == <<classVars, wsdVars>>

Idle == [step |-> "idle"]
NoClass == Idle
NoUser == Idle
NoStatus == [valid |-> FALSE, error |-> "", current |-> FALSE]
NoResources == [f \in ToSet(Fields) |-> Unset]
NoRelease == [p \in Paths |-> Absent]
NotMade == [class |-> NoClass, user |-> NoUser, nodes |-> Unset]
Pending == [phase |-> "Pending", resolved |-> NoResources, warned |-> {}]

(***************************************************************************)
(* WorkspaceClassReconciler                                                *)
(***************************************************************************)
TemplateNamespace(c) == IF c.ns = "" THEN "kcm-system" ELSE c.ns

MalformedFields(c) == {f \in ToSet(Fields) : Malformed \in ToSet(c.paths[f])}

\* evaluate: the template first, then the paths, field by field in whatever
\* order Go visits a map.  An error reading the template is a verdict too.
Verdicts(c) ==
    LET state == template[TemplateNamespace(c)]
        wrong(e) == [valid |-> FALSE, error |-> e]
    IN  (IF state # "valid" THEN {wrong(state)}
         ELSE IF MalformedFields(c) # {} THEN {wrong(f) : f \in MalformedFields(c)}
         ELSE {[valid |-> TRUE, error |-> ""]})
        \cup {wrong(e) : e \in Faults \cap {"api"}}

Recorded(v) == status.valid = v.valid /\ status.error = v.error /\ status.current

ReconcileClass ==
    /\ queued /\ pass = Idle
    /\ queued' = FALSE
    /\ IF class = NoClass THEN UNCHANGED pass
       ELSE \E v \in Verdicts(class) :
               pass' = IF Recorded(v) THEN Idle
                       ELSE [step |-> "write", verdict |-> v, fresh |-> TRUE]
    /\ UNCHANGED <<template, class, status, wsdVars>>

\* The update conflicts when the class changed since it was read, and is tried
\* again; a successful one wakes the reconciler, which watches the status too.
UpdateStatus ==
    /\ pass # Idle
    /\ status' = IF pass.fresh
                 THEN [valid |-> pass.verdict.valid, error |-> pass.verdict.error,
                       current |-> TRUE]
                 ELSE status
    /\ queued' = TRUE
    /\ pass' = Idle
    /\ UNCHANGED <<template, class, wsdVars>>

Stale == pass' = IF pass = Idle THEN Idle ELSE [pass EXCEPT !.fresh = FALSE]

EditClass(c) ==
    /\ class # c
    /\ class' = c
    /\ status' = IF class = NoClass THEN NoStatus ELSE [status EXCEPT !.current = FALSE]
    /\ queued' = TRUE
    /\ Stale
    /\ UNCHANGED <<template, wsdVars>>

DeleteClass ==
    /\ class # NoClass
    /\ class' = NoClass /\ status' = NoStatus /\ queued' = TRUE
    /\ Stale
    /\ UNCHANGED <<template, wsdVars>>

\* Mutant: a class that leaves the namespace out is not found.
ReferencesExactly(c, ns) == c.ns = ns

\* workspaceClassesForServiceTemplate
References(c, ns) == TemplateNamespace(c) = ns

\* k0rdent validates a template, or somebody deletes it.
TemplateChanges(ns, s) ==
    /\ template[ns] # s
    /\ template' = [template EXCEPT ![ns] = s]
    /\ queued' = (queued \/ (class # NoClass /\ References(class, ns)))
    /\ UNCHANGED <<class, status, pass, wsdVars>>

(***************************************************************************)
(* Resources and values of a release (startDeployment)                     *)
(***************************************************************************)
\* mergeResources: the GPU model is the user's alone.
MergeResources(defaults, overrides) ==
    [f \in ToSet(Fields) |->
        IF overrides[f] # Unset \/ f = "gpuType" THEN overrides[f] ELSE defaults[f]]

\* resolveGPUResource.  The vendors the nodes with the model asked for may have;
\* Unset when none is asked for, or the list fails.
NodesFound(res) ==
    IF res["gpuType"] = Unset THEN {Unset}
    ELSE Vendors \cup (IF "list" \in Faults THEN {Unset} ELSE {})

\* The nodes give the vendor, unless the class or the user named one, theirs or
\* not, and the resource in any case; without nodes a known vendor gives it.
ResolveGPU(res, nodes) ==
    IF nodes # Unset /\ res["gpuVendor"] = Unset
    THEN [res EXCEPT !["gpuVendor"] = nodes]
    ELSE res
GpuResourceName(res, nodes) ==
    IF nodes # Unset THEN ResourceForVendor(nodes)
    ELSE IF res["gpuVendor"] # Unset THEN ResourceForVendor(res["gpuVendor"])
    ELSE Absent

\* mergeValuesMap: the user's top-level keys replace those of the class.
MergeValues(defaults, values) ==
    [p \in Paths |-> IF values[<<Head(p)>>] # Absent THEN values[p] ELSE defaults[p]]

\* Mutant: maps on the way to the leaf are created afresh.
SetNestedValueFresh(t, path, v) ==
    [p \in Paths |-> IF p = path THEN v
                     ELSE IF IsStrictPrefix(p, path) THEN "map"
                     ELSE IF IsPrefix(<<Head(path)>>, p) THEN Absent
                     ELSE t[p]]

\* Mutant: what was below the leaf is still there.
SetNestedValueOver(t, path, v) ==
    [p \in Paths |-> IF p = path THEN v ELSE IF IsStrictPrefix(p, path) THEN "map" ELSE t[p]]

\* What is on the way to the leaf and not a map becomes one; what was below
\* the leaf is gone.
SetNestedValue(t, path, v) ==
    [p \in Paths |-> IF p = path THEN v
                     ELSE IF IsStrictPrefix(p, path) THEN "map"
                     ELSE IF IsStrictPrefix(path, p) THEN Absent
                     ELSE t[p]]

EnsureMap(t, path) ==
    [p \in Paths |-> IF IsPrefix(p, path) THEN "map" ELSE t[p]]

\* A path of the class: one that does not parse is skipped with a warning;
\* overwriting a leaf or a map at its end is a warning, replacing a leaf on the
\* way is not.
Inject(s, path, v) ==
    IF path = Malformed THEN [values |-> s.values, warned |-> s.warned \cup {path}]
    ELSE [values |-> SetNestedValue(s.values, path, v),
          warned |-> IF s.values[path] = Absent THEN s.warned ELSE s.warned \cup {path}]

\* The paths of the class for one field.
InjectField(s, v, paths) ==
    IF v = Unset THEN s ELSE FoldLeft(LAMBDA x, p : Inject(x, p, v), s, paths)

\* _exalsius.resources, whatever the class says.
InjectStandard(values, res) ==
    FoldLeft(LAMBDA t, f : IF res[f] = Unset THEN t
                           ELSE SetNestedValue(t, ExalsiusPath(f), res[f]),
             EnsureMap(values, PerReplica), Fields)

\* injectResources: first _exalsius.resources, then the paths of the class.
InjectResources(values, res, paths) ==
    FoldLeft(LAMBDA s, f : InjectField(s, res[f], paths[f]),
             [values |-> InjectStandard(values, res), warned |-> {}], Fields)

InjectNodeSelector(values, res) ==
    IF res["gpuType"] = Unset THEN values ELSE SetNestedValue(values, SelectorPath, "selector")

InjectGPUResourceName(values, name) ==
    IF name = Absent THEN values ELSE SetNestedValue(values, ResourceNamePath, name)

\* Mutant: an existing ServiceSet is left as it is.
EnsureServiceSetOnce(values, nodes) ==
    IF release = NoRelease
    THEN release' = values /\ made' = [class |-> class, user |-> user, nodes |-> nodes]
    ELSE UNCHANGED <<release, made>>

\* ensureWorkspaceServiceSet: created, or its values replaced.
EnsureServiceSet(values, nodes) ==
    release' = values /\ made' = [class |-> class, user |-> user, nodes |-> nodes]

\* The ServiceSet is written before the status that describes it.
StartDeployment ==
    /\ user # NoUser /\ wsd.phase = "Pending" /\ job = Idle /\ class # NoClass
    /\ LET merged == MergeResources(class.res, user.res)
       IN  \E nodes \in NodesFound(merged) :
              LET res == ResolveGPU(merged, nodes)
                  injected == InjectResources(MergeValues(class.values, user.values), res, class.paths)
                  values == InjectGPUResourceName(InjectNodeSelector(injected.values, res),
                                                  GpuResourceName(merged, nodes))
              IN  /\ EnsureServiceSet(values, nodes)
                  /\ job' = [phase |-> "Deploying", resolved |-> res, warned |-> injected.warned]
    /\ UNCHANGED <<classVars, user, wsd>>

WriteDeploying ==
    /\ job # Idle
    /\ wsd' = job /\ job' = Idle
    /\ UNCHANGED <<classVars, user, release, made>>

\* The write fails; the next pass starts over.
DeployingLost ==
    /\ "write" \in Faults /\ job # Idle
    /\ job' = Idle
    /\ UNCHANGED <<classVars, user, wsd, release, made>>

\* A prerequisite drifts, or the ClusterDeployment is missing for a while.  What
\* the status says of its resources means nothing until the next pass is over.
StartOver ==
    /\ wsd.phase = "Deploying"
    /\ wsd' = Pending
    /\ UNCHANGED <<classVars, user, job, release, made>>

\* An edit during a pass makes its write fail, like any other lost write.
EditWorkspace(u) ==
    /\ user # u /\ job = Idle
    /\ user' = u
    /\ UNCHANGED <<classVars, wsd, job, release, made>>

DeleteWorkspace ==
    /\ user # NoUser /\ job = Idle
    /\ user' = NoUser /\ wsd' = Pending /\ release' = NoRelease /\ made' = NotMade
    /\ UNCHANGED <<classVars, job>>

(***************************************************************************)
(* Specification                                                           *)
(***************************************************************************)
Init ==
    /\ template = [ns \in Namespaces |-> "absent"]
    /\ class = NoClass /\ status = NoStatus /\ queued = FALSE /\ pass = Idle
    /\ user = NoUser /\ wsd = Pending /\ job = Idle /\ release = NoRelease /\ made = NotMade

Next ==
    \/ ReconcileClass \/ UpdateStatus
    \/ DeleteClass \/ \E c \in ClassSpecs : EditClass(c)
    \/ \E ns \in Namespaces, s \in {"absent", "invalid", "valid"} : TemplateChanges(ns, s)
    \/ StartDeployment \/ WriteDeploying \/ DeployingLost \/ StartOver
    \/ DeleteWorkspace \/ \E u \in UserSpecs : EditWorkspace(u)

Spec == Init /\ [][Next]_vars

(***************************************************************************)
(* Properties                                                              *)
(***************************************************************************)
\* Every variable keeps its type; the values of a release are a tree.
TypeOK ==
    /\ template \in [Namespaces -> {"absent", "invalid", "valid"}]
    /\ class \in ClassSpecs \cup {NoClass} /\ made.class \in ClassSpecs \cup {NoClass}
    /\ user \in UserSpecs \cup {NoUser} /\ made.user \in UserSpecs \cup {NoUser}
    /\ status.valid \in BOOLEAN /\ status.current \in BOOLEAN /\ queued \in BOOLEAN
    /\ wsd.phase \in {"Pending", "Deploying"} /\ made.nodes \in Vendors \cup {Unset}
    /\ Tree(release)

\* When the reconciler has nothing left to do, the status tells the truth about
\* the class and its template as they are now, whatever edits, template changes
\* and conflicts came between its read and its write.
StatusSettled ==
    class # NoClass /\ ~queued /\ pass = Idle => \E v \in Verdicts(class) : Recorded(v)

\* What the operator writes in a release made from class c with resources res:
\* fields and paths.
Writes(c, res) ==
    {w \in ToSet(Fields) \X Paths :
        res[w[1]] # Unset /\ w[2] \in {ExalsiusPath(w[1])} \cup ToSet(c.paths[w[1]])}
    \cup (IF res["gpuType"] # Unset THEN {<<"selector", SelectorPath>>} ELSE {})
    \cup (IF res["gpuVendor"] # Unset THEN {<<"resource", ResourceNamePath>>} ELSE {})

Apart(p, q) == ~IsPrefix(p, q) /\ ~IsPrefix(q, p)

\* The vendor whose GPUs a release asks for.
ServedVendor ==
    IF made.nodes # Unset THEN made.nodes ELSE wsd.resolved["gpuVendor"]

\* A deploying workspace runs with what its status says: each resolved resource
\* is at its place under _exalsius and at every path of the class that no other
\* write touches, and the node selector is there just when the user, and never
\* a class, asked for a GPU model; whatever values users and admins wrote, and
\* however often a lost write and an edited class made the pass start over.  The
\* GPU resource it requests, unless another write touches its path, is the one
\* the nodes with the model carry when the pass found any, and that of the vendor
\* in the status otherwise.  The status names that vendor too, unless the
\* class or the user named another, which the code does not compare.
InjectionWins ==
    wsd.phase = "Deploying" =>
        LET writes == Writes(made.class, wsd.resolved)
            written(f) == CASE f = "selector" -> "selector"
                            [] f = "resource" -> ResourceForVendor(ServedVendor)
                            [] OTHER -> wsd.resolved[f]
        IN  /\ \A w \in writes :
                  (\A x \in writes \ {w} : Apart(w[2], x[2])) => release[w[2]] = written(w[1])
            /\ (release[SelectorPath] = "selector") = (made.user.res["gpuType"] # Unset)
            /\ \/ wsd.resolved["gpuVendor"] = ServedVendor
               \/ wsd.resolved["gpuVendor"]
                     \in {made.user.res["gpuVendor"], made.class.res["gpuVendor"]} \ {Unset}

\* Nothing written by a user, or by the class under a top-level key the user
\* left alone, disappears from a release unnoticed: it is there, or a warning
\* names the path that replaced it.  Excepted are the operator's own key and,
\* because the code does not report it, a leaf on the way to an injected path.
ValuesKept ==
    wsd.phase = "Deploying" =>
        \A p \in Paths :
            LET u == made.user.values
                source == IF u[<<Head(p)>>] # Absent THEN u ELSE made.class.values
            IN  \/ source[p] \in {Absent, "map", release[p]}
                \/ Head(p) = "_exalsius"
                \/ \E q \in wsd.warned \ {Malformed} : IsPrefix(q, p)
                \/ \E w \in Writes(made.class, wsd.resolved) : IsStrictPrefix(p, w[2])
==============================================================================
