--------------------------- MODULE MCWorkspaceClass ---------------------------
(***************************************************************************)
(* Classes and workspaces for TLC, chosen to meet: user and class values   *)
(* in maps next to, at, above and below injected paths; injected paths     *)
(* above one another; paths under the operator's own key; paths that do    *)
(* not parse.                                                              *)
(***************************************************************************)
EXTENDS WorkspaceClass

MCFields == <<"cpu", "gpuVendor", "gpuType">>
App == <<"app">>
AppCpu == <<"app", "cpu">>
AppModel == <<"app", "model">>
Other == <<"other">>
Scheduling == <<"_exalsius", "scheduling">>

MCPaths ==
    {App, AppCpu, AppModel, Other} \cup
    UNION {Prefixes(p) \ {<< >>} :
             p \in {SelectorPath, ResourceNamePath} \cup {ExalsiusPath(f) : f \in ToSet(MCFields)}}

\* A tree with these leaves, all of them v, and the maps above them.
Leaves(S, v) ==
    [p \in MCPaths |-> IF p \in S THEN v
                       ELSE IF \E q \in S : IsStrictPrefix(p, q) THEN "map" ELSE Absent]

Res(cpu, vendor, type) ==
    [f \in ToSet(MCFields) |-> CASE f = "cpu" -> cpu [] f = "gpuVendor" -> vendor [] OTHER -> type]
At(cpu, vendor, type) == Res(cpu, vendor, type)

\* The third class got past the rule of its CRD against models in a class,
\* which the merge provides for.
MCClassSpecs ==
    {[ns |-> "", values |-> Leaves({AppCpu, AppModel}, "class"),
      res |-> Res("2", Unset, Unset), paths |-> At(<<AppCpu>>, << >>, <<AppModel>>)],
     [ns |-> "kcm-system", values |-> Leaves({App, Other}, "class"),
      res |-> Res(Unset, "AMD", Unset), paths |-> At(<<Other, Malformed>>, <<Malformed, App>>, <<AppModel>>)],
     [ns |-> "", values |-> Leaves({PerReplica}, "class"),
      res |-> Res("2", Unset, "pinned"), paths |-> At(<<App>>, << >>, <<Scheduling>>)]}

MCUserSpecs ==
    {[values |-> Leaves({}, "user"), res |-> Res(Unset, Unset, Unset)],
     [values |-> Leaves({AppCpu, AppModel, Scheduling}, "user"), res |-> Res(Unset, Unset, "H100")],
     [values |-> Leaves({App, Other, <<"_exalsius">>}, "user"), res |-> Res("4", Unset, Unset)],
     [values |-> Leaves({AppModel, SelectorPath}, "user"), res |-> Res("4", "NVIDIA", "H100")]}
==============================================================================
