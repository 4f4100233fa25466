CONSTANTS
    Workspaces <- GpuWorkspaces
    Classes <- PlainClasses
    ClassOf <- GpuClassOf
    Templates = {}
    Prereqs <- PlainPrereqs
    ColonyNs <- NoColonyNs
    Selectors <- H100
    NoSelector = NoSelector
    Selector <- GpuSelector
    Demand <- GpuDemand
    Total <- TwoGpus
    Routed = {}
    RouteProvider = FALSE
    Faults = {"nodes", "child"}
SPECIFICATION FairSpec
INVARIANTS NeverWaitsOnItself RunningIsBacked
PROPERTIES ServedOldestFirst WaitingResolves
