CONSTANTS
    Workspaces <- SoloWorkspaces
    Classes <- PlainClasses
    ClassOf <- SoloClassOf
    Templates = {}
    Prereqs <- PlainPrereqs
    ColonyNs <- NoColonyNs
    Selectors <- H100
    NoSelector = NoSelector
    Selector <- SoloGpuSelector
    Demand <- SoloGpuDemand
    Total <- TwoGpus
    Routed = {}
    RouteProvider = FALSE
    Faults = {"write"}
SPECIFICATION Spec
INVARIANTS NeverWaitsOnItself
