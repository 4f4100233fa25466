CONSTANTS
    Workspaces <- SoloWorkspaces
    Classes <- PlainClasses
    ClassOf <- SoloClassOf
    Templates = {}
    Prereqs <- PlainPrereqs
    ColonyNs <- NoColonyNs
    Selectors = {}
    NoSelector = NoSelector
    Selector <- SoloSelector
    Demand <- SoloDemand
    Total <- NoGpus
    Routed <- PlainClasses
    RouteProvider = TRUE
    Faults = {"write", "ssapi", "cd", "child", "secret", "regional", "suspend", "helm", "values"}
SPECIFICATION FairSpec
INVARIANTS TypeOK NamespaceAfterUninstall NoOrphans FrontDoorFirst
PROPERTIES ImplementsLifecycle DeletionCompletes
