CONSTANTS
    Workspaces <- SoloWorkspaces
    Classes <- AllClasses
    ClassOf <- SoloBothClassOf
    Templates <- PrereqTemplates
    Prereqs <- AllPrereqs
    ColonyNs <- PrereqColonyNs
    Selectors = {}
    NoSelector = NoSelector
    Selector <- SoloSelector
    Demand <- SoloDemand
    Total <- NoGpus
    Routed = {}
    RouteProvider = FALSE
    Faults = {"prereq", "colony", "write"}
SPECIFICATION Spec
INVARIANTS VerdictIsWorst
PROPERTIES PrerequisitesBeforeDeploying
