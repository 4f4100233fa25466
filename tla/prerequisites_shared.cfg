CONSTANTS
    Workspaces <- SharedWorkspaces
    Classes <- SharedClasses
    ClassOf <- SharedClassOf
    Templates <- PrereqTemplates
    Prereqs <- SharedPrereqs
    ColonyNs <- PrereqColonyNs
    Selectors = {}
    NoSelector = NoSelector
    Selector <- SharedSelector
    Demand <- SharedDemand
    Total <- NoGpus
    Routed = {}
    RouteProvider = FALSE
    Faults = {"ssapi", "class", "helm", "values"}
SPECIFICATION FairSpec
INVARIANTS ServedWhereAsked
PROPERTIES FirstFailureWins Settles
