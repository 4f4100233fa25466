CONSTANTS
    Fields <- MCFields
    Paths <- MCPaths
    Namespaces = {"kcm-system"}
    ClassSpecs <- MCClassSpecs
    UserSpecs <- MCUserSpecs
    Faults = {"write", "list"}
SPECIFICATION Spec
INVARIANTS TypeOK StatusSettled InjectionWins ValuesKept
