CONSTANTS
    Clusters = {a, b}
    Regional = {}
    Hosted = {}
    Expose <- AllNodePort
    Entries <- AllEntries
    Faults = {"write", "api", "health"}
SYMMETRY Symmetric
SPECIFICATION Spec
INVARIANTS TypeOK ClustersReferenced
PROPERTIES ReadyIsBacked GoneAfterClusters
