CONSTANTS
    Clusters = {"a", "b"}
    Regional = {"b"}
    Hosted = {"b"}
    Expose <- AllLoadBalancer
    Entries <- OneBroken
    Faults = {"write", "child"}
SPECIFICATION FairSpec
PROPERTIES VolumesReclaimed Converges FailureIsolated ColonyDeletionCompletes
