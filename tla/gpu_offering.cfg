CONSTANTS
    Nodes = {1, 2, 3}
    Carries <- OneVendorNodes
    MaxGpus = 2
    Profiles <- MCProfiles
    Pods <- MCPods
    PodRes <- BothPods
    PodGpus <- MCPodGpus
    MaxReplicas = 4
    Products <- H100Products
SPECIFICATION Spec
INVARIANTS AdvertisedIsGated NeverOverReports SingleGpuPlaceable FeasibleIsFree
