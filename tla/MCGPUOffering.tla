---------------------------- MODULE MCGPUOffering ----------------------------
(***************************************************************************)
(* Small clusters for TLC: up to three nodes, two pods.                    *)
(***************************************************************************)
EXTENDS GPUOffering

Profile(model, vendor, nvidia, amd, device) ==
    [k \in LabelKeys |->
        CASE k = "gpu-model" -> model [] k = "gpu-vendor" -> vendor
          [] k = "nvidia.product" -> nvidia [] k = "amd.product-name" -> amd
          [] OTHER -> device]

\* Unlabelled, product-labelled, with the canonical label besides, and a vendor
\* override.
MCProfiles ==
    {Profile("", "", "", "", ""), Profile("", "", "H100-HBM3", "", ""),
     Profile("H100", "", "H100-HBM3", "", ""), Profile("", "AMD", "", "", "0x74a1")}

\* Two NVIDIA nodes and an AMD node.
OneVendorNodes == [n \in 1 .. 3 |-> {IF n < 3 THEN "nvidia.com/gpu" ELSE "amd.com/gpu"}]
MCPods == {"p1", "p2"}
MCPodGpus == [p \in MCPods |-> IF p = "p1" THEN 1 ELSE 2]
BothPods == [p \in MCPods |-> IF p = "p1" THEN "nvidia.com/gpu" ELSE "amd.com/gpu"]
H100Products == [t \in {"H100"} |-> {"H100-HBM3"}]
==============================================================================
