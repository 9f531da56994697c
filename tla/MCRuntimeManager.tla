--------------------------- MODULE MCRuntimeManager ---------------------------
(* Constants for model checking RuntimeManager.                            *)
EXTENDS RuntimeManager

Gpu(id, api, vendor, backends, memory) ==
    [id |-> id, api |-> api, vendor |-> vendor, backends |-> backends, memory |-> memory]

\* Apple Silicon, where both engines see the one GPU under an id of their own; an Intel Mac
\* with Metal; a PC with three vendors' adapters, of which NVIDIA's has two backends and two
\* are alike; a machine without a GPU.
MCInventories ==
    {[apple |-> TRUE, gpus |-> <<Gpu(1, "metal", "apple", {"metal"}, 8),
                                 Gpu(2, "llama", "apple", {"metal"}, 8)>>],
     [apple |-> FALSE, gpus |-> <<Gpu(1, "metal", "amd", {"metal"}, 4)>>],
     [apple |-> FALSE, gpus |-> <<Gpu(1, "llama", "amd", {"vulkan"}, 4),
                                  Gpu(2, "llama", "nvidia", {"cuda", "vulkan"}, 6),
                                  Gpu(3, "llama", "intel", {"vulkan"}, 8),
                                  Gpu(4, "llama", "amd", {"vulkan"}, 8)>>],
     [apple |-> FALSE, gpus |-> <<>>]}

MCKind == [llama |-> "llama", mlx |-> "mlx", own |-> "other"]
MCRuntimes == <<"llama", "mlx", "own">>
=============================================================================
