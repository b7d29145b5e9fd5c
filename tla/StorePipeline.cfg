SPECIFICATION Spec
VIEW MCView
CONSTANTS
    NProcs = 4
    NReports = 2
    GpuTables = {"gpu_kernels", "cuda_runtime"}
    Missing <- MCMissing
    MayOverlap = FALSE
    MaxDeaths = 1
INVARIANTS PartsOnce
PROPERTIES DoneIsWhole SpansAreCurrent
CHECK_DEADLOCK FALSE
