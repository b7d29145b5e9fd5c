\* What documents and comments say of the database: all are violated
\* (tlc -continue)
SPECIFICATION Spec
CONSTANTS
    NProcs = 3
    NReports = 1
    GpuTables = {"gpu_kernels"}
    Missing <- MCMissing
    MayOverlap = FALSE
    MaxDeaths = 0
PROPERTIES EveryErrorShows EveryPipelineRebuilds PageIsCurrent
CHECK_DEADLOCK FALSE
