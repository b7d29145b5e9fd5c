\* A view is asked for while the pipeline loads the session again
SPECIFICATION Spec
CONSTANTS
    NProcs = 3
    NReports = 1
    GpuTables = {"gpu_kernels"}
    Missing <- MCMissing
    MayOverlap = TRUE
    MaxDeaths = 0
PROPERTIES SpansAreCurrent
CHECK_DEADLOCK FALSE
