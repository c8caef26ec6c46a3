CONSTANTS
    NumCPUs = 2
    NumSlots = 2
    MaxTime = 0
    NestedTick = TRUE
    ExitWindow = TRUE
SPECIFICATION Spec
INVARIANT OneCpuPerStack
CHECK_DEADLOCK FALSE
