CONSTANTS
    NumCPUs = 2
    NumSlots = 3
    MaxTime = 1
    NestedTick = FALSE
    ExitWindow = FALSE
SPECIFICATION Spec
INVARIANTS   NoSlotLost 
