CONSTANTS
    NumCPUs = 2
    NumTasks = 3
    NumPages = 9
    PageSize = 2
    MaxBrk = 2
    PagesPerTable = 2
    MaxVmas = 3
    MaxLeaks = 1
    MaxForks = 2
    Watched <- FirstOfHeap
SPECIFICATION Spec
INVARIANTS OneUse LostForAReason  HeapEndsAtBrk StaleForAReason
CHECK_DEADLOCK FALSE
