CONSTANTS
    Pids = {1, 2, 3}
    Width = 4
SPECIFICATION FairSpec
INVARIANTS MutualExclusion NoLostWakeup WakesOnlyWaiters
PROPERTIES FreeMutexIsTaken ImplementsLock
