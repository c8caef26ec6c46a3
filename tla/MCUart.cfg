CONSTANTS
    Readers = {r1, r2}
    Inits = {i1}
    Counts = {1, 2}
    BufLen = 3
    LogLen = 2
    OneWrite = 1
SPECIFICATION FairSpec
INVARIANTS EntryAlive StrandedForAReason BusyPromisesInterrupt
PROPERTIES WaitersAreWoken 
