CONSTANT CPUs = {0, 1}
SPECIFICATION FairSpec
INVARIANTS MutualExclusion NoSelfDeadlock UnlockCannotFail MaskBalanced
PROPERTIES FreeLockIsTaken ImplementsLock
