CONSTANTS
    CPUs = {0, 1}
    Tasks = {t1}
    Periodic = {p1}
    NoTimer = NoTimer
    Timeouts = {1, 2}
    Period = 2
    Modulus = 32
    MaxTick = 3
SPECIFICATION FairSpec
INVARIANTS FrameAlive FiredOnce MissedForAReason
PROPERTIES NoEarlyReturn SoftirqEnds
