CONSTANTS
    MaxThreads = 3
    MaxTasks = 3
    MaxBatches = 2

SPECIFICATION FairSpec

INVARIANTS
    ArgsLive
    RunOnce
    NoLostWakeup
    NoUseAfterFree

PROPERTIES
    PoolSafe
    PoolLive
    DestroyReturns
