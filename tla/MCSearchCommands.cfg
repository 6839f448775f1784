CONSTANTS
    MaxThreads = 4
    MaxTasks = 4
    MaxBatches = 2
    Stores <- MCStores
    SearchThreads = {0, 3}
    SearchK = {1, 2}
    BenchStores <- MCBenchStores
    Benches <- MCBenches
    BenchK = 2

SPECIFICATION CommandsSpec

INVARIANTS
    PrivateBuffers
    BestK
    NothingLeft

PROPERTY CommandReturns
