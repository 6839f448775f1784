CONSTANTS
    NBlocks = 7
    BlockSize = 2
    EntriesPerBlock = 2
    EntrySize = 1
    InUseBytes <- SomeBytes
    Names = {a, b}
    FileIds = {1}
    FileSizes = {2, 4}
    MaxDepth = 2
    MaxKills = 1
    MaxFailures = 1

SPECIFICATION Spec

SYMMETRY NameSymmetry

INVARIANTS
    ChainsSound
    TornOnlyByKill
    SuccessLeaksNothing

PROPERTIES
    PutIsAtomic
    FilesKept
    EntriesKept
