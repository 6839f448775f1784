CONSTANTS
    NBlocks = 8
    BlockSize = 2
    EntriesPerBlock = 2
    EntrySize = 1
    InUseBytes <- SomeBytes
    Names = {a, b}
    FileIds = {1}
    FileSizes = {3}
    MaxDepth = 2
    MaxKills = 0
    MaxFailures = 1

SPECIFICATION Spec

INVARIANT SuccessIsWritten
