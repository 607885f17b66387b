CONSTANTS
    Comparisons <- MCComparisons
    Walks <- MCWalks
    suffixRank <- MCsuffixRank
    monthOrder <- MCmonthOrder
    toLower <- MCtoLower
    Sortings <- MCSortings
    Merges <- MCMerges
    MergedFlags <- MCMergedFlags
    Mount <- MCMount
    MaxPath = 4
    MaxLinks = 6
    maxSymlinks = 12
    preservedRoots <- MCpreservedRoots
    FileSystems <- MCFileSystems
    Commands <- MCCommands
    MaxCommands = 2
    suffixDigits = 2
    Pipelines <- MCPipelines
    Packings <- MCPackings
    Programs <- MCPrograms
    IntBits = 4
    UintBits = 11
    named <- MCnamed
    leads <- MCleads
    Transfers <- MCTransfers
    blockSize = 2
    ByteRange = 6
    maxRetries = 3
    MaxFaults = 4
    MaxQueued = 3
SPECIFICATION Spec
CHECK_DEADLOCK FALSE
INVARIANTS DiffIsRight PatchRebuilds SortIsRight
    CommandsDoAsTold OnlyOperandsChange FiltersAreRight ArchivesAreRight
    EvaluatorsAreRight SedIsRight TransfersAreRight
