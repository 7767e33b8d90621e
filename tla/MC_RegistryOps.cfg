CONSTANTS
    Names <- MC_Names
    Tokens <- MC_PairTokens
    InitCmds <- MC_PairCmds
    Traces <- MC_DeleteTraces
    MaxOps = 5
    Bucket <- MC_SplitBuckets
    DeleteProcs <- MC_Partners
    None = None
    NoCmd = NoCmd
    NoName = NoName
SPECIFICATION Spec
INVARIANTS RegTypeOK TableConsistent CommandRefs EpochSound InterpTornDown
