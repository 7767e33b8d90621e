CONSTANTS
    Names <- MC_Names
    Tokens <- MC_PairTokens
    InitCmds <- MC_PairCmds
    Traces <- MC_DeleteTraces
    MaxOps = 5
    Bucket <- MC_SharedBucket
    DeleteProcs <- MC_Partners
    None = None
    NoCmd = NoCmd
    NoName = NoName
SPECIFICATION Spec
INVARIANT NoStaleHashEntry
