CONSTANTS
    Names <- MC_Names
    Tokens <- MC_Tokens
    InitCmds <- MC_InitCmds
    Traces <- MC_RenameTraces
    MaxOps = 5
    Bucket <- MC_OneBucket
    DeleteProcs <- MC_NoDeleteProcs
    None = None
    NoCmd = NoCmd
    NoName = NoName
SPECIFICATION Spec
INVARIANT TableConsistent
