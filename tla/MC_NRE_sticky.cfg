CONSTANTS
    Names <- MC_Names
    InitCmds <- MC_InitCmds
    NoCmd = NoCmd
    NoName = NoName
    Main = Main
    Envs = {Main}
    UnknownName = "unknown"
    MaxNestingDepth = 3
    MaxEvals = 2
    MaxCancels = 1
    ExecTraces <- MC_ExecTraces
    AllowExceptions = FALSE
SPECIFICATION Spec
INVARIANT CancelNotSticky
