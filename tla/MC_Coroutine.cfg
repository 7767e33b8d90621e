CONSTANTS
    Names <- MC_Names
    InitCmds <- MC_InitCmds
    CorNames <- MC_CorNames
    Bodies <- MC_Bodies
    Envs <- MC_Envs
    NoCmd = NoCmd
    NoName = NoName
    Main = Main
    UnknownName = "unknown"
    MaxNestingDepth = 3
    MaxEvals = 2
    MaxCancels = 1
    ExecTraces <- MC_NoTraces
    AllowExceptions = FALSE
SPECIFICATION CorSpec
INVARIANTS CorTypeOK LevelsAccounting NoReentry CorLifetime DeletedCoroutineFreed

PROPERTY CoroutineRefinement
