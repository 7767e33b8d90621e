CONSTANTS
    Names <- MC_Names
    InitCmds <- MC_InitCmds
    CorNames <- MC_CorNames
    Bodies <- MC_BodiesLive
    Envs <- MC_Envs
    NoCmd = NoCmd
    NoName = NoName
    Main = Main
    UnknownName = "unknown"
    MaxNestingDepth = 2
    MaxEvals = 2
    MaxCancels = 0
    ExecTraces <- MC_NoTraces
    AllowExceptions = FALSE
SPECIFICATION CorSpec
PROPERTIES EvalCompletes
