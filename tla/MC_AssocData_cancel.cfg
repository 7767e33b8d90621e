CONSTANTS
    Names <- MC_Names
    HostProcs <- MC_CancelProcs
    CounterWidth = 3
    MaxCalls = 4
    None = None
SPECIFICATION Spec
INVARIANT CancelHonoured
