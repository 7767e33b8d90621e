CONSTANTS
    Names <- MC_Names
    HostProcs <- MC_HostProcs
    CounterWidth = 3
    MaxCalls = 4
    None = None
SPECIFICATION Spec
INVARIANTS CallbacksOnce EveryCallbackRuns CancelHonoured
