CONSTANTS
    Objs <- MC_Objs
    PureObjs = {"pure"}
    Codes = {"code"}
    ExtCmdLoc <- MC_ExtCmdLoc
    MaxDepth = 3
    MaxWords = 2
    MaxEmptyExpansions = 0
    None = None
SPECIFICATION Spec
INVARIANT LocationKept
