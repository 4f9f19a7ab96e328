CONSTANTS
    script = script
    nested = nested
    helper = helper
    Functions = {script, helper}
    Main = script
    Shared = "global"
    Scope <- RecursiveScope
    Params <- RecursiveParams
    Outputs <- NoNames
    Persistents <- NoNames
    Calls <- RecursiveCalls
    Handles <- NoNames
    Clears <- NoNames
    ClearsGlobal = {}
    ClearsAll = {}
    Values = {empty, one}
    Empty = empty
    Cells = {c1, c2, c3, c4}
    MaxFrames = 3
    MaxClosures = 0
SPECIFICATION Spec
PROPERTY CallsLeaveVariables
