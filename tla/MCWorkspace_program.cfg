CONSTANTS
    script = script
    nested = nested
    helper = helper
    Functions <- Program
    Main = script
    Shared = "global"
    Scope <- ScopeOf
    Params <- ParamsOf
    Outputs <- OutputsOf
    Persistents <- PersistentsOf
    Calls <- CallsOf
    Handles <- HandlesOf
    Clears <- ClearsOf
    ClearsGlobal <- OnlyScript
    ClearsAll <- OnlyScript
    Values = {empty, one}
    Empty = empty
    Cells = {c1, c2, c3, c4, c5, c6}
    MaxFrames = 3
    MaxClosures = 1
SPECIFICATION Spec
INVARIANTS TypeOK FramesAreSeparate StorageIsShared CellsAreOneVariable
PROPERTY CallsLeaveVariables
SYMMETRY CellsAlike
