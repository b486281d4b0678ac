SPECIFICATION Spec
CONSTANTS
    MaxRegs  = 2
    MaxMods  = 2
    MaxFuncs = 2
    MaxRecs  = 1
    MaxCalls = 5
    TableSize = 2
    Names      <- MCNames
    Stored     <- MCStored
    FuncTables <- MCFuncTables
    ModTables  <- MCModTables
INVARIANTS
    TypeOK
    NoBadAccess
    TraceExact
    RegNamesUnique
PROPERTIES
    DestroyFreesAll
    
CHECK_DEADLOCK FALSE
