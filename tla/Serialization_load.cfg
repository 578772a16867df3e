SPECIFICATION Spec
CONSTANTS
    OperatorTables <- AllTables
    NoName = NoName
    Saved = saved
    Unsaved = unsaved
    Fresh = fresh
    MaxHistory = 2
    MaxPop = 2
INVARIANTS
    RefusedIsUntouched
    OtherOperatorsRefused
    RestoredExactly
    CompleteSaveLoads
