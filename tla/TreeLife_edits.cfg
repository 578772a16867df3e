SPECIFICATION Spec
CONSTANTS
    Types <- MCTypes
    Size <- MCSize
    Operators <- MCOperators
    Ret <- MCRet
    Args <- MCArgs
    Ephemeral <- MCEphemeral
    Droppable <- MCDroppable
    RootType = "num"
    MinDepth = 1
    MaxDepth = 3
    PopulationSize = 3
    MinTreeSize = 2
    MaxOps = 6
INVARIANTS
    GeneratesWellFormed
    DepthsAgree
    DepthBounded
    StaysWellFormed
    StaysEvaluable
    DropsWhatTheyMade
    CheckAccepts
