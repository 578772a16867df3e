SPECIFICATION Spec
CONSTANTS
    Types <- MCTypes
    Size <- MCSize
    Operators <- MCOperators
    Ret <- MCRet
    Args <- MCArgsMixed
    Ephemeral <- MCEphemeral
    Droppable <- MCDroppable
    RootType = "num"
    MinDepth = 1
    MaxDepth = 3
    PopulationSize = 3
    MinTreeSize = 2
    MaxOps = 6
INVARIANT
    DropsWhatTheyMade
