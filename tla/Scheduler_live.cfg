SPECIFICATION FairSpec
CONSTANTS
    Threads = {main, w1}
    Main = main
    PopSize = 4
    EvalSize = 2
    Elites = 1
    MaxGen = 2
    DestroyUnused = FALSE
PROPERTIES
    ServiceReturns
    DestructorReturns
