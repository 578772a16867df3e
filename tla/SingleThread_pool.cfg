SPECIFICATION FairSpec
CONSTANTS
    Workers = {w1}
    Main = main
    PopSize = 3
    Elites = 1
    MaxGen = 2
INVARIANTS
    AloneScoresOnce
    AloneBreedsAll
PROPERTIES
    AloneScoresOnDemand
    ServiceReturns
    DestructorReturns
