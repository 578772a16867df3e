SPECIFICATION Spec
CONSTANTS
    PopSize = 5
    Elites = 3
    Fitness = {0, 1, 2}
    TournamentSize = 3
    Replacement = 2
    MaxGiveUps = 1
INVARIANTS
    WinnerBeatsTheField
    SharesMatchFitness
PROPERTIES
    BestAreKept
    SteadyKeepsTheBest
