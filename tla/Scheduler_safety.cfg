SPECIFICATION Spec
CONSTANTS
    Threads = {main, w1, w2}
    Main = main
    PopSize = 4
    EvalSize = 2
    Elites = 1
    MaxGen = 1
    DestroyUnused = TRUE
SYMMETRY Symmetry
INVARIANTS
    Lockstep
    ClaimsDisjoint
    EvaluatedExactlyOnce
    SumComplete
    NextPopulationComplete
    IInv
PROPERTIES
    ChildrenKept
    ImplementsEvolution
