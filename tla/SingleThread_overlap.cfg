SPECIFICATION Spec
CONSTANTS
    Workers = {w1}
    Main = main
    PopSize = 2
    Elites = 0
    MaxGen = 1
INVARIANT
    OnlyMainServes
