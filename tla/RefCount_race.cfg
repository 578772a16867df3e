SPECIFICATION Spec
CONSTANTS
    Main = main
    Plain = plain
    Settings <- OnlyTwo
    MaxGen = 1
    w1 = w1
    a1 = a1
    a2 = a2
    b1 = b1
    b2 = b2
    v1 = v1
    v2 = v2
    v3 = v3
INVARIANT
    DroppedOnce
