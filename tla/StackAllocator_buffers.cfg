SPECIFICATION Spec
CONSTANTS
    Stacks = {s1, s2}
    Buffers = {b1, b2, b3}
    Null = Null
    Words = {w1, w2}
    Unset = Unset
    MaxWords = 3
SYMMETRY Symmetric
INVARIANTS
    BuffersOwnedOnce
PROPERTIES
    ImplementsWordStacks
