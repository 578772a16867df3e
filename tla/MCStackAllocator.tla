-------------------------- MODULE MCStackAllocator --------------------------
EXTENDS StackAllocator, TLC

Symmetric == Permutations(Buffers)

=============================================================================
