------------------------------ MODULE TreeLife ------------------------------
(***************************************************************************)
(* A tree from its generation to the last edit: the initial population's   *)
(* trees (Generator) are what breeding (Mutation) begins with.             *)
(***************************************************************************)
EXTENDS OperatorTables

CONSTANTS
    RootType,       \* the type of the population's trees
    MinDepth, MaxDepth, PopulationSize, \* of the initializers
    MinTreeSize,    \* of crossover
    MaxOps          \* bound on the operators of a tree that is bred from

\* ramped_half_initializer_t divides by the difference of the depths.
ASSUME DepthAssumption ==
    /\ MinDepth \in Nat /\ MaxDepth \in Nat /\ PopulationSize \in Nat
    /\ MinDepth < MaxDepth

VARIABLES
    call, stack, tree, maxDepth,    \* Generator
    c, c2, node                     \* Mutation

Generation == INSTANCE Generator
Breeding == INSTANCE Mutation

vars == <<call, stack, tree, maxDepth, c, c2, node>>

\* Breeding tells the constants of a tree apart by two tags.
TwoTags(tr) ==
    [ops |-> [k \in 1..Len(tr.ops) |-> [tr.ops[k] EXCEPT !.tag = @ % 2]],
     vals |-> [k \in 1..Len(tr.vals) |-> [tr.vals[k] EXCEPT !.tag = @ % 2]]]

Init == Generation!Init /\ Breeding!Init

Generate ==
    /\ c = EmptyTree
    /\ Generation!Next
    /\ UNCHANGED <<c, c2, node>>

\* The finished tree becomes a parent; its generation is forgotten.
Begin ==
    /\ stack = <<>>
    /\ Breeding!Adopt(TwoTags(tree))
    /\ tree' = EmptyTree
    /\ maxDepth' = 0
    /\ call' = CHOOSE x \in Generation!GrowInitializer : TRUE
    /\ UNCHANGED stack

Breed ==
    /\ Breeding!Next
    /\ UNCHANGED <<call, stack, tree, maxDepth>>

Next == Generate \/ Begin \/ Breed

Spec == Init /\ [][Next]_vars

-----------------------------------------------------------------------------
\* A finished tree is one expression of the type asked for, and it evaluates
\* with its own constants, whichever initializer and operators were drawn.
GeneratesWellFormed == c = EmptyTree => Generation!GeneratesWellFormed

\* get_depth finds the depth that the generator reached.
DepthsAgree == c = EmptyTree => Generation!DepthsAgree

\* No tree is deeper than its call's max_depth and one level of terminals.
DepthBounded == Generation!DepthBounded

\* Every tree bred from the initial population is one complete, correctly
\* typed expression of the root type.
StaysWellFormed == Breeding!StaysWellFormed

\* ... and evaluates to what it denotes, with its own constants.
StaysEvaluable == Breeding!StaysEvaluable

\* Evaluating any of them drops each droppable result once and no constant.
DropsWhatTheyMade == Breeding!DropsWhatTheyMade

\* The debug build's check of a tree never fails on one that was bred.
CheckAccepts == Breeding!CheckAccepts

=============================================================================
