------------------------------ MODULE Generator ------------------------------
(***************************************************************************)
(* grow_generator_t and full_generator_t (src/generators.cpp): a tree is   *)
(* made from a stack of operators whose types are still to be provided     *)
(* for, and a population by the calls that an initializer makes.           *)
(***************************************************************************)
EXTENDS OperatorTables

CONSTANTS
    RootType,       \* initializer_arguments::root_type
    MinDepth,       \* initializer_arguments::min_depth
    MaxDepth,       \* initializer_arguments::max_depth
    PopulationSize  \* initializer_arguments::size

-----------------------------------------------------------------------------
\* perChild of the two generators.
TooDeep(type) ==
    IF HasTerminals(type) THEN SelectTerminal(type) ELSE SelectNonTerminalTooDeep(type)

ChildOf(made, type, depth) ==
    IF depth >= made.limit THEN TooDeep(type)
    ELSE IF made.kind = "full" \/ depth < MinDepth THEN SelectNonTerminal(type)
    ELSE SelectNonTerminal(type) \cup SelectTerminal(type)

-----------------------------------------------------------------------------
(* The initializers, each as the calls of a generator it may make for one  *)
(* tree of the population: which generator, with which max_depth.          *)

Calls(kinds, limits) == [kind : kinds, limit : limits]

GrowInitializer == Calls({"grow"}, {MaxDepth})
FullInitializer == Calls({"full"}, {MaxDepth})
HalfHalfInitializer == Calls({"grow", "full"}, {MaxDepth})

\* per_step trees for each depth below max_depth, the remainder at max_depth.
RampedHalfInitializer ==
    LET steps == MaxDepth - MinDepth
        ramp == IF PopulationSize \div steps > 0 THEN MinDepth..(MaxDepth - 1) ELSE {}
        rest == IF PopulationSize % steps > 0 THEN {MaxDepth} ELSE {}
    IN  Calls({"grow", "full"}, ramp \cup rest)

-----------------------------------------------------------------------------
VARIABLES
    call,       \* the call of a generator that is made
    stack,      \* tree_generator: operators to emplace and their depths
    tree,       \* the tree so far
    maxDepth    \* max_depth: the deepest operator emplaced

vars == <<call, stack, tree, maxDepth>>

Init ==
    /\ call \in GrowInitializer \cup FullInitializer
                  \cup HalfHalfInitializer \cup RampedHalfInitializer
    /\ stack \in {<< [id |-> o, depth |-> 1] >> : o \in SelectNonTerminal(RootType)}
    /\ tree = EmptyTree
    /\ maxDepth = 0

\* Mutated: the children are pushed last argument first.
PushedReversed(s, children) == s \o Reverse(children)

\* The last argument comes to lie on top.
Pushed(s, children) == s \o children

\* One turn of create_tree's loop.
EmplaceNext ==
    /\ stack # <<>>
    /\ LET top == Last(stack) args == Args[top.id] IN
         /\ tree' = EmplaceOperator(tree, Op(top.id, Len(tree.ops) + 1))
         /\ maxDepth' = IF top.depth > maxDepth THEN top.depth ELSE maxDepth
         /\ IF top.id \in Ephemeral
            THEN stack' = Front(stack)
            ELSE \E ids \in [1..Argc(top.id) -> Operators] :
                   /\ \A a \in 1..Argc(top.id) :
                        ids[a] \in ChildOf(call, args[a], top.depth + 1)
                   /\ stack' = Pushed(Front(stack),
                        [a \in 1..Argc(top.id) |-> [id |-> ids[a], depth |-> top.depth + 1]])
    /\ UNCHANGED call

Generated ==
    /\ stack = <<>>
    /\ UNCHANGED vars

Next == EmplaceNext \/ Generated

Spec == Init /\ [][Next]_vars

-----------------------------------------------------------------------------
\* Mutated: one argument fewer is taken off.
GetDepthFewer(tr) ==
    FoldLeft(LAMBDA depths, op :
                 LET args == IF Argc(op.id) = 0 THEN 0 ELSE Argc(op.id) - 1
                     deepest == FoldLeft(LAMBDA m, d : IF d > m THEN d ELSE m, 0,
                                         FromEnd(depths, args))
                 IN  Append(First(depths, Len(depths) - args), deepest + 1),
             <<>>, Reverse(tr.ops))[1]

\* tree_t::get_depth, by evaluating the operators on depths.
GetDepth(tr) ==
    FoldLeft(LAMBDA depths, op :
                 LET args == Argc(op.id)
                     deepest == FoldLeft(LAMBDA m, d : IF d > m THEN d ELSE m, 0,
                                         FromEnd(depths, args))
                 IN  Append(First(depths, Len(depths) - args), deepest + 1),
             <<>>, Reverse(tr.ops))[1]

\* A finished tree is one expression of the type asked for, and it evaluates
\* with its own constants, whichever operators the generators drew.
GeneratesWellFormed ==
    stack = <<>> => WellFormed(tree, RootType) /\ EvaluatesAsDenoted(tree, RootType)

\* get_depth, which walks the tree as the evaluator does, finds the depth the
\* generator reached.
DepthsAgree == stack = <<>> => GetDepth(tree) = maxDepth

\* Past the max_depth they are called with, by whichever initializer, the
\* generators come to an end at once: what they select there needs terminals
\* only.  The root is a function whatever the max_depth.
DepthBounded == maxDepth <= (IF call.limit < 2 THEN 2 ELSE call.limit) + 1

=============================================================================
