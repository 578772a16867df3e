------------------------------ MODULE Mutation ------------------------------
(***************************************************************************)
(* What breeding does to a tree (src/transformers.cpp): subtree and one    *)
(* point crossover with another tree, mutation_t and the node by node      *)
(* advanced_mutation_t, in any sequence.  TreeLife begins it with the      *)
(* generators' trees.                                                      *)
(***************************************************************************)
EXTENDS Tree

CONSTANTS
    RootType,       \* the type of the population's trees
    MinTreeSize,    \* subtree_crossover_t's config.min_tree_size
    MaxOps          \* bound on the operators of a tree

VARIABLES
    c,              \* the child
    c2,             \* the other child, of a crossover only
    node            \* c_node of advanced_mutation_t, 0 outside of it

vars == <<c, c2, node>>

-----------------------------------------------------------------------------
(* A generator's results: a function of the type over terminals, or a      *)
(* terminal where the type has no function.  Generator has the real ones.  *)

Generated(type, g) ==
    LET build(ops) == FoldLeft(EmplaceOperator, EmptyTree, ops)
        leaves(o) == {f \in [1..Argc(o) -> UNION {Terminals(t) : t \in Types}] :
                         \A a \in 1..Argc(o) : f[a] \in Terminals(Args[o][a])}
        over(o, f) == <<Op(o, g)>> \o Reverse([a \in 1..Argc(o) |-> Op(f[a], (g + a) % 2)])
    IN  IF NonTerminals(type) = {} THEN {build(<<Op(o, g)>>) : o \in Terminals(type)}
        ELSE UNION {{build(over(o, f)) : f \in leaves(o)} : o \in NonTerminals(type)}

\* One tree for each argument of an operator.
GeneratedArgs(o) ==
    {f \in [1..Argc(o) -> UNION {Generated(t, 1) : t \in Types}] :
        \A a \in 1..Argc(o) : f[a] \in Generated(Args[o][a], 1)}

Nodes(tr) == 1..Len(tr.ops)
TypeAt(tr, i) == Ret[tr.ops[i].id]
Subtree(tr, i) == [b |-> i, e |-> FindEndpoint(tr.ops, i)]
Fits(tr) == Len(tr.ops) <= MaxOps

\* There is no child yet.
Init == c = EmptyTree /\ c2 = EmptyTree /\ node = 0

\* The first parent is an individual of the initial population.
Adopt(tr) ==
    /\ c = EmptyTree
    /\ Fits(tr)
    /\ c' = tr
    /\ UNCHANGED <<c2, node>>

-----------------------------------------------------------------------------
(* subtree_crossover_t and mutation_t.                                     *)

\* select_subtree: any node, in the end.
SelectSubtree(tr) == Nodes(tr)

\* select_subtree_traverse: where a walk down from the root may stop.
SelectSubtreeTraverse(tr) ==
    FoldLeft(LAMBDA reached, i :
                 IF i \in reached
                 THEN reached \cup {child.b : child \in
                          ToSet(FindChildExtends(tr.ops, i, Argc(tr.ops[i].id)))}
                 ELSE reached,
             {1}, [i \in Nodes(tr) |-> i])

\* Both with a type, when they do not give up.
OfType(points, tr, type) == {i \in points : TypeAt(tr, i) = type}

PointsOver(points1, points2) ==
    UNION {{i} \X OfType(points2, c2, TypeAt(c, i)) : i \in points1}

GetCrossoverPoint == PointsOver(SelectSubtree(c), SelectSubtree(c2))
GetCrossoverPointTraverse == PointsOver(SelectSubtreeTraverse(c), SelectSubtreeTraverse(c2))

\* A crossover's second child is the copy of another parent.
CopyParent ==
    /\ c # EmptyTree /\ node = 0 /\ c2 = EmptyTree
    /\ c2' \in Generated(RootType, 0)
    /\ UNCHANGED <<c, node>>

Crossover ==
    /\ c2 # EmptyTree
    /\ Len(c.ops) >= MinTreeSize /\ Len(c2.ops) >= MinTreeSize
    /\ \E point \in GetCrossoverPoint \cup GetCrossoverPointTraverse :
         LET swapped == SwapSubtrees(c, Subtree(c, point[1]), c2, Subtree(c2, point[2]))
         IN   /\ Fits(swapped[1]) /\ Fits(swapped[2])
              /\ c' = swapped[1]
              /\ c2' = swapped[2]
    /\ UNCHANGED node

\* one_point_crossover_t's type resolver: the arguments it finds in place, and
\* whether that is all of them.
CorrectTypes(o1, o2) ==
    {a \in 1..Argc(o1) \cap 1..Argc(o2) : Args[o1][a] = Args[o2][a]}
AllCorrect(o1, o2) == CorrectTypes(o1, o2) = 1..Argc(o1) \cup 1..Argc(o2)

\* one_point_crossover_t chooses its points as subtree_crossover_t does.
OnePoints == GetCrossoverPoint \cup GetCrossoverPointTraverse

\* one_point_crossover_t: the operators at the two points change places over
\* their arguments; a constant is made anew.  Where the resolver does not find
\* all arguments in place, the code indexes children, which lie last argument
\* first, by argument and exchanges others than it means to, by extents that
\* are stale after the first: the model has no step there.  Between operators
\* without arguments it reads the end of a child that is not there, and does
\* not use it.
OnePointCrossover ==
    /\ c2 # EmptyTree
    /\ \E point \in OnePoints :
         LET o1 == c.ops[point[1]].id
             o2 == c2.ops[point[2]].id
         IN  /\ AllCorrect(o1, o2)
             /\ c' = ModifyOperator(c, point[1], Op(o2, 1))
             /\ c2' = ModifyOperator(c2, point[2], Op(o1, 1))
    /\ UNCHANGED node

\* Either child may be the parent of what follows.
Grow ==
    /\ c2 # EmptyTree
    /\ c' \in {c, c2}
    /\ c2' = EmptyTree
    /\ UNCHANGED node

\* The tree goes through a byte array into a new one.
ThroughBytes ==
    /\ c # EmptyTree /\ node = 0 /\ c2 = EmptyTree
    /\ c' = FromByteArray(EmptyTree, ToByteArray(c))
    /\ UNCHANGED <<c2, node>>

Expression(i, new) == ReplaceSubtree(c, i, Subtree(c, i).e, new)

\* mutation_t::apply: mutate_point of any node.
MutatePoint ==
    /\ node = 0 /\ c2 = EmptyTree
    /\ \E i \in SelectSubtree(c) : \E new \in Generated(TypeAt(c, i), 1) : c' = Expression(i, new)
    /\ Fits(c')
    /\ UNCHANGED <<c2, node>>

-----------------------------------------------------------------------------
(* advanced_mutation_t: `for (c_node = 0; c_node < c.size(); c_node++)`.   *)

BeginNodes ==
    /\ c # EmptyTree /\ node = 0 /\ c2 = EmptyTree
    /\ node' = 1
    /\ UNCHANGED <<c, c2>>

\* The loop's increment and test, on the tree the node's mutation left.
Step(i) == node' = IF i + 1 <= Len(c'.ops) THEN i + 1 ELSE 0

\* The node is not chosen, or its mutation does not apply to it.
SkipNode ==
    /\ node > 0
    /\ UNCHANGED <<c, c2>>
    /\ Step(node)

\* `c_node += mutate_point(...)`, which returns a position, not a size.
NodeExpression ==
    /\ node > 0
    /\ \E new \in Generated(TypeAt(c, node), 1) :
         /\ c' = Expression(node, new)
         /\ Step(node + (node - 1) + Len(new.ops))
    /\ Fits(c')
    /\ UNCHANGED c2

\* Children from `from` on have moved by the difference in size.
Shift(children, from, by) ==
    [k \in 1..Len(children) |->
        IF k < from THEN children[k]
        ELSE [b |-> children[k].b + by, e |-> children[k].e + by]]

\* Mutated: last to first with the positions of before; where they are past the
\* end nothing is done.
RetypeArgsStale(tr, children, old, new, gen) ==
    FoldLeft(LAMBDA st, a :
        IF a > Argc(old) \/ Args[new][a] = Args[old][IF a > Argc(old) THEN 1 ELSE a] THEN st
        ELSE LET child == children[Len(children) + 1 - a]
             IN  IF child.e > Len(st.tree.ops) + 1 THEN st
                 ELSE [st EXCEPT !.tree = ReplaceSubtree(@, child.b, child.e, gen[a])],
        [tree |-> tr, children |-> children], Reverse([a \in 1..Argc(new) |-> a]))

\* Arguments of another type are replaced by generated trees, first to last.
RetypeArgs(tr, children, old, new, gen) ==
    FoldLeft(LAMBDA st, a :
        IF a > Argc(old) \/ Args[new][a] = Args[old][IF a > Argc(old) THEN 1 ELSE a] THEN st
        ELSE LET k == Len(st.children) + 1 - a
                 child == st.children[k]
                 size == Len(gen[a].ops)
             IN  [tree |-> ReplaceSubtree(st.tree, child.b, child.e, gen[a]),
                  children |-> [Shift(st.children, k + 1, size - (child.e - child.b))
                                  EXCEPT ![k].e = child.b + size]],
        [tree |-> tr, children |-> children], [a \in 1..Argc(new) |-> a])

\* Missing arguments go in front of the others, the last one first.
InsertArgs(tr, at, from, to, gen) ==
    FoldLeft(LAMBDA st, a :
                 [tree |-> InsertSubtree(st.tree, st.at, gen[a]),
                  at |-> st.at + Len(gen[a].ops)],
             [tree |-> tr, at |-> at], Reverse([k \in 1..(to - from + 1) |-> from + k - 1]))

\* ADJUST: another function of the type over the same arguments.
NodeAdjust ==
    /\ node > 0
    /\ ~IsValue(c.ops[node])
    /\ \E new \in NonTerminals(TypeAt(c, node)) : \E gen \in GeneratedArgs(new) :
         LET old == c.ops[node].id
             typed == RetypeArgs(c, FindChildExtends(c.ops, node, Argc(old)), old, new, gen)
             extra == Argc(old) - Argc(new)
             sized == IF extra > 0
                      THEN DeleteSubtree(typed.tree, typed.children[1].b, typed.children[extra].e)
                      ELSE InsertArgs(typed.tree, node + 1, Argc(old) + 1, Argc(new), gen).tree
         IN  c' = ModifyOperator(sized, node, Op(new, 1))
    /\ Fits(c')
    /\ Step(node)
    /\ UNCHANGED c2

\* SUB_FUNC: the expression becomes the first argument of its own type of a
\* new function.  Where no function of the type has one the code's search for
\* it never ends; the model has no step there.
NodeSubFunc ==
    /\ node > 0
    /\ \E new \in NonTerminals(TypeAt(c, node)) : \E gen \in GeneratedArgs(new) :
         \E pos \in 1..Argc(new) :
           /\ Args[new][pos] = TypeAt(c, node)
           /\ \A a \in 1..(pos - 1) : Args[new][a] # TypeAt(c, node)
           /\ LET size == Subtree(c, node).e - node
                  before == InsertArgs(c, node, pos + 1, Argc(new), gen)
                  after == InsertArgs(before.tree, before.at + size, 1, pos - 1, gen)
              IN  c' = InsertOperator(after.tree, node, Op(new, 1))
    /\ Fits(c')
    /\ Step(node)
    /\ UNCHANGED c2

\* JUMP_FUNC: the first argument of the expression's own type replaces it.
NodeJumpFunc ==
    /\ node > 0
    /\ LET o == c.ops[node].id IN
         \E pos \in 1..Argc(o) :
           /\ Args[o][pos] = Ret[o]
           /\ \A a \in 1..(pos - 1) : Args[o][a] # Ret[o]
           /\ LET child == FindChildExtends(c.ops, node, Argc(o))[Argc(o) + 1 - pos]
                  copy == CopySubtree(c, child.b, child.e)
                  without == DeleteSubtree(c, node, FindEndpoint(c.ops, node))
              IN  c' = InsertSubtree(without, node, copy)
    /\ Step(node)
    /\ UNCHANGED c2

\* Mutated: any other argument may be overwritten.
ReplaceableAny(o, from) == (1..Argc(o)) \ {from}

\* COPY: the arguments an argument may be copied over.
Replaceable(o, from) == {to \in 1..Argc(o) : to # from /\ Args[o][to] = Args[o][from]}

NodeCopy ==
    /\ node > 0
    /\ LET o == c.ops[node].id
           children == FindChildExtends(c.ops, node, Argc(o))
       IN  \E from \in 1..Argc(o) : \E to \in Replaceable(o, from) :
             LET source == children[Argc(o) + 1 - from]
                 target == children[Argc(o) + 1 - to]
             IN  c' = ReplaceSubtree(c, target.b, target.e, CopySubtree(c, source.b, source.e))
    /\ Fits(c')
    /\ Step(node)
    /\ UNCHANGED c2

Next ==
    \/ CopyParent \/ Crossover \/ OnePointCrossover \/ Grow \/ ThroughBytes
    \/ MutatePoint \/ BeginNodes \/ SkipNode
    \/ NodeExpression \/ NodeAdjust \/ NodeSubFunc \/ NodeJumpFunc \/ NodeCopy

-----------------------------------------------------------------------------
(* Properties.                                                             *)

\* Whatever sequence of crossovers and mutations a tree went through, it is
\* one complete, correctly typed expression of the population's root type:
\* the evaluator's unchecked reads rely on it.
StaysWellFormed == \A tr \in {c, c2} \ {EmptyTree} : WellFormed(tr, RootType)

\* ... whose evaluation uses for each constant the bytes created for it and
\* for each argument the result of its own subexpression, although operators
\* and bytes are moved separately and by separate counts.
StaysEvaluable == \A tr \in {c, c2} \ {EmptyTree} : EvaluatesAsDenoted(tr, RootType)

\* ... and drops every droppable value that an operator made on the way
\* exactly once: none leaks, none is dropped twice, and the tree's constants,
\* which other trees may share, are spared.
DropsWhatTheyMade == \A tr \in {c, c2} \ {EmptyTree} : DropsWhatItMade(tr)

\* check(), which debug builds run after crossover and mutation and throw when
\* it fails, accepts whatever breeding has made: no byte of a constant that was
\* removed stays behind, and none is missing.
CheckAccepts == \A tr \in {c, c2} \ {EmptyTree} : Check(tr)

=============================================================================
