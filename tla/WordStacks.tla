----------------------------- MODULE WordStacks -----------------------------
(***************************************************************************)
(* What stack_allocator promises (include/blt/gp/stack.h): independent     *)
(* stacks of words, whatever buffers they lie in.                          *)
(***************************************************************************)
EXTENDS Integers, Sequences

CONSTANTS
    Stacks,         \* the stack_allocator objects there may be
    Words,          \* aligned units of data
    Unset,          \* a word that nothing was written to
    MaxWords        \* bound on a stack's capacity, in words

VARIABLES
    alive,          \* the objects that are constructed
    contents        \* of each, bottom first

vars == <<alive, contents>>

Cells == Words \cup {Unset}

Top(s, n) == SubSeq(s, Len(s) - n + 1, Len(s))
Bottom(s, n) == SubSeq(s, 1, n)

Init ==
    /\ alive = {}
    /\ contents = [a \in Stacks |-> <<>>]

Become(a, s) == contents' = [contents EXCEPT ![a] = s]

Construct(a) ==
    /\ a \notin alive
    /\ alive' = alive \cup {a}
    /\ UNCHANGED contents

CopyConstruct(a, b) ==
    /\ a \notin alive /\ b \in alive
    /\ alive' = alive \cup {a}
    /\ Become(a, contents[b])

MoveConstruct(a, b) ==
    /\ a \notin alive /\ b \in alive
    /\ alive' = alive \cup {a}
    /\ contents' = [contents EXCEPT ![a] = contents[b], ![b] = <<>>]

MoveAssign(a, b) ==
    /\ a \in alive /\ b \in alive
    /\ contents' = [contents EXCEPT ![a] = contents[b], ![b] = contents[a]]
    /\ UNCHANGED alive

Destroy(a) ==
    /\ a \in alive
    /\ alive' = alive \ {a}
    /\ Become(a, <<>>)

\* Words are added on top: another stack's, or anything.
Push(a, words) ==
    /\ a \in alive
    /\ Become(a, contents[a] \o words)
    /\ UNCHANGED alive

CopyFrom(a, b, n, offset) ==
    /\ b \in alive /\ n + offset <= Len(contents[b])
    /\ Push(a, Top(Bottom(contents[b], Len(contents[b]) - offset), n))

Pop(a, n) ==
    /\ a \in alive /\ n <= Len(contents[a])
    /\ Become(a, Bottom(contents[a], Len(contents[a]) - n))
    /\ UNCHANGED alive

Transfer(a, b, n) ==
    /\ a \in alive /\ b \in alive \ {a} /\ n <= Len(contents[a])
    /\ contents' = [contents EXCEPT ![a] = Bottom(@, Len(@) - n), ![b] = @ \o Top(contents[a], n)]
    /\ UNCHANGED alive

\* What a larger stack holds on top is not said.
Resize(a, n) ==
    /\ a \in alive
    /\ \E s \in [1..n -> Cells] :
         /\ \A k \in 1..n : k <= Len(contents[a]) => s[k] = contents[a][k]
         /\ Become(a, s)
    /\ UNCHANGED alive

Sizes == 0..MaxWords

Next ==
    \/ \E a \in Stacks : Construct(a) \/ Destroy(a)
    \/ \E a, b \in Stacks : CopyConstruct(a, b) \/ MoveConstruct(a, b) \/ MoveAssign(a, b)
    \/ \E a \in Stacks : \E n \in Sizes :
         (\E words \in [1..n -> Words] : Push(a, words)) \/ Pop(a, n) \/ Resize(a, n)
    \/ \E a, b \in Stacks : \E n, offset \in Sizes : CopyFrom(a, b, n, offset)
    \/ \E a, b \in Stacks : \E n \in Sizes : Transfer(a, b, n)

Spec == Init /\ [][Next]_vars

=============================================================================
