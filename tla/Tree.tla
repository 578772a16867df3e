-------------------------------- MODULE Tree --------------------------------
(***************************************************************************)
(* tree_t (include/blt/gp/tree.h, src/tree.cpp): a program as a list of    *)
(* operators in prefix order, last argument first, beside a stack with the *)
(* bytes of its ephemeral values.  Every edit moves a stretch of operators *)
(* and, by its own count of bytes, a stretch of the stack; the evaluator   *)
(* walks the operators backwards over a stack of results.                  *)
(*                                                                         *)
(* A value of a type of size n is n words of the stack.  Where the type    *)
(* has a drop() function the last word is a pointer, whose bit 0 tells a   *)
(* tree's own constant, which lives on, from a result, which evaluation    *)
(* has to drop.  An operator carries, for the properties only, the tag of  *)
(* the value made for it.                                                  *)
(* Positions are those of TLA+ sequences, from 1; ends are exclusive.      *)
(***************************************************************************)
EXTENDS Integers, Sequences, SequencesExt, BagsExt

CONSTANTS
    Types,          \* the types of the program's typesystem
    Size,           \* aligned size of each type, in words
    Operators,      \* the operators of the program
    Ret, Args,      \* return type and argument types of each operator
    Ephemeral,      \* the operators whose value is kept in the tree
    Droppable       \* the types with a drop() function

ASSUME OperatorsAssumption ==
    /\ Ephemeral \subseteq Operators /\ Droppable \subseteq Types
    /\ \A t \in Types : Size[t] \in Nat \ {0}
    /\ \A o \in Operators : Ret[o] \in Types /\ Args[o] \in Seq(Types)
    /\ \A o \in Ephemeral : Args[o] = <<>>

Argc(o) == Len(Args[o])
NonTerminals(type) == {o \in Operators : Ret[o] = type /\ Argc(o) > 0}
Terminals(type) == {o \in Operators : Ret[o] = type /\ Argc(o) = 0}

\* op_container_t; is_value() is is_operator_ephemeral(id).
Op(o, g) == [id |-> o, tag |-> IF o \in Ephemeral THEN g ELSE 0]
IsValue(op) == op.id \in Ephemeral
TypeSize(op) == Size[Ret[op.id]]

\* The words of an operator's value.
Words(op) == [k \in 1..TypeSize(op) |-> [type |-> Ret[op.id], tag |-> op.tag, word |-> k]]

EmptyTree == [ops |-> <<>>, vals |-> <<>>]

\* handle_operator_inserted pushes the value of an ephemeral operator.
Inserted(op) == IF IsValue(op) THEN Words(op) ELSE <<>>

-----------------------------------------------------------------------------
(* Positions.                                                              *)

\* accumulate_type_sizes of the operators i..j-1.
TypeSizes(ops, i, j) ==
    LET sizes == [k \in 1..(j - i) |-> IF IsValue(ops[i + k - 1])
                                       THEN TypeSize(ops[i + k - 1]) ELSE 0]
    IN  FoldLeft(LAMBDA total, size : total + size, 0, sizes)

\* Mutated: the last child is left out.
FindEndpointShort(ops, start) ==
    LET left[k \in 0..Len(ops)] ==
            IF k = 0 THEN 0
            ELSE (IF left[k - 1] # 0 THEN left[k - 1] - 1 ELSE 0)
                   + Argc(ops[start + k - 1].id)
        length == CHOOSE k \in 1..(Len(ops) - start + 1) :
                      left[k] <= 1 /\ \A j \in 1..(k - 1) : left[j] > 1
    IN  start + length

\* find_endpoint: one past the subtree at start, by counting children left.
FindEndpoint(ops, start) ==
    LET left[k \in 0..Len(ops)] ==
            IF k = 0 THEN 0
            ELSE (IF left[k - 1] # 0 THEN left[k - 1] - 1 ELSE 0)
                   + Argc(ops[start + k - 1].id)
        length == CHOOSE k \in 1..(Len(ops) - start + 1) :
                      left[k] = 0 /\ \A j \in 1..(k - 1) : left[j] # 0
    IN  start + length

\* find_child_extends: the children of parent in the order they lie, so that
\* argument a (from 1) is child argc + 1 - a.
FindChildExtends(ops, parent, argc) ==
    FoldLeft(LAMBDA found, k :
                 LET first == IF found = <<>> THEN parent + 1 ELSE Last(found).e
                 IN  Append(found, [b |-> first, e |-> FindEndpoint(ops, first)]),
             <<>>, [k \in 1..argc |-> k])

-----------------------------------------------------------------------------
(* Edits.                                                                  *)

First(s, n) == SubSeq(s, 1, n)
FromEnd(s, n) == SubSeq(s, Len(s) - n + 1, Len(s))

\* ops with i..j-1 replaced.
SpliceOps(ops, i, j, new) == First(ops, i - 1) \o new \o FromEnd(ops, Len(ops) - j + 1)

CopySubtree(tr, i, j) ==
    LET after == TypeSizes(tr.ops, j, Len(tr.ops) + 1)
        for == TypeSizes(tr.ops, i, j)
    IN  [ops |-> SubSeq(tr.ops, i, j - 1),
         vals |-> FromEnd(First(tr.vals, Len(tr.vals) - after), for)]

\* Mutated: the bytes after the subtree are counted from its begin.
ReplaceSubtreeWrongAfter(tr, i, j, other) ==
    LET after == TypeSizes(tr.ops, i, Len(tr.ops) + 1)
    IN  [ops |-> SpliceOps(tr.ops, i, j, other.ops),
         vals |-> First(tr.vals, Len(tr.vals) - after) \o other.vals
                    \o FromEnd(tr.vals, after)]

ReplaceSubtree(tr, i, j, other) ==
    LET after == TypeSizes(tr.ops, j, Len(tr.ops) + 1)
        for == TypeSizes(tr.ops, i, j)
    IN  [ops |-> SpliceOps(tr.ops, i, j, other.ops),
         vals |-> First(tr.vals, Len(tr.vals) - after - for) \o other.vals
                    \o FromEnd(tr.vals, after)]

\* Mutated: the operators go and their bytes stay.
DeleteSubtreeKeepsBytes(tr, i, j) ==
    [ops |-> SpliceOps(tr.ops, i, j, <<>>), vals |-> tr.vals]

DeleteSubtree(tr, i, j) ==
    LET after == TypeSizes(tr.ops, j, Len(tr.ops) + 1)
        for == TypeSizes(tr.ops, i, j)
    IN  [ops |-> SpliceOps(tr.ops, i, j, <<>>),
         vals |-> First(tr.vals, Len(tr.vals) - after - for) \o FromEnd(tr.vals, after)]

\* insert_subtree; it returns i + the size of the other tree.
InsertSubtree(tr, i, other) ==
    LET after == TypeSizes(tr.ops, i, Len(tr.ops) + 1)
    IN  [ops |-> SpliceOps(tr.ops, i, i, other.ops),
         vals |-> First(tr.vals, Len(tr.vals) - after) \o other.vals
                    \o FromEnd(tr.vals, after)]

\* swap_subtrees of our subtree a and the other tree's b.
SwapSubtrees(ours, a, theirs, b) ==
    LET for1 == TypeSizes(ours.ops, a.b, a.e)
        for2 == TypeSizes(theirs.ops, b.b, b.e)
        total1 == for1 + TypeSizes(ours.ops, a.e, Len(ours.ops) + 1)
        total2 == for2 + TypeSizes(theirs.ops, b.e, Len(theirs.ops) + 1)
        moved1 == FromEnd(ours.vals, total1)
        moved2 == FromEnd(theirs.vals, total2)
        sub1 == SubSeq(ours.ops, a.b, a.e - 1)
        sub2 == SubSeq(theirs.ops, b.b, b.e - 1)
    IN  << [ops |-> SpliceOps(ours.ops, a.b, a.e, sub2),
            vals |-> First(ours.vals, Len(ours.vals) - total1) \o First(moved2, for2)
                       \o FromEnd(moved1, total1 - for1)],
           [ops |-> SpliceOps(theirs.ops, b.b, b.e, sub1),
            vals |-> First(theirs.vals, Len(theirs.vals) - total2) \o First(moved1, for1)
                       \o FromEnd(moved2, total2 - for2)] >>

\* insert_operator: the value goes below those of the operators at and after i.
InsertOperator(tr, i, op) ==
    LET after == IF IsValue(op) THEN TypeSizes(tr.ops, i, Len(tr.ops) + 1) ELSE 0
    IN  [ops |-> SpliceOps(tr.ops, i, i, <<op>>),
         vals |-> First(tr.vals, Len(tr.vals) - after) \o Inserted(op)
                    \o FromEnd(tr.vals, after)]

\* modify_operator.
ModifyOperator(tr, i, op) ==
    LET after == TypeSizes(tr.ops, i + 1, Len(tr.ops) + 1)
        old == IF IsValue(tr.ops[i]) THEN TypeSize(tr.ops[i]) ELSE 0
    IN  [ops |-> [tr.ops EXCEPT ![i] = op],
         vals |-> First(tr.vals, Len(tr.vals) - after - old) \o Inserted(op)
                    \o FromEnd(tr.vals, after)]

\* emplace_operator, as the generators call it.
EmplaceOperator(tr, op) == [ops |-> Append(tr.ops, op), vals |-> tr.vals \o Inserted(op)]

-----------------------------------------------------------------------------
(* Byte arrays.                                                            *)

\* to_byte_array: the operators' ids and the values, each with its length.
ToByteArray(tr) == <<Len(tr.ops)>> \o tr.ops \o <<Len(tr.vals)>> \o tr.vals

\* from_byte_array adds to what the tree holds.
FromByteArray(tr, in) ==
    LET opsToRead == in[1]
        valSize == in[opsToRead + 2]
    IN  [ops |-> tr.ops \o SubSeq(in, 2, opsToRead + 1),
         vals |-> tr.vals \o SubSeq(in, opsToRead + 3, opsToRead + 2 + valSize)]

-----------------------------------------------------------------------------
(* The evaluator, on terms in place of values: every word of a result is   *)
(* tagged with the term that produced it.                                  *)

ResultWords(type, term) == [k \in 1..Size[type] |-> [of |-> term, word |-> k]]
Garbage == [op |-> "garbage", tag |-> 0, args |-> <<>>]

SumSizes(types) == FoldLeft(LAMBDA total, t : total + Size[t], 0, types)

\* stack_allocator::from: the object that ends `offset` words below the top,
\* or garbage if the words there are not those of one object.
From(stack, offset, type) ==
    LET end == Len(stack) - offset
        words == SubSeq(stack, end - Size[type] + 1, end)
    IN  IF end \in Size[type]..Len(stack) /\ words = ResultWords(type, words[1].of)
        THEN words[1].of ELSE Garbage

\* Mutated: the first argument is read from the top of the stack.
ByteOffsetFromTop(args, a) == SumSizes(SubSeq(args, 1, a - 1))

\* call_with::getByteOffset: what lies above argument a on the stack.
ByteOffset(args, a) == SumSizes(SubSeq(args, a + 1, Len(args)))

\* Bit 0 of the pointer that access_pointer finds behind an object: set by
\* handle_operator_inserted, cleared by the push of a result.
EphemeralBit(term) == term.op \in Ephemeral

\* call_destructors: its offset starts below the first argument and goes up by
\* the size of each argument it has passed.
DropOffset(args, a) == SumSizes(args) - Size[args[1]] - SumSizes(SubSeq(args, 1, a - 1))

\* Mutated: the tree's constants are dropped with the results.
DroppedAlways(term) == TRUE

\* call_drop and evaluation_ref spare the tree's constants.
Dropped(term) == ~EphemeralBit(term)

CallDestructors(stack, args) ==
    FoldLeft(LAMBDA dropped, a :
                 LET term == From(stack, DropOffset(args, a), args[a])
                 IN  IF args[a] \in Droppable /\ Dropped(term)
                     THEN Append(dropped, term) ELSE dropped,
             <<>>, [a \in 1..Len(args) |-> a])

\* call_with::operator(): the call, the drops and the pop of the arguments.  A
\* function makes a value of its own.
Call(st, op) ==
    LET args == Args[op.id]
        term == [op |-> op.id, tag |-> 0,
                 args |-> [a \in 1..Len(args) |-> From(st.stack, ByteOffset(args, a), args[a])]]
    IN  [st EXCEPT !.stack = First(@, Len(@) - SumSizes(args)),
                   !.result = term,
                   !.dropped = FoldLeft(BagAdd, @, CallDestructors(st.stack, args))]

\* call_jmp_table and execute: the operator of that id is called and what it
\* returns is pushed.
Execute(st, op) ==
    LET called == Call(st, op) type == Ret[op.id]
    IN  [called EXCEPT !.stack = @ \o ResultWords(type, called.result),
                       !.made = IF type \in Droppable THEN BagAdd(@, called.result) ELSE @]

\* The words of the value that lies `total` words below the end of the values.
PushValue(stack, vals, total, op) ==
    LET words == First(FromEnd(vals, total), TypeSize(op))
        term == [op |-> op.id, tag |-> words[1].tag, args |-> <<>>]
    IN  stack \o (IF words = Words([op EXCEPT !.tag = words[1].tag])
                  THEN ResultWords(Ret[op.id], term)
                  ELSE ResultWords(Ret[op.id], Garbage))

\* make_execution_lambda; made and dropped are the droppable values that the
\* operators' functions returned and that were dropped.
Evaluate(tr) ==
    FoldLeft(LAMBDA st, op :
                 IF IsValue(op)
                 THEN [st EXCEPT !.total = @ + TypeSize(op),
                                 !.stack = PushValue(@, tr.vals, st.total + TypeSize(op), op)]
                 ELSE Execute(st, op),
             [total |-> 0, stack |-> <<>>, result |-> Garbage,
              made |-> EmptyBag, dropped |-> EmptyBag], Reverse(tr.ops))

\* ~evaluation_ref: it was told whether the root is one of the tree's constants.
Released(root) == Ret[root.id] \in Droppable /\ ~IsValue(root)

\* get_evaluation_ref to the end of the evaluation_ref it returns.
GetEvaluationRef(tr) ==
    LET done == Evaluate(tr)
        value == From(done.stack, 0, Ret[tr.ops[1].id])
    IN  [value |-> value, made |-> done.made,
         dropped |-> IF Released(tr.ops[1]) THEN BagAdd(done.dropped, value) ELSE done.dropped]

\* tree_t::check: the values are as many words as the operators have, and an
\* evaluation that takes each off the stack leaves one result's worth of words.
Check(tr) ==
    LET transfer(st, op) ==
            [st EXCEPT !.left = First(@, Len(@) - TypeSize(op)),
                       !.stack = PushValue(@, st.left, TypeSize(op), op)]
        done == FoldLeft(LAMBDA st, op : IF IsValue(op) THEN transfer(st, op) ELSE Execute(st, op),
                         [left |-> tr.vals, stack |-> <<>>, result |-> Garbage,
                          made |-> EmptyBag, dropped |-> EmptyBag], Reverse(tr.ops))
    IN  /\ Len(tr.vals) = TypeSizes(tr.ops, 1, Len(tr.ops) + 1)
        /\ Len(done.stack) = TypeSize(tr.ops[1])

-----------------------------------------------------------------------------
(* Reference: the term a list of operators denotes, read forwards.         *)

\* [term, next]: the term of the given type that begins at i, if there is one.
Denotation(ops) ==
    LET none == [term |-> "none", next |-> 0]
        read[i \in 0..(Len(ops) + 1), type \in Types] ==
            IF i \notin 1..Len(ops) THEN none
            ELSE IF Ret[ops[i].id] # type THEN none
            ELSE LET args == Args[ops[i].id]
                     last == FoldRight(LAMBDA t, st :
                                 LET r == read[st.next, t]
                                 IN  [terms |-> <<r.term>> \o st.terms, next |-> r.next],
                                 args, [terms |-> <<>>, next |-> i + 1])
                 IN  IF last.next = 0 THEN none
                     ELSE [term |-> [op |-> ops[i].id, tag |-> ops[i].tag, args |-> last.terms],
                           next |-> last.next]
    IN  [type \in Types |-> read[1, type]]

\* The whole list is one expression of the type.
WellFormed(tr, type) == Denotation(tr.ops)[type].next = Len(tr.ops) + 1

\* Evaluation yields the expression's own value with its own constants, and
\* leaves nothing else on the stack.
EvaluatesAsDenoted(tr, type) ==
    Evaluate(tr).stack = ResultWords(type, Denotation(tr.ops)[type].term)

\* Each droppable value that evaluation made is dropped once, by the time the
\* result is released, and no constant of the tree is.
DropsWhatItMade(tr) == LET ref == GetEvaluationRef(tr) IN ref.made = ref.dropped

=============================================================================
