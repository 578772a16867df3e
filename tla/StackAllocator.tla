--------------------------- MODULE StackAllocator ---------------------------
(***************************************************************************)
(* stack_allocator (include/blt/gp/stack.h) over aligned_allocator: the    *)
(* buffer of each object, what is copied between buffers and when one is   *)
(* allocated and freed.                                                    *)
(*                                                                         *)
(* Sizes are in words of MAX_ALIGNMENT bytes; all sizes of the program are *)
(* multiples of it.  A caller never asks for more than a stack stores: the *)
(* release build does not check, and a debug build aborts.                 *)
(***************************************************************************)
EXTENDS Integers, Sequences

CONSTANTS
    Stacks,         \* the stack_allocator objects there may be
    Buffers,        \* the addresses that aligned_alloc may return
    Null,           \* nullptr
    Words,          \* aligned units of data
    Unset,          \* a word that nothing was written to
    MaxWords        \* bound on a stack's capacity, in words

ASSUME StackAllocatorAssumption ==
    /\ Null \notin Buffers
    /\ Unset \notin Words
    /\ MaxWords \in Nat

VARIABLES
    alive,          \* the objects that are constructed
    obj,            \* data_, bytes_stored and size_ of each
    heap            \* the words of each buffer, <<>> of one not allocated

vars == <<alive, obj, heap>>

Cells == Words \cup {Unset}
Sizes == 0..MaxWords
Empty == [data |-> Null, stored |-> 0, size |-> 0]

Init ==
    /\ alive = {}
    /\ obj = [a \in Stacks |-> Empty]
    /\ heap = [b \in Buffers |-> <<>>]

-----------------------------------------------------------------------------
(* Buffers.                                                                *)

\* aligned_alloc.
Free == {b \in Buffers : heap[b] = <<>>}

\* The first n words of a buffer, wherever they are.
Stored(o) == [k \in 1..o.stored |-> heap[o.data][k]]

\* n words of which the first are s; nothing was written to the others.
Buffer(s, n) == [k \in 1..n |-> IF k <= Len(s) THEN s[k] ELSE Unset]

\* memcpy to data_ + at.
Written(buffer, at, words) ==
    [k \in 1..Len(buffer) |->
        IF at < k /\ k <= at + Len(words) THEN words[k - at] ELSE buffer[k]]

Freed(h, b) == [x \in Buffers |-> IF x = b THEN <<>> ELSE h[x]]

\* Mutated: the words stored so far stay behind in the old buffer.
GrownEmpty(o, b, n) == [Freed(heap, o.data) EXCEPT ![b] = Buffer(<<>>, n)]

\* expand_raw: the heap once o's words lie in the new buffer b of size n.
Grown(o, b, n) == [Freed(heap, o.data) EXCEPT ![b] = Buffer(Stored(o), n)]

\* Where n words more go: into o's buffer if there is room, else into another.
Room(o, n) == IF o.stored + n <= o.size THEN {o.data} ELSE Free

\* The object and the heap once words are on top of o, in buffer b.
AppendedObj(o, n, b) ==
    [data |-> b, stored |-> o.stored + n, size |-> IF b = o.data THEN o.size ELSE o.size + n]

AppendedHeap(o, words, b) ==
    [(IF b = o.data THEN heap ELSE Grown(o, b, o.size + Len(words)))
        EXCEPT ![b] = Written(@, o.stored, words)]

MayHold(o, n) == o.stored + n <= o.size \/ o.size + n <= MaxWords

-----------------------------------------------------------------------------
(* Construction, assignment, destruction.                                  *)

Construct(a) ==
    /\ a \notin alive
    /\ alive' = alive \cup {a}
    /\ UNCHANGED <<obj, heap>>

\* The copy is as large as the original; of an empty stack it has no buffer.
CopyConstruct(a, b) ==
    /\ a \notin alive /\ b \in alive
    /\ alive' = alive \cup {a}
    /\ IF obj[b].data = Null \/ obj[b].stored = 0 THEN UNCHANGED <<obj, heap>>
       ELSE \E x \in Free :
              /\ heap' = [heap EXCEPT ![x] = Buffer(Stored(obj[b]), obj[b].size)]
              /\ obj' = [obj EXCEPT ![a] = [obj[b] EXCEPT !.data = x]]

\* Mutated: the moved object keeps its pointer.
MoveConstructShares(a, b) ==
    /\ a \notin alive /\ b \in alive
    /\ alive' = alive \cup {a}
    /\ obj' = [obj EXCEPT ![a] = obj[b], ![b].stored = 0]
    /\ UNCHANGED heap

MoveConstruct(a, b) ==
    /\ a \notin alive /\ b \in alive
    /\ alive' = alive \cup {a}
    /\ obj' = [obj EXCEPT ![a] = obj[b], ![b] = Empty]
    /\ UNCHANGED heap

\* The two objects exchange their buffers.
MoveAssign(a, b) ==
    /\ a \in alive /\ b \in alive
    /\ obj' = [obj EXCEPT ![a] = obj[b], ![b] = obj[a]]
    /\ UNCHANGED <<alive, heap>>

Destroy(a) ==
    /\ a \in alive
    /\ alive' = alive \ {a}
    /\ obj' = [obj EXCEPT ![a] = Empty]
    /\ heap' = Freed(heap, obj[a].data)

-----------------------------------------------------------------------------
(* Words.                                                                  *)

\* push, insert and the three copy_from end like this.
PutOnTop(a, words) ==
    /\ words # <<>> /\ MayHold(obj[a], Len(words))
    /\ \E b \in Room(obj[a], Len(words)) :
         /\ obj' = [obj EXCEPT ![a] = AppendedObj(@, Len(words), b)]
         /\ heap' = AppendedHeap(obj[a], words, b)
    /\ UNCHANGED alive

\* push, and copy_from of memory that is no stack's.
Push(a, words) == a \in alive /\ PutOnTop(a, words)

\* The n words of b that lie `offset` words below its top.
Source(b, n, offset) ==
    [k \in 1..n |-> heap[obj[b].data][obj[b].stored - n - offset + k]]

\* insert (n is all of b, and offset 0) and copy_from with and without offset.
CopyFrom(a, b, n, offset) ==
    /\ a \in alive /\ b \in alive
    /\ n + offset <= obj[b].stored
    /\ PutOnTop(a, Source(b, n, offset))

\* pop, pop_bytes and, with all words, reset.
PopBytes(a, n) ==
    /\ a \in alive /\ n <= obj[a].stored
    /\ obj' = [obj EXCEPT ![a].stored = @ - n]
    /\ UNCHANGED <<alive, heap>>

\* transfer_bytes: copy_from, then pop_bytes.
TransferBytes(a, b, n) ==
    /\ a \in alive /\ b \in alive /\ a # b
    /\ n \in 1..obj[a].stored /\ MayHold(obj[b], n)
    /\ \E x \in Room(obj[b], n) :
         /\ obj' = [obj EXCEPT ![a].stored = @ - n, ![b] = AppendedObj(@, n, x)]
         /\ heap' = AppendedHeap(obj[b], Source(a, n, 0), x)
    /\ UNCHANGED alive

\* reserve, with `stored` words afterwards.
Reserved(a, n, stored) ==
    IF n <= obj[a].size
    THEN obj' = [obj EXCEPT ![a].stored = stored] /\ UNCHANGED heap
    ELSE \E b \in Free :
           /\ obj' = [obj EXCEPT ![a] = [data |-> b, stored |-> stored, size |-> n]]
           /\ heap' = Grown(obj[a], b, n)

Reserve(a, n) == a \in alive /\ Reserved(a, n, obj[a].stored) /\ UNCHANGED alive

\* resize: words beyond those stored are whatever the buffer holds.
Resize(a, n) == a \in alive /\ Reserved(a, n, n) /\ UNCHANGED alive

Next ==
    \/ \E a \in Stacks : Construct(a) \/ Destroy(a)
    \/ \E a, b \in Stacks : CopyConstruct(a, b) \/ MoveConstruct(a, b) \/ MoveAssign(a, b)
    \/ \E a \in Stacks : \E n \in Sizes :
         (\E words \in [1..n -> Words] : Push(a, words)) \/ PopBytes(a, n)
           \/ Reserve(a, n) \/ Resize(a, n)
    \/ \E a, b \in Stacks : \E n, offset \in Sizes : CopyFrom(a, b, n, offset)
    \/ \E a, b \in Stacks : \E n \in Sizes : TransferBytes(a, b, n)

Spec == Init /\ [][Next]_vars

-----------------------------------------------------------------------------
\* Through any sequence of copies, moves, growth and destruction, every buffer
\* that is allocated belongs to exactly one living object, which knows its
\* size: none leaks, is freed twice or is written through two objects.
BuffersOwnedOnce ==
    /\ \A a \in Stacks : obj[a].data # Null =>
         a \in alive /\ obj[a].size # 0 /\ Len(heap[obj[a].data]) = obj[a].size
    /\ \A a, b \in Stacks : obj[a].data = obj[b].data /\ obj[a].data # Null => a = b
    /\ \A x \in Buffers : heap[x] # <<>> => \E a \in Stacks : obj[a].data = x

\* An operation changes the words of the stacks it is called on, as a stack
\* would, and of no other, although words are moved between buffers.
Abstract == INSTANCE WordStacks WITH contents <- [a \in Stacks |-> Stored(obj[a])]
ImplementsWordStacks == Abstract!Spec

=============================================================================
