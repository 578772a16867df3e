------------------------ MODULE StackAllocatorProofs ------------------------
(***************************************************************************)
(* stack_allocator keeps every buffer with one owner, and its objects are  *)
(* independent stacks of words: for any number of objects and buffers.     *)
(***************************************************************************)
EXTENDS StackAllocator, TLAPS

Objects == [data : Buffers \cup {Null}, stored : Nat, size : Nat]

TypeOK ==
    /\ alive \subseteq Stacks
    /\ obj \in [Stacks -> Objects]
    /\ heap \in [Buffers -> Seq(Cells)]

\* An object without a buffer holds nothing, and none holds more than fits.
Sound ==
    \A a \in Stacks :
        /\ obj[a].stored <= obj[a].size
        /\ obj[a].data = Null <=> obj[a].size = 0

Inv == TypeOK /\ Sound /\ BuffersOwnedOnce

-----------------------------------------------------------------------------
(* The buffers that the operations make.                                   *)

LEMMA NonEmpty ==
    ASSUME NEW s \in Seq(Cells)
    PROVE  s # <<>> <=> Len(s) # 0
OBVIOUS

LEMMA BufferIsSequence ==
    ASSUME NEW s \in Seq(Cells), NEW n \in Nat
    PROVE  Buffer(s, n) \in Seq(Cells) /\ Len(Buffer(s, n)) = n
BY DEF Buffer, Cells

LEMMA WrittenIsSequence ==
    ASSUME NEW buffer \in Seq(Cells), NEW words \in Seq(Cells), NEW at \in Nat
    PROVE  /\ Written(buffer, at, words) \in Seq(Cells)
           /\ Len(Written(buffer, at, words)) = Len(buffer)
<1>1. \A k \in 1..Len(buffer) : at < k /\ k <= at + Len(words) => k - at \in 1..Len(words)
  OBVIOUS
<1> QED BY <1>1 DEF Written

\* What is stored lies within the buffer.
LEMMA StoredIsSequence ==
    ASSUME Inv, NEW a \in Stacks
    PROVE  Stored(obj[a]) \in Seq(Cells) /\ Len(Stored(obj[a])) = obj[a].stored
<1> USE DEF Inv, TypeOK, Sound, BuffersOwnedOnce, Objects
<1>1. CASE obj[a].data = Null
  <2>1. obj[a].stored = 0
    BY <1>1
  <2> QED BY <2>1 DEF Stored
<1>2. CASE obj[a].data # Null
  <2>1. heap[obj[a].data] \in Seq(Cells) /\ Len(heap[obj[a].data]) = obj[a].size
    BY <1>2
  <2>2. \A k \in 1..obj[a].stored : heap[obj[a].data][k] \in Cells
    BY <2>1
  <2> QED BY <2>2 DEF Stored
<1> QED BY <1>1, <1>2

LEMMA GrownIsSequence ==
    ASSUME Inv, NEW a \in Stacks, NEW n \in Nat
    PROVE  Buffer(Stored(obj[a]), n) \in Seq(Cells) /\ Len(Buffer(Stored(obj[a]), n)) = n
<1>1. Stored(obj[a]) \in Seq(Cells)
  BY StoredIsSequence
<1> QED BY <1>1, BufferIsSequence

LEMMA SourceIsSequence ==
    ASSUME Inv, NEW b \in Stacks, NEW n \in Nat, NEW offset \in Nat,
           n + offset <= obj[b].stored
    PROVE  Source(b, n, offset) \in Seq(Cells) /\ Len(Source(b, n, offset)) = n
<1> USE DEF Inv, TypeOK, Sound, BuffersOwnedOnce, Objects
<1>1. CASE obj[b].data = Null
  <2>1. n = 0
    BY <1>1
  <2> QED BY <2>1 DEF Source
<1>2. CASE obj[b].data # Null
  <2>1. heap[obj[b].data] \in Seq(Cells) /\ Len(heap[obj[b].data]) = obj[b].size
    BY <1>2
  <2>2. \A k \in 1..n : heap[obj[b].data][obj[b].stored - n - offset + k] \in Cells
    BY <2>1
  <2> QED BY <2>2 DEF Source
<1> QED BY <1>1, <1>2

-----------------------------------------------------------------------------
(* The two ways in which words come to lie in a buffer.                    *)

\* The buffers stay, and the length of each.
LEMMA InPlace ==
    ASSUME Inv, alive' = alive,
           obj' \in [Stacks -> Objects],
           \A a \in Stacks : /\ obj'[a].data = obj[a].data
                             /\ obj'[a].size = obj[a].size
                             /\ obj'[a].stored <= obj[a].size,
           heap' \in [Buffers -> Seq(Cells)],
           \A b \in Buffers : Len(heap'[b]) = Len(heap[b])
    PROVE  Inv'
<1> USE DEF Inv, TypeOK, Sound, BuffersOwnedOnce, Objects
<1>1. TypeOK' /\ Sound'
  OBVIOUS
<1>2. \A b \in Buffers : heap'[b] # <<>> => heap[b] # <<>>
  BY NonEmpty
<1> QED BY <1>1, <1>2

\* One object gets another buffer, and its old one is freed.
LEMMA Moved ==
    ASSUME Inv, NEW a \in alive, NEW b \in Free, NEW s \in Seq(Cells),
           Len(s) # 0, alive' = alive,
           obj' \in [Stacks -> Objects],
           obj'[a].data = b, obj'[a].size = Len(s), obj'[a].stored <= Len(s),
           \A x \in Stacks \ {a} : /\ obj'[x].data = obj[x].data
                                   /\ obj'[x].size = obj[x].size
                                   /\ obj'[x].stored <= obj[x].size,
           heap' = [Freed(heap, obj[a].data) EXCEPT ![b] = s]
    PROVE  Inv'
<1> USE DEF Inv, TypeOK, Sound, BuffersOwnedOnce, Objects, Free, Freed
<1>a. a \in Stacks /\ b \in Buffers /\ heap[b] = <<>> /\ b # Null /\ Null \notin Buffers
  BY StackAllocatorAssumption
<1>1. /\ heap' \in [Buffers -> Seq(Cells)]
      /\ heap'[b] = s
      /\ \A x \in Buffers \ {b} :
           heap'[x] = IF x = obj[a].data THEN <<>> ELSE heap[x]
  BY <1>a
<1>2. \A x \in Stacks : obj[x].data # b
  <2> SUFFICES ASSUME NEW x \in Stacks, obj[x].data = b PROVE FALSE
    OBVIOUS
  <2>1. obj[x].size # 0 /\ Len(heap[b]) = obj[x].size
    BY <1>a
  <2> QED BY <2>1, <1>a
<1>3. TypeOK' /\ Sound'
  <2>1. TypeOK'
    BY <1>1
  <2>2. obj'[a].stored <= obj'[a].size /\ (obj'[a].data = Null <=> obj'[a].size = 0)
    BY <1>a
  <2>3. ASSUME NEW x \in Stacks \ {a}
        PROVE  obj'[x].stored <= obj'[x].size /\ (obj'[x].data = Null <=> obj'[x].size = 0)
    BY <2>3
  <2> QED BY <2>1, <2>2, <2>3
<1>4. \A x \in Stacks : obj'[x].data # Null =>
         x \in alive' /\ obj'[x].size # 0 /\ Len(heap'[obj'[x].data]) = obj'[x].size
  <2> SUFFICES ASSUME NEW x \in Stacks, obj'[x].data # Null
               PROVE  x \in alive' /\ obj'[x].size # 0
                        /\ Len(heap'[obj'[x].data]) = obj'[x].size
    OBVIOUS
  <2>1. CASE x = a
    BY <2>1, <1>1
  <2>2. CASE x # a
    <3>1. obj'[x].data = obj[x].data /\ obj'[x].size = obj[x].size
      BY <2>2
    <3>2. obj[x].data # obj[a].data /\ obj[x].data # b /\ obj[x].data \in Buffers
      BY <3>1, <2>2, <1>a, <1>2
    <3>3. heap'[obj[x].data] = heap[obj[x].data]
      BY <3>2, <1>1
    <3> QED BY <3>1, <3>2, <3>3
  <2> QED BY <2>1, <2>2
<1>5. \A x, y \in Stacks : obj'[x].data = obj'[y].data /\ obj'[x].data # Null => x = y
  <2> SUFFICES ASSUME NEW x \in Stacks, NEW y \in Stacks,
                      obj'[x].data = obj'[y].data, obj'[x].data # Null
               PROVE  x = y
    OBVIOUS
  <2>1. CASE x # a /\ y # a
    BY <2>1
  <2>2. CASE x = a /\ y # a
    BY <2>2, <1>2
  <2>3. CASE x # a /\ y = a
    BY <2>3, <1>2
  <2> QED BY <2>1, <2>2, <2>3
<1>6. \A x \in Buffers : heap'[x] # <<>> => \E y \in Stacks : obj'[y].data = x
  <2> SUFFICES ASSUME NEW x \in Buffers, heap'[x] # <<>>
               PROVE  \E y \in Stacks : obj'[y].data = x
    OBVIOUS
  <2>1. CASE x = b
    BY <2>1, <1>a
  <2>2. CASE x # b
    <3>1. x # obj[a].data /\ heap[x] # <<>>
      BY <2>2, <1>1
    <3>2. PICK y \in Stacks : obj[y].data = x
      BY <3>1
    <3> QED BY <3>1, <3>2
  <2> QED BY <2>1, <2>2
<1> QED BY <1>3, <1>4, <1>5, <1>6

-----------------------------------------------------------------------------
(* The operations.                                                         *)

\* Objects that are not constructed have no buffer.
LEMMA NotAlive ==
    ASSUME Inv, NEW a \in Stacks, a \notin alive
    PROVE  obj[a].data = Null /\ obj[a].stored = 0 /\ obj[a].size = 0
BY DEF Inv, TypeOK, Sound, BuffersOwnedOnce, Objects

LEMMA ConstructKeeps ==
    ASSUME Inv, NEW a \in Stacks, Construct(a)
    PROVE  Inv'
BY DEF Construct, Inv, TypeOK, Sound, BuffersOwnedOnce

LEMMA CopyConstructKeeps ==
    ASSUME Inv, NEW a \in Stacks, NEW b \in Stacks, CopyConstruct(a, b)
    PROVE  Inv'
<1>1. CASE obj[b].data = Null \/ obj[b].stored = 0
  BY <1>1 DEF CopyConstruct, Inv, TypeOK, Sound, BuffersOwnedOnce
<1>2. CASE ~(obj[b].data = Null \/ obj[b].stored = 0)
  <2> USE DEF Inv, TypeOK, Sound, BuffersOwnedOnce, Objects
  <2>1. PICK x \in Free :
          /\ heap' = [heap EXCEPT ![x] = Buffer(Stored(obj[b]), obj[b].size)]
          /\ obj' = [obj EXCEPT ![a] = [obj[b] EXCEPT !.data = x]]
    BY <1>2 DEF CopyConstruct
  <2>2. /\ a \notin alive /\ b \in alive /\ alive' = alive \cup {a}
        /\ x \in Buffers /\ heap[x] = <<>> /\ x # Null /\ obj[b].size # 0
    BY <1>2, StackAllocatorAssumption DEF CopyConstruct, Free
  <2>3. /\ Buffer(Stored(obj[b]), obj[b].size) \in Seq(Cells)
        /\ Len(Buffer(Stored(obj[b]), obj[b].size)) = obj[b].size
    BY StoredIsSequence, BufferIsSequence
  <2>4. /\ obj'[a] = [data |-> x, stored |-> obj[b].stored, size |-> obj[b].size]
        /\ \A y \in Stacks \ {a} : obj'[y] = obj[y]
        /\ obj' \in [Stacks -> Objects]
    BY <2>1, <2>2
  <2>5. /\ heap' \in [Buffers -> Seq(Cells)]
        /\ Len(heap'[x]) = obj[b].size
        /\ \A y \in Buffers \ {x} : heap'[y] = heap[y]
    BY <2>1, <2>2, <2>3
  <2>6. \A y \in Stacks : obj[y].data # x
    <3> SUFFICES ASSUME NEW y \in Stacks, obj[y].data = x PROVE FALSE
      OBVIOUS
    <3>1. obj[y].size # 0 /\ Len(heap[x]) = obj[y].size
      BY <2>2
    <3> QED BY <3>1, <2>2
  <2>7. TypeOK' /\ Sound'
    <3>1. TypeOK'
      BY <2>2, <2>4, <2>5
    <3>2. obj'[a].stored <= obj'[a].size /\ (obj'[a].data = Null <=> obj'[a].size = 0)
      BY <2>2, <2>4
    <3>3. ASSUME NEW y \in Stacks \ {a}
          PROVE  obj'[y].stored <= obj'[y].size /\ (obj'[y].data = Null <=> obj'[y].size = 0)
      BY <2>4
    <3> QED BY <3>1, <3>2, <3>3
  <2>8. \A y \in Stacks : obj'[y].data # Null =>
          y \in alive' /\ obj'[y].size # 0 /\ Len(heap'[obj'[y].data]) = obj'[y].size
    <3> SUFFICES ASSUME NEW y \in Stacks, obj'[y].data # Null
                 PROVE  y \in alive' /\ obj'[y].size # 0
                          /\ Len(heap'[obj'[y].data]) = obj'[y].size
      OBVIOUS
    <3>1. CASE y = a
      BY <3>1, <2>2, <2>4, <2>5
    <3>2. CASE y # a
      <4>1. obj'[y] = obj[y] /\ obj[y].data # x /\ obj[y].data \in Buffers
        BY <3>2, <2>4, <2>6
      <4>2. heap'[obj[y].data] = heap[obj[y].data]
        BY <4>1, <2>5
      <4> QED BY <4>1, <4>2, <2>2
    <3> QED BY <3>1, <3>2
  <2>9. \A y, z \in Stacks : obj'[y].data = obj'[z].data /\ obj'[y].data # Null => y = z
    <3> SUFFICES ASSUME NEW y \in Stacks, NEW z \in Stacks,
                        obj'[y].data = obj'[z].data, obj'[y].data # Null
                 PROVE  y = z
      OBVIOUS
    <3>1. CASE y # a /\ z # a
      BY <3>1, <2>4
    <3>2. CASE y = a \/ z = a
      BY <3>2, <2>4, <2>6
    <3> QED BY <3>1, <3>2
  <2>10. \A y \in Buffers : heap'[y] # <<>> => \E z \in Stacks : obj'[z].data = y
    <3> SUFFICES ASSUME NEW y \in Buffers, heap'[y] # <<>>
                 PROVE  \E z \in Stacks : obj'[z].data = y
      OBVIOUS
    <3>1. CASE y = x
      BY <3>1, <2>4
    <3>2. CASE y # x
      <4>1. PICK z \in Stacks : obj[z].data = y
        BY <3>2, <2>5
      <4>2. z # a
        BY <4>1, <2>2, NotAlive, StackAllocatorAssumption
      <4> QED BY <4>1, <4>2, <2>4
    <3> QED BY <3>1, <3>2
  <2> QED BY <2>7, <2>8, <2>9, <2>10
<1> QED BY <1>1, <1>2

LEMMA MoveConstructKeeps ==
    ASSUME Inv, NEW a \in Stacks, NEW b \in Stacks, MoveConstruct(a, b)
    PROVE  Inv'
<1>0. TypeOK /\ Sound /\ BuffersOwnedOnce
  BY DEF Inv
<1>1. /\ a \notin alive /\ b \in alive /\ a # b
      /\ alive' = alive \cup {a} /\ heap' = heap
      /\ obj' = [obj EXCEPT ![a] = obj[b], ![b] = Empty]
  BY DEF MoveConstruct
<1>2. obj[a].data = Null
  BY <1>1, NotAlive
<1>3. /\ obj'[a] = obj[b] /\ obj'[b] = Empty
      /\ \A x \in Stacks \ {a, b} : obj'[x] = obj[x]
      /\ obj' \in [Stacks -> Objects]
  BY <1>0, <1>1 DEF TypeOK, Empty, Objects
<1>4. TypeOK' /\ Sound'
  <2>1. TypeOK'
    BY <1>0, <1>1, <1>3 DEF TypeOK
  <2>2. obj'[b].stored <= obj'[b].size /\ (obj'[b].data = Null <=> obj'[b].size = 0)
    BY <1>3 DEF Empty
  <2>3. ASSUME NEW x \in Stacks \ {b}
        PROVE  obj'[x].stored <= obj'[x].size /\ (obj'[x].data = Null <=> obj'[x].size = 0)
    BY <1>0, <1>1, <1>3 DEF Sound
  <2> QED BY <2>1, <2>2, <2>3 DEF Sound
<1>5. \A x \in Stacks : obj'[x].data # Null =>
        x \in alive' /\ obj'[x].size # 0 /\ Len(heap'[obj'[x].data]) = obj'[x].size
  BY <1>0, <1>1, <1>3 DEF BuffersOwnedOnce, Empty
<1>6. \A x, y \in Stacks : obj'[x].data = obj'[y].data /\ obj'[x].data # Null => x = y
  <2> SUFFICES ASSUME NEW x \in Stacks, NEW y \in Stacks,
                      obj'[x].data = obj'[y].data, obj'[x].data # Null
               PROVE  x = y
    OBVIOUS
  <2>1. x # b /\ y # b
    BY <1>3 DEF Empty
  <2> QED BY <2>1, <1>0, <1>3 DEF BuffersOwnedOnce
<1>7. \A x \in Buffers : heap'[x] # <<>> => \E y \in Stacks : obj'[y].data = x
  <2> SUFFICES ASSUME NEW x \in Buffers, heap'[x] # <<>>
               PROVE  \E y \in Stacks : obj'[y].data = x
    OBVIOUS
  <2>1. PICK y \in Stacks : obj[y].data = x
    BY <1>0, <1>1 DEF BuffersOwnedOnce
  <2>2. y # a
    BY <2>1, <1>2, StackAllocatorAssumption
  <2> QED BY <2>1, <2>2, <1>3
<1> QED BY <1>4, <1>5, <1>6, <1>7 DEF Inv, BuffersOwnedOnce

LEMMA MoveAssignKeeps ==
    ASSUME Inv, NEW a \in Stacks, NEW b \in Stacks, MoveAssign(a, b)
    PROVE  Inv'
<1>0. TypeOK /\ Sound /\ BuffersOwnedOnce
  BY DEF Inv
<1>1. /\ a \in alive /\ b \in alive /\ alive' = alive /\ heap' = heap
      /\ obj' = [obj EXCEPT ![a] = obj[b], ![b] = obj[a]]
  BY DEF MoveAssign
<1>2. /\ obj'[a] = obj[b] /\ obj'[b] = obj[a]
      /\ \A x \in Stacks \ {a, b} : obj'[x] = obj[x]
      /\ obj' \in [Stacks -> Objects]
  BY <1>0, <1>1 DEF TypeOK
<1>3. TypeOK' /\ Sound'
  BY <1>0, <1>1, <1>2 DEF TypeOK, Sound
<1>4. \A x \in Stacks : obj'[x].data # Null =>
        x \in alive' /\ obj'[x].size # 0 /\ Len(heap'[obj'[x].data]) = obj'[x].size
  BY <1>0, <1>1, <1>2 DEF BuffersOwnedOnce
<1>5. \A x, y \in Stacks : obj'[x].data = obj'[y].data /\ obj'[x].data # Null => x = y
  BY <1>0, <1>2 DEF BuffersOwnedOnce
<1>6. \A x \in Buffers : heap'[x] # <<>> => \E y \in Stacks : obj'[y].data = x
  <2> SUFFICES ASSUME NEW x \in Buffers, heap'[x] # <<>>
               PROVE  \E y \in Stacks : obj'[y].data = x
    OBVIOUS
  <2>1. PICK y \in Stacks : obj[y].data = x
    BY <1>0, <1>1 DEF BuffersOwnedOnce
  <2> QED BY <2>1, <1>2
<1> QED BY <1>3, <1>4, <1>5, <1>6 DEF Inv, BuffersOwnedOnce

LEMMA DestroyKeeps ==
    ASSUME Inv, NEW a \in Stacks, Destroy(a)
    PROVE  Inv'
<1>0. TypeOK /\ Sound /\ BuffersOwnedOnce
  BY DEF Inv
<1>1. /\ alive' = alive \ {a}
      /\ obj' = [obj EXCEPT ![a] = Empty]
      /\ heap' = Freed(heap, obj[a].data)
  BY DEF Destroy
<1>2. /\ obj'[a] = Empty
      /\ \A x \in Stacks \ {a} : obj'[x] = obj[x]
      /\ obj' \in [Stacks -> Objects]
  BY <1>0, <1>1 DEF TypeOK, Empty, Objects
<1>3. /\ heap' \in [Buffers -> Seq(Cells)]
      /\ \A x \in Buffers : heap'[x] = IF x = obj[a].data THEN <<>> ELSE heap[x]
  BY <1>0, <1>1 DEF TypeOK, Freed
<1>4. TypeOK' /\ Sound'
  BY <1>0, <1>1, <1>2, <1>3 DEF TypeOK, Sound, Empty
<1>5. \A x \in Stacks : obj'[x].data # Null =>
        x \in alive' /\ obj'[x].size # 0 /\ Len(heap'[obj'[x].data]) = obj'[x].size
  <2> SUFFICES ASSUME NEW x \in Stacks, obj'[x].data # Null
               PROVE  x \in alive' /\ obj'[x].size # 0
                        /\ Len(heap'[obj'[x].data]) = obj'[x].size
    OBVIOUS
  <2>1. x # a /\ obj'[x] = obj[x]
    BY <1>2 DEF Empty
  <2>2. obj[x].data # obj[a].data /\ obj[x].data \in Buffers
    BY <2>1, <1>0 DEF BuffersOwnedOnce, TypeOK, Objects
  <2>3. heap'[obj[x].data] = heap[obj[x].data]
    BY <2>2, <1>3
  <2> QED BY <2>1, <2>3, <1>0, <1>1 DEF BuffersOwnedOnce
<1>6. \A x, y \in Stacks : obj'[x].data = obj'[y].data /\ obj'[x].data # Null => x = y
  <2> SUFFICES ASSUME NEW x \in Stacks, NEW y \in Stacks,
                      obj'[x].data = obj'[y].data, obj'[x].data # Null
               PROVE  x = y
    OBVIOUS
  <2>1. x # a /\ y # a
    BY <1>2 DEF Empty
  <2> QED BY <2>1, <1>0, <1>2 DEF BuffersOwnedOnce
<1>7. \A x \in Buffers : heap'[x] # <<>> => \E y \in Stacks : obj'[y].data = x
  <2> SUFFICES ASSUME NEW x \in Buffers, heap'[x] # <<>>
               PROVE  \E y \in Stacks : obj'[y].data = x
    OBVIOUS
  <2>1. x # obj[a].data /\ heap[x] # <<>>
    BY <1>3
  <2>2. PICK y \in Stacks : obj[y].data = x
    BY <2>1, <1>0 DEF BuffersOwnedOnce
  <2> QED BY <2>1, <2>2, <1>2
<1> QED BY <1>4, <1>5, <1>6, <1>7 DEF Inv, BuffersOwnedOnce

\* Where words are put on top: in the object's own buffer, or in a free one
\* that the buffer's words are moved to.
LEMMA Appended ==
    ASSUME Inv, NEW a \in Stacks, NEW words \in Seq(Cells), words # <<>>,
           NEW b \in Room(obj[a], Len(words))
    PROVE  \/ /\ b = obj[a].data /\ b \in Buffers
              /\ obj[a].stored + Len(words) <= obj[a].size
              /\ AppendedObj(obj[a], Len(words), b) =
                   [data |-> b, stored |-> obj[a].stored + Len(words), size |-> obj[a].size]
              /\ AppendedHeap(obj[a], words, b) =
                   [heap EXCEPT ![b] = Written(heap[b], obj[a].stored, words)]
           \/ /\ b \in Free /\ b # obj[a].data
              /\ AppendedObj(obj[a], Len(words), b) =
                   [data |-> b, stored |-> obj[a].stored + Len(words),
                    size |-> obj[a].size + Len(words)]
              /\ AppendedHeap(obj[a], words, b) =
                   [Freed(heap, obj[a].data) EXCEPT ![b] =
                      Written(Buffer(Stored(obj[a]), obj[a].size + Len(words)),
                              obj[a].stored, words)]
<1>0. TypeOK /\ Sound /\ BuffersOwnedOnce /\ Len(words) \in Nat \ {0}
  BY NonEmpty DEF Inv
<1>1. obj[a].stored \in Nat /\ obj[a].size \in Nat /\ obj[a].data \in Buffers \cup {Null}
  BY <1>0 DEF TypeOK, Objects
<1>2. CASE obj[a].stored + Len(words) <= obj[a].size
  <2>1. b = obj[a].data
    BY <1>2 DEF Room
  <2>2. b \in Buffers
    BY <2>1, <1>0, <1>1, <1>2 DEF Sound
  <2> QED BY <2>1, <2>2, <1>2 DEF AppendedObj, AppendedHeap
<1>3. CASE ~(obj[a].stored + Len(words) <= obj[a].size)
  <2>1. b \in Free
    BY <1>3 DEF Room
  <2>2. b # obj[a].data
    <3> SUFFICES ASSUME b = obj[a].data PROVE FALSE
      OBVIOUS
    <3>1. b # Null /\ heap[b] = <<>> /\ b \in Buffers
      BY <2>1, StackAllocatorAssumption DEF Free
    <3>2. obj[a].size # 0 /\ Len(heap[b]) = obj[a].size
      BY <3>1, <1>0 DEF BuffersOwnedOnce
    <3> QED BY <3>1, <3>2
  <2>3. AppendedHeap(obj[a], words, b) =
          [Freed(heap, obj[a].data) EXCEPT ![b] =
             Written(Buffer(Stored(obj[a]), obj[a].size + Len(words)), obj[a].stored, words)]
    BY <2>1, <2>2 DEF AppendedHeap, Grown, Free, Freed
  <2> QED BY <2>1, <2>2, <2>3 DEF AppendedObj
<1> QED BY <1>2, <1>3

LEMMA PutOnTopKeeps ==
    ASSUME Inv, NEW a \in alive, NEW words \in Seq(Cells), PutOnTop(a, words)
    PROVE  Inv'
<1>0. TypeOK /\ Sound /\ Len(words) \in Nat \ {0} /\ words # <<>> /\ a \in Stacks
  BY NonEmpty DEF Inv, TypeOK, PutOnTop
<1>1. PICK b \in Room(obj[a], Len(words)) :
        /\ obj' = [obj EXCEPT ![a] = AppendedObj(obj[a], Len(words), b)]
        /\ heap' = AppendedHeap(obj[a], words, b)
  BY DEF PutOnTop
<1>2. obj[a].stored \in Nat /\ obj[a].size \in Nat /\ obj[a].stored <= obj[a].size
  BY <1>0 DEF TypeOK, Sound, Objects
<1>3. alive' = alive
  BY DEF PutOnTop
<1>4. CASE /\ b = obj[a].data /\ b \in Buffers
           /\ obj[a].stored + Len(words) <= obj[a].size
           /\ AppendedObj(obj[a], Len(words), b) =
                [data |-> b, stored |-> obj[a].stored + Len(words), size |-> obj[a].size]
           /\ AppendedHeap(obj[a], words, b) =
                [heap EXCEPT ![b] = Written(heap[b], obj[a].stored, words)]
  <2>1. /\ Written(heap[b], obj[a].stored, words) \in Seq(Cells)
        /\ Len(Written(heap[b], obj[a].stored, words)) = Len(heap[b])
    BY <1>0, <1>2, <1>4, WrittenIsSequence DEF TypeOK
  <2>2. /\ heap' \in [Buffers -> Seq(Cells)]
        /\ \A x \in Buffers : Len(heap'[x]) = Len(heap[x])
    BY <2>1, <1>0, <1>1, <1>4 DEF TypeOK
  <2>3. /\ obj' \in [Stacks -> Objects]
        /\ \A x \in Stacks : /\ obj'[x].data = obj[x].data
                             /\ obj'[x].size = obj[x].size
                             /\ obj'[x].stored <= obj[x].size
    BY <1>0, <1>1, <1>2, <1>4 DEF TypeOK, Sound, Objects
  <2> QED BY <2>2, <2>3, <1>3, InPlace
<1>5. CASE /\ b \in Free /\ b # obj[a].data
           /\ AppendedObj(obj[a], Len(words), b) =
                [data |-> b, stored |-> obj[a].stored + Len(words),
                 size |-> obj[a].size + Len(words)]
           /\ AppendedHeap(obj[a], words, b) =
                [Freed(heap, obj[a].data) EXCEPT ![b] =
                   Written(Buffer(Stored(obj[a]), obj[a].size + Len(words)),
                           obj[a].stored, words)]
  <2> DEFINE new == Written(Buffer(Stored(obj[a]), obj[a].size + Len(words)),
                            obj[a].stored, words)
  <2>1. new \in Seq(Cells) /\ Len(new) = obj[a].size + Len(words)
    <3>1. obj[a].size + Len(words) \in Nat
      BY <1>0, <1>2
    <3>2. /\ Buffer(Stored(obj[a]), obj[a].size + Len(words)) \in Seq(Cells)
          /\ Len(Buffer(Stored(obj[a]), obj[a].size + Len(words))) = obj[a].size + Len(words)
      BY <3>1, <1>0, GrownIsSequence
    <3> QED BY <3>2, <1>2, WrittenIsSequence
  <2>2. /\ obj' \in [Stacks -> Objects]
        /\ obj'[a].data = b /\ obj'[a].size = Len(new) /\ obj'[a].stored <= Len(new)
        /\ \A x \in Stacks \ {a} : /\ obj'[x].data = obj[x].data
                                   /\ obj'[x].size = obj[x].size
                                   /\ obj'[x].stored <= obj[x].size
    <3>1. obj' = [obj EXCEPT ![a] = [data |-> b, stored |-> obj[a].stored + Len(words),
                                     size |-> obj[a].size + Len(words)]]
      BY <1>1, <1>5
    <3>2. b \in Buffers
      BY <1>5 DEF Free
    <3>3. obj' \in [Stacks -> Objects]
      BY <3>1, <3>2, <1>0, <1>2 DEF TypeOK, Objects
    <3>4. obj'[a].data = b /\ obj'[a].size = Len(new) /\ obj'[a].stored <= Len(new)
      <4> HIDE DEF new
      <4> QED BY <3>1, <2>1, <1>0, <1>2 DEF TypeOK
    <3>5. \A x \in Stacks \ {a} : obj'[x] = obj[x]
      BY <3>1, <1>0 DEF TypeOK
    <3> HIDE DEF new
    <3> QED BY <3>3, <3>4, <3>5, <1>0 DEF Sound
  <2>3. heap' = [Freed(heap, obj[a].data) EXCEPT ![b] = new]
    BY <1>1, <1>5
  <2>4. Len(new) # 0
    BY <2>1, <1>0, <1>2
  <2> HIDE DEF new
  <2> QED BY <2>1, <2>2, <2>3, <2>4, <1>3, <1>5, Moved
<1> QED BY <1>0, <1>4, <1>5, Appended

LEMMA PopBytesKeeps ==
    ASSUME Inv, NEW a \in Stacks, NEW n \in Nat, PopBytes(a, n)
    PROVE  Inv'
<1>1. TypeOK /\ Sound
  BY DEF Inv
<1>2. /\ obj' \in [Stacks -> Objects]
      /\ \A x \in Stacks : /\ obj'[x].data = obj[x].data
                           /\ obj'[x].size = obj[x].size
                           /\ obj'[x].stored <= obj[x].size
  BY <1>1 DEF PopBytes, TypeOK, Sound, Objects
<1> QED BY <1>1, <1>2, InPlace DEF PopBytes, TypeOK

LEMMA TransferBytesKeeps ==
    ASSUME Inv, NEW a \in Stacks, NEW b \in Stacks, NEW n \in Nat, TransferBytes(a, b, n)
    PROVE  Inv'
<1> DEFINE words == Source(a, n, 0)
<1>0. /\ TypeOK /\ Sound /\ a \in alive /\ b \in alive /\ a # b
      /\ n \in 1..obj[a].stored /\ alive' = alive
  BY DEF Inv, TransferBytes
<1>1. /\ obj[b].stored \in Nat /\ obj[b].size \in Nat /\ obj[b].stored <= obj[b].size
      /\ obj[a].stored \in Nat /\ obj[a].stored <= obj[a].size
  BY <1>0 DEF TypeOK, Sound, Objects
<1>2. words \in Seq(Cells) /\ Len(words) = n /\ words # <<>>
  BY <1>0, <1>1, SourceIsSequence, NonEmpty
<1>3. PICK x \in Room(obj[b], n) :
        /\ obj' = [obj EXCEPT ![a].stored = @ - n, ![b] = AppendedObj(@, n, x)]
        /\ heap' = AppendedHeap(obj[b], words, x)
  BY DEF TransferBytes
<1>4. /\ obj'[a] = [obj[a] EXCEPT !.stored = @ - n]
      /\ obj'[b] = AppendedObj(obj[b], n, x)
      /\ \A y \in Stacks \ {a, b} : obj'[y] = obj[y]
      /\ DOMAIN obj' = Stacks
  BY <1>0, <1>3 DEF TypeOK
<1>5. /\ obj'[a] \in Objects /\ obj'[a].data = obj[a].data
      /\ obj'[a].size = obj[a].size /\ obj'[a].stored <= obj[a].size
  <2>1. obj[a] \in Objects
    BY <1>0 DEF TypeOK
  <2>2. obj[a].stored - n \in Nat /\ obj[a].stored - n <= obj[a].size
    BY <1>0, <1>1, <2>1 DEF Objects
  <2> QED BY <1>4, <2>1, <2>2 DEF Objects
<1>6. CASE /\ x = obj[b].data /\ x \in Buffers
           /\ obj[b].stored + Len(words) <= obj[b].size
           /\ AppendedObj(obj[b], Len(words), x) =
                [data |-> x, stored |-> obj[b].stored + Len(words), size |-> obj[b].size]
           /\ AppendedHeap(obj[b], words, x) =
                [heap EXCEPT ![x] = Written(heap[x], obj[b].stored, words)]
  <2>1. /\ Written(heap[x], obj[b].stored, words) \in Seq(Cells)
        /\ Len(Written(heap[x], obj[b].stored, words)) = Len(heap[x])
    <3> HIDE DEF words
    <3> QED BY <1>0, <1>1, <1>2, <1>6, WrittenIsSequence DEF TypeOK
  <2>2. /\ heap' \in [Buffers -> Seq(Cells)]
        /\ \A y \in Buffers : Len(heap'[y]) = Len(heap[y])
    <3> HIDE DEF words
    <3> QED BY <2>1, <1>0, <1>3, <1>6 DEF TypeOK
  <2>3. /\ obj'[b] \in Objects /\ obj'[b].data = obj[b].data
        /\ obj'[b].size = obj[b].size /\ obj'[b].stored <= obj[b].size
    <3> HIDE DEF words
    <3> QED BY <1>1, <1>2, <1>4, <1>6 DEF Objects
  <2>4. /\ obj' \in [Stacks -> Objects]
        /\ \A y \in Stacks : /\ obj'[y].data = obj[y].data
                             /\ obj'[y].size = obj[y].size
                             /\ obj'[y].stored <= obj[y].size
    BY <2>3, <1>0, <1>3, <1>4, <1>5 DEF TypeOK, Sound
  <2> QED BY <2>2, <2>4, <1>0, InPlace
<1>7. CASE /\ x \in Free /\ x # obj[b].data
           /\ AppendedObj(obj[b], Len(words), x) =
                [data |-> x, stored |-> obj[b].stored + Len(words),
                 size |-> obj[b].size + Len(words)]
           /\ AppendedHeap(obj[b], words, x) =
                [Freed(heap, obj[b].data) EXCEPT ![x] =
                   Written(Buffer(Stored(obj[b]), obj[b].size + Len(words)),
                           obj[b].stored, words)]
  <2> DEFINE new == Written(Buffer(Stored(obj[b]), obj[b].size + Len(words)),
                            obj[b].stored, words)
  <2>1. new \in Seq(Cells) /\ Len(new) = obj[b].size + Len(words)
    <3> HIDE DEF words
    <3>1. obj[b].size + Len(words) \in Nat
      BY <1>1, <1>2
    <3>2. /\ Buffer(Stored(obj[b]), obj[b].size + Len(words)) \in Seq(Cells)
          /\ Len(Buffer(Stored(obj[b]), obj[b].size + Len(words))) = obj[b].size + Len(words)
      BY <3>1, GrownIsSequence
    <3> QED BY <3>2, <1>1, <1>2, WrittenIsSequence
  <2>2. heap' = [Freed(heap, obj[b].data) EXCEPT ![x] = new]
    <3> HIDE DEF words
    <3> QED BY <1>3, <1>7
  <2> HIDE DEF new
  <2>3. /\ obj'[b] \in Objects /\ obj'[b].data = x
        /\ obj'[b].size = Len(new) /\ obj'[b].stored <= Len(new)
    <3> HIDE DEF words
    <3> QED BY <2>1, <1>1, <1>2, <1>4, <1>7 DEF Objects, Free
  <2>4. /\ obj' \in [Stacks -> Objects]
        /\ \A y \in Stacks \ {b} : /\ obj'[y].data = obj[y].data
                                   /\ obj'[y].size = obj[y].size
                                   /\ obj'[y].stored <= obj[y].size
    BY <2>3, <1>0, <1>3, <1>4, <1>5 DEF TypeOK, Sound
  <2>5. Len(new) # 0
    <3> HIDE DEF words
    <3> QED BY <2>1, <1>0, <1>1, <1>2
  <2> QED BY <2>1, <2>2, <2>3, <2>4, <2>5, <1>0, <1>7, Moved
<1> HIDE DEF words
<1> QED BY <1>2, <1>3, <1>6, <1>7, Appended

LEMMA ReservedKeeps ==
    ASSUME Inv, NEW a \in alive, NEW n \in Nat, NEW stored \in Nat,
           stored <= n \/ stored <= obj[a].size,
           Reserved(a, n, stored), alive' = alive
    PROVE  Inv'
<1>0. TypeOK /\ Sound /\ a \in Stacks
  BY DEF Inv, TypeOK
<1>1. /\ obj[a].stored \in Nat /\ obj[a].size \in Nat /\ obj[a].stored <= obj[a].size
  BY <1>0 DEF TypeOK, Sound, Objects
<1>2. CASE n <= obj[a].size
  <2>1. obj' = [obj EXCEPT ![a].stored = stored] /\ heap' = heap
    BY <1>2 DEF Reserved
  <2>2. /\ obj' \in [Stacks -> Objects]
        /\ \A x \in Stacks : /\ obj'[x].data = obj[x].data
                             /\ obj'[x].size = obj[x].size
                             /\ obj'[x].stored <= obj[x].size
    BY <2>1, <1>0, <1>1, <1>2 DEF TypeOK, Sound, Objects
  <2> QED BY <2>1, <2>2, <1>0, InPlace DEF TypeOK
<1>3. CASE ~(n <= obj[a].size)
  <2> DEFINE new == Buffer(Stored(obj[a]), n)
  <2>1. PICK b \in Free :
          /\ obj' = [obj EXCEPT ![a] = [data |-> b, stored |-> stored, size |-> n]]
          /\ heap' = Grown(obj[a], b, n)
    BY <1>3 DEF Reserved
  <2>2. heap' = [Freed(heap, obj[a].data) EXCEPT ![b] = new]
    BY <2>1 DEF Grown
  <2>3. new \in Seq(Cells) /\ Len(new) = n /\ n # 0
    BY <1>0, <1>1, <1>3, GrownIsSequence
  <2> HIDE DEF new
  <2>4. stored <= n
    BY <1>1, <1>3
  <2>5. /\ obj' \in [Stacks -> Objects]
        /\ obj'[a].data = b /\ obj'[a].size = Len(new) /\ obj'[a].stored <= Len(new)
        /\ \A x \in Stacks \ {a} : obj'[x] = obj[x]
    BY <2>1, <2>3, <2>4, <1>0 DEF TypeOK, Objects, Free
  <2> QED BY <2>2, <2>3, <2>5, <1>0, Moved DEF Sound
<1> QED BY <1>2, <1>3

-----------------------------------------------------------------------------
(* The invariant.                                                          *)

LEMMA InitEstablishes == Init => Inv
BY StackAllocatorAssumption DEF Init, Empty, Inv, TypeOK, Sound, BuffersOwnedOnce, Objects

LEMMA NextKeeps == Inv /\ [Next]_vars => Inv'
<1> SUFFICES ASSUME Inv, [Next]_vars PROVE Inv'
  OBVIOUS
<1>0. TypeOK /\ Sizes \subseteq Nat
  BY StackAllocatorAssumption DEF Inv, Sizes
<1>1. ASSUME NEW a \in Stacks, Construct(a) \/ Destroy(a) PROVE Inv'
  BY <1>1, ConstructKeeps, DestroyKeeps
<1>2. ASSUME NEW a \in Stacks, NEW b \in Stacks,
             CopyConstruct(a, b) \/ MoveConstruct(a, b) \/ MoveAssign(a, b)
      PROVE  Inv'
  BY <1>2, CopyConstructKeeps, MoveConstructKeeps, MoveAssignKeeps
<1>3. ASSUME NEW a \in Stacks, NEW n \in Sizes, NEW words \in [1..n -> Words],
             Push(a, words)
      PROVE  Inv'
  <2>1. words \in Seq(Cells)
    BY <1>0 DEF Cells
  <2> QED BY <2>1, <1>3, PutOnTopKeeps DEF Push
<1>4. ASSUME NEW a \in Stacks, NEW n \in Sizes,
             PopBytes(a, n) \/ Reserve(a, n) \/ Resize(a, n)
      PROVE  Inv'
  <2>1. CASE PopBytes(a, n)
    BY <2>1, <1>0, PopBytesKeeps
  <2>2. CASE Reserve(a, n)
    <3>1. obj[a].stored \in Nat /\ obj[a].stored <= obj[a].size
      BY <1>0 DEF Inv, TypeOK, Sound, Objects
    <3> QED BY <3>1, <2>2, <1>0, ReservedKeeps DEF Reserve
  <2>3. CASE Resize(a, n)
    BY <2>3, <1>0, ReservedKeeps DEF Resize
  <2> QED BY <2>1, <2>2, <2>3, <1>4
<1>5. ASSUME NEW a \in Stacks, NEW b \in Stacks, NEW n \in Sizes, NEW offset \in Sizes,
             CopyFrom(a, b, n, offset)
      PROVE  Inv'
  <2>1. Source(b, n, offset) \in Seq(Cells)
    BY <1>0, <1>5, SourceIsSequence DEF CopyFrom
  <2> QED BY <2>1, <1>5, PutOnTopKeeps DEF CopyFrom
<1>6. ASSUME NEW a \in Stacks, NEW b \in Stacks, NEW n \in Sizes, TransferBytes(a, b, n)
      PROVE  Inv'
  BY <1>0, <1>6, TransferBytesKeeps
<1>7. CASE UNCHANGED vars
  BY <1>7 DEF vars, Inv, TypeOK, Sound, BuffersOwnedOnce
<1> QED BY <1>1, <1>2, <1>3, <1>4, <1>5, <1>6, <1>7 DEF Next

\* Every buffer that is allocated has exactly one owner, which knows its
\* size, whatever sequence of stack_allocator's operations is performed.
THEOREM OwnedOnce == Spec => []BuffersOwnedOnce
<1>1. Inv => BuffersOwnedOnce
  BY DEF Inv
<1> QED BY <1>1, InitEstablishes, NextKeeps, PTL DEF Spec

-----------------------------------------------------------------------------
(* The refinement: the words that lie in the buffers are stacks.           *)

Contents == [a \in Stacks |-> Stored(obj[a])]

\* What an object stores does not change while its buffer does not.
LEMMA SameWords ==
    ASSUME Inv, NEW x \in Stacks, obj'[x].data = obj[x].data, obj'[x].stored = obj[x].stored,
           obj[x].data # Null => heap'[obj[x].data] = heap[obj[x].data]
    PROVE  Contents'[x] = Contents[x]
<1>1. obj[x].stored \in Nat /\ (obj[x].data = Null => obj[x].stored = 0)
  BY DEF Inv, TypeOK, Sound, Objects
<1>2. CASE obj[x].data # Null
  BY <1>2 DEF Contents, Stored
<1>3. CASE obj[x].data = Null
  BY <1>1, <1>3 DEF Contents, Stored
<1> QED BY <1>2, <1>3

\* ... and no other object's buffer changes when one is written or replaced.
LEMMA OthersKeepBuffers ==
    ASSUME Inv, NEW a \in alive, NEW b \in Buffers, NEW s,
           \/ b = obj[a].data /\ heap' = [heap EXCEPT ![b] = s]
           \/ b \in Free /\ heap' = [Freed(heap, obj[a].data) EXCEPT ![b] = s],
           NEW x \in Stacks \ {a}, obj[x].data # Null
    PROVE  heap'[obj[x].data] = heap[obj[x].data]
<1>1. /\ obj[x].data \in Buffers /\ obj[x].data # obj[a].data
      /\ obj[x].size # 0 /\ Len(heap[obj[x].data]) = obj[x].size
  BY DEF Inv, TypeOK, BuffersOwnedOnce, Objects
<1>2. obj[x].data # b
  BY <1>1 DEF Free
<1> QED BY <1>1, <1>2 DEF Freed, Inv, TypeOK

LEMMA WordsAre ==
    ASSUME Inv, NEW a \in Stacks
    PROVE  /\ Contents[a] \in Seq(Cells) /\ Len(Contents[a]) = obj[a].stored
           /\ obj[a].stored \in Nat
           /\ \A k \in 1..obj[a].stored : Contents[a][k] = heap[obj[a].data][k]
<1>1. Contents[a] = Stored(obj[a])
  BY DEF Contents
<1>2. Contents[a] \in Seq(Cells) /\ Len(Contents[a]) = obj[a].stored
  BY <1>1, StoredIsSequence
<1>3. \A k \in 1..obj[a].stored : Contents[a][k] = heap[obj[a].data][k]
  BY <1>1 DEF Stored
<1>4. obj[a].stored \in Nat
  BY DEF Inv, TypeOK, Objects
<1> QED BY <1>2, <1>3, <1>4

\* A sequence is its elements.
LEMMA SameSequence ==
    ASSUME NEW S, NEW s \in Seq(S), NEW t \in Seq(S), Len(s) = Len(t),
           \A k \in 1..Len(s) : s[k] = t[k]
    PROVE  s = t
OBVIOUS

LEMMA FunctionIsSequence ==
    ASSUME NEW S, NEW n \in Nat, NEW f \in [1..n -> S]
    PROVE  f \in Seq(S) /\ Len(f) = n
OBVIOUS

LEMMA ElementOf ==
    ASSUME NEW S, NEW s \in Seq(S), NEW k \in 1..Len(s)
    PROVE  s[k] \in S
OBVIOUS

LEMMA Concatenated ==
    ASSUME NEW S, NEW s \in Seq(S), NEW t \in Seq(S)
    PROVE  /\ s \o t \in Seq(S) /\ Len(s \o t) = Len(s) + Len(t)
           /\ \A k \in 1..(Len(s) + Len(t)) :
                (s \o t)[k] = IF k <= Len(s) THEN s[k] ELSE t[k - Len(s)]
OBVIOUS

LEMMA Sliced ==
    ASSUME NEW S, NEW s \in Seq(S), NEW m \in Nat, NEW n \in Nat, m + n <= Len(s)
    PROVE  /\ SubSeq(s, m + 1, m + n) \in Seq(S) /\ Len(SubSeq(s, m + 1, m + n)) = n
           /\ \A k \in 1..n : SubSeq(s, m + 1, m + n)[k] = s[m + k]
OBVIOUS

\* Words put on top of an object are put on top of what it stores.
LEMMA AppendsWords ==
    ASSUME Inv, NEW a \in alive, NEW words \in Seq(Cells), words # <<>>,
           NEW b \in Room(obj[a], Len(words)),
           obj'[a] = AppendedObj(obj[a], Len(words), b), heap' = AppendedHeap(obj[a], words, b)
    PROVE  /\ Contents'[a] = Contents[a] \o words
           /\ \A x \in Stacks \ {a} :
                obj[x].data # Null => heap'[obj[x].data] = heap[obj[x].data]
<1> DEFINE n == obj[a].stored
           old == IF b = obj[a].data THEN heap[b]
                  ELSE Buffer(Stored(obj[a]), obj[a].size + Len(words))
<1>0. a \in Stacks /\ Inv /\ TypeOK /\ Len(words) \in Nat
  BY DEF Inv, TypeOK
<1>1. /\ n \in Nat /\ obj[a].size \in Nat /\ n <= obj[a].size
      /\ obj[a].data = Null => n = 0
  BY <1>0 DEF Inv, TypeOK, Sound, Objects
<1>2. /\ b \in Buffers
      /\ obj'[a].data = b /\ obj'[a].stored = n + Len(words)
      /\ \/ b = obj[a].data /\ heap' = [heap EXCEPT ![b] = Written(old, n, words)]
            /\ n + Len(words) <= obj[a].size
         \/ b \in Free /\ b # obj[a].data
            /\ heap' = [Freed(heap, obj[a].data) EXCEPT ![b] = Written(old, n, words)]
  <2>1. CASE b = obj[a].data
    <3>1. /\ b \in Buffers
          /\ obj[a].stored + Len(words) <= obj[a].size
          /\ AppendedObj(obj[a], Len(words), b) =
               [data |-> b, stored |-> obj[a].stored + Len(words), size |-> obj[a].size]
          /\ AppendedHeap(obj[a], words, b) =
               [heap EXCEPT ![b] = Written(heap[b], obj[a].stored, words)]
      BY <1>0, <2>1, Appended
    <3> QED BY <2>1, <3>1
  <2>2. CASE b # obj[a].data
    <3>1. /\ b \in Free
          /\ AppendedObj(obj[a], Len(words), b) =
               [data |-> b, stored |-> obj[a].stored + Len(words),
                size |-> obj[a].size + Len(words)]
          /\ AppendedHeap(obj[a], words, b) =
               [Freed(heap, obj[a].data) EXCEPT ![b] =
                  Written(Buffer(Stored(obj[a]), obj[a].size + Len(words)),
                          obj[a].stored, words)]
      BY <1>0, <2>2, Appended
    <3> QED BY <2>2, <3>1 DEF Free
  <2> QED BY <2>1, <2>2
<1>3. heap'[b] = Written(old, n, words)
  BY <1>0, <1>2 DEF TypeOK, Freed
<1>4. /\ old \in Seq(Cells) /\ n + Len(words) <= Len(old)
      /\ \A k \in 1..n : old[k] = Contents[a][k]
  <2>1. CASE b = obj[a].data
    <3>1. /\ old = heap[b] /\ heap[b] \in Seq(Cells) /\ Len(heap[b]) = obj[a].size
          /\ n + Len(words) <= obj[a].size
      BY <1>0, <1>2, <2>1, StackAllocatorAssumption DEF Inv, TypeOK, BuffersOwnedOnce
    <3> QED BY <3>1, <2>1, <1>0, WordsAre
  <2>2. CASE b # obj[a].data
    <3>1. old = Buffer(Stored(obj[a]), obj[a].size + Len(words))
      BY <2>2
    <3>2. obj[a].size + Len(words) \in Nat /\ n <= obj[a].size + Len(words)
      BY <1>0, <1>1
    <3>3. old \in Seq(Cells) /\ Len(old) = obj[a].size + Len(words)
      BY <3>1, <3>2, <1>0, GrownIsSequence
    <3>4. Stored(obj[a]) \in Seq(Cells) /\ Len(Stored(obj[a])) = n
      BY <1>0, StoredIsSequence
    <3>5. \A k \in 1..n : old[k] = Stored(obj[a])[k]
      BY <3>1, <3>2, <3>4, <1>1 DEF Buffer
    <3> QED BY <1>0, <1>1, <3>3, <3>5 DEF Contents
  <2> QED BY <2>1, <2>2
<1> HIDE DEF old
<1>5. \A k \in 1..(n + Len(words)) :
        Written(old, n, words)[k] = IF k <= n THEN Contents[a][k] ELSE words[k - n]
  <2> SUFFICES ASSUME NEW k \in 1..(n + Len(words))
               PROVE  Written(old, n, words)[k] = IF k <= n THEN Contents[a][k] ELSE words[k - n]
    OBVIOUS
  <2>1. k \in 1..Len(old) /\ k \in Int
    BY <1>0, <1>1, <1>4
  <2>2. Written(old, n, words)[k] = IF n < k /\ k <= n + Len(words) THEN words[k - n] ELSE old[k]
    BY <2>1 DEF Written
  <2> QED BY <2>1, <2>2, <1>0, <1>1, <1>4
<1>6. Contents'[a] = [k \in 1..(n + Len(words)) |-> Written(old, n, words)[k]]
  BY <1>0, <1>2, <1>3 DEF Contents, Stored
<1>7. Contents'[a] = Contents[a] \o words
  <2>1. /\ Contents[a] \in Seq(Cells) /\ Len(Contents[a]) = n
    BY <1>0, WordsAre
  <2>2. /\ Contents[a] \o words \in Seq(Cells) /\ Len(Contents[a] \o words) = n + Len(words)
        /\ \A k \in 1..(n + Len(words)) :
             (Contents[a] \o words)[k] = IF k <= n THEN Contents[a][k] ELSE words[k - n]
    BY <2>1, Concatenated
  <2>3. /\ DOMAIN Contents'[a] = 1..(n + Len(words))
        /\ \A k \in 1..(n + Len(words)) : Contents'[a][k] = (Contents[a] \o words)[k]
    BY <1>5, <1>6, <2>2
  <2>4. Contents'[a] \in Seq(Cells) /\ Len(Contents'[a]) = n + Len(words)
    <3>1. \A k \in 1..(n + Len(words)) : Contents'[a][k] \in Cells
      BY <2>2, <2>3, ElementOf
    <3>2. n + Len(words) \in Nat
      BY <1>0, <1>1
    <3>3. Contents'[a] \in [1..(n + Len(words)) -> Cells]
      BY <1>6, <3>1
    <3> QED BY <3>2, <3>3, FunctionIsSequence
  <2> QED BY <2>2, <2>3, <2>4, SameSequence
<1>8. ASSUME NEW x \in Stacks \ {a}, obj[x].data # Null
      PROVE  heap'[obj[x].data] = heap[obj[x].data]
  BY <1>0, <1>2, <1>8, OthersKeepBuffers
<1> QED BY <1>7, <1>8

\* reserve and resize keep what the object stores, as far as it goes.
LEMMA ReservesWords ==
    ASSUME Inv, NEW a \in alive, NEW n \in Nat, NEW stored \in Nat,
           stored <= n \/ (stored = obj[a].stored /\ n <= obj[a].size),
           Reserved(a, n, stored)
    PROVE  /\ Contents'[a] \in [1..stored -> Cells]
           /\ \A k \in 1..stored : k <= obj[a].stored => Contents'[a][k] = Contents[a][k]
           /\ \A x \in Stacks \ {a} : Contents'[x] = Contents[x]
<1>0. /\ TypeOK /\ a \in Stacks /\ obj[a].stored \in Nat /\ obj[a].size \in Nat
      /\ obj[a].stored <= obj[a].size
      /\ obj[a].data = Null => obj[a].size = 0
      /\ obj[a].data # Null => /\ heap[obj[a].data] \in Seq(Cells)
                               /\ Len(heap[obj[a].data]) = obj[a].size
  BY DEF Inv, TypeOK, Sound, Objects, BuffersOwnedOnce
<1>1. CASE n <= obj[a].size
  <2>1. obj' = [obj EXCEPT ![a].stored = stored] /\ heap' = heap
    BY <1>1 DEF Reserved
  <2>2. obj'[a].data = obj[a].data /\ obj'[a].stored = stored
    BY <1>0, <2>1 DEF TypeOK, Objects
  <2>3. \A x \in Stacks \ {a} : obj'[x] = obj[x]
    BY <1>0, <2>1 DEF TypeOK
  <2>4. stored <= obj[a].size
    BY <1>0, <1>1
  <2>5. Contents'[a] = [k \in 1..stored |-> heap[obj[a].data][k]]
    BY <1>0, <2>1, <2>2 DEF Contents, Stored
  <2>6. \A k \in 1..stored : heap[obj[a].data][k] \in Cells
    BY <1>0, <2>4, ElementOf
  <2>7. \A k \in 1..stored : k <= obj[a].stored => Contents'[a][k] = Contents[a][k]
    BY <1>0, <2>5, WordsAre
  <2> QED BY <2>1, <2>3, <2>5, <2>6, <2>7, SameWords
<1>2. CASE ~(n <= obj[a].size)
  <2>1. PICK b \in Free :
          /\ obj' = [obj EXCEPT ![a] = [data |-> b, stored |-> stored, size |-> n]]
          /\ heap' = [Freed(heap, obj[a].data) EXCEPT ![b] = Buffer(Stored(obj[a]), n)]
    BY <1>2 DEF Reserved, Grown
  <2>2. /\ b \in Buffers /\ obj'[a].data = b /\ obj'[a].stored = stored
        /\ \A x \in Stacks \ {a} : obj'[x] = obj[x]
    BY <1>0, <2>1 DEF TypeOK, Free
  <2>3. heap'[b] = Buffer(Stored(obj[a]), n)
    BY <1>0, <2>1, <2>2 DEF TypeOK, Freed
  <2>4. /\ Buffer(Stored(obj[a]), n) \in Seq(Cells) /\ Len(Buffer(Stored(obj[a]), n)) = n
        /\ Stored(obj[a]) = Contents[a] /\ Len(Contents[a]) = obj[a].stored
    BY <1>0, GrownIsSequence, WordsAre DEF Contents
  <2>5. stored <= n
    BY <1>2
  <2>6. Contents'[a] = [k \in 1..stored |-> Buffer(Stored(obj[a]), n)[k]]
    BY <1>0, <2>2, <2>3 DEF Contents, Stored
  <2>7. \A k \in 1..stored : Buffer(Stored(obj[a]), n)[k] \in Cells
    BY <2>4, <2>5, ElementOf
  <2>8. \A k \in 1..stored : k <= obj[a].stored => Contents'[a][k] = Contents[a][k]
    BY <2>4, <2>5, <2>6 DEF Buffer
  <2>9. \A x \in Stacks \ {a} : Contents'[x] = Contents[x]
    BY <2>1, <2>2, OthersKeepBuffers, SameWords
  <2> QED BY <2>6, <2>7, <2>8, <2>9
<1> QED BY <1>1, <1>2

Bottom(s, n) == SubSeq(s, 1, n)
Top(s, n) == SubSeq(s, Len(s) - n + 1, Len(s))

LEMMA LeftBelow ==
    ASSUME NEW s \in Nat, NEW n \in Nat, NEW offset \in Nat, n + offset <= s
    PROVE  /\ s - offset \in Nat /\ s - offset - n \in Nat
           /\ s - offset = (s - offset - n) + n /\ s - offset <= s
           /\ s - n - offset = s - offset - n
OBVIOUS

\* The words n below the top, where they lie in the buffer.
LEMMA SourceIsSlice ==
    ASSUME Inv, NEW b \in Stacks, NEW n \in Nat, NEW offset \in Nat,
           n + offset <= obj[b].stored
    PROVE  Source(b, n, offset) = Top(Bottom(Contents[b], Len(Contents[b]) - offset), n)
<1> DEFINE c == Contents[b]
           l == obj[b].stored - offset
           m == obj[b].stored - offset - n
           d == Bottom(c, l)
<1>1. /\ c \in Seq(Cells) /\ Len(c) = obj[b].stored /\ obj[b].stored \in Nat
      /\ \A k \in 1..obj[b].stored : c[k] = heap[obj[b].data][k]
  BY WordsAre
<1>2. /\ l \in Nat /\ m \in Nat /\ l = m + n /\ l <= obj[b].stored
      /\ obj[b].stored - n - offset = m
  <2>1. obj[b].stored \in Nat
    BY WordsAre
  <2> QED BY <2>1, LeftBelow
<1>3. d = SubSeq(c, 0 + 1, 0 + l)
  BY <1>2 DEF Bottom
<1>4. Source(b, n, offset) = [k \in 1..n |-> heap[obj[b].data][m + k]]
  BY <1>2 DEF Source
<1>5. Len(c) - offset = l
  BY <1>1
<1> HIDE DEF c, d, l, m
<1>6. d \in Seq(Cells) /\ Len(d) = l /\ \A k \in 1..l : d[k] = c[k]
  <2>1. 0 + l <= Len(c)
    BY <1>1, <1>2
  <2>2. d \in Seq(Cells) /\ Len(d) = l /\ \A k \in 1..l : d[k] = c[0 + k]
    BY <1>1, <1>2, <1>3, <2>1, Sliced
  <2> QED BY <1>2, <2>2
<1>7. /\ Top(d, n) \in Seq(Cells) /\ Len(Top(d, n)) = n
      /\ \A k \in 1..n : Top(d, n)[k] = d[m + k]
  <2>1. Top(d, n) = SubSeq(d, m + 1, m + n)
    BY <1>2, <1>6 DEF Top
  <2> QED BY <1>2, <1>6, <2>1, Sliced
<1>8. Source(b, n, offset) \in Seq(Cells) /\ Len(Source(b, n, offset)) = n
  BY SourceIsSequence
<1>9. ASSUME NEW k \in 1..n PROVE Source(b, n, offset)[k] = Top(d, n)[k]
  <2>1. m + k \in 1..l /\ m + k \in 1..obj[b].stored
    BY <1>1, <1>2
  <2> QED BY <1>1, <1>4, <1>6, <1>7, <2>1
<1>10. Source(b, n, offset) = Top(d, n)
  BY <1>7, <1>8, <1>9, SameSequence
<1> QED BY <1>5, <1>10 DEF c, d

\* What is left after words are taken off the top.
LEMMA PopsWords ==
    ASSUME Inv, NEW a \in Stacks, NEW n \in Nat, n <= obj[a].stored,
           obj'[a].data = obj[a].data, obj'[a].stored = obj[a].stored - n,
           obj[a].data # Null => heap'[obj[a].data] = heap[obj[a].data]
    PROVE  Contents'[a] = Bottom(Contents[a], Len(Contents[a]) - n)
<1> DEFINE c == Contents[a]
           m == obj[a].stored - n
<1>1. /\ c \in Seq(Cells) /\ Len(c) = obj[a].stored /\ obj[a].stored \in Nat
      /\ \A k \in 1..obj[a].stored : c[k] = heap[obj[a].data][k]
      /\ obj[a].data = Null => obj[a].stored = 0
  BY WordsAre DEF Inv, TypeOK, Sound, Objects
<1>2. m \in Nat /\ 0 + m <= Len(c) /\ \A k \in 1..m : k \in 1..obj[a].stored
  BY <1>1
<1>3. Contents'[a] = [k \in 1..m |-> heap'[obj[a].data][k]]
  BY DEF Contents, Stored
<1>4. \A k \in 1..m : Contents'[a][k] = c[k]
  BY <1>1, <1>2, <1>3
<1> HIDE DEF c, m
<1>5. \A k \in 1..m : c[k] \in Cells
  BY <1>1, <1>2, ElementOf
<1>6. Contents'[a] \in Seq(Cells) /\ Len(Contents'[a]) = m
  <2>1. Contents'[a] \in [1..m -> Cells]
    BY <1>3, <1>4, <1>5
  <2> QED BY <1>2, <2>1, FunctionIsSequence
<1>7. /\ SubSeq(c, 0 + 1, 0 + m) \in Seq(Cells) /\ Len(SubSeq(c, 0 + 1, 0 + m)) = m
      /\ \A k \in 1..m : SubSeq(c, 0 + 1, 0 + m)[k] = c[0 + k]
  BY <1>1, <1>2, Sliced
<1>8. Bottom(c, Len(c) - n) = SubSeq(c, 0 + 1, 0 + m)
  BY <1>1, <1>2 DEF Bottom, m
<1>9. \A k \in 1..m : Contents'[a][k] = SubSeq(c, 0 + 1, 0 + m)[k]
  BY <1>2, <1>4, <1>7
<1> QED BY <1>6, <1>7, <1>8, <1>9, SameSequence DEF c

LEMMA AllOfIt ==
    ASSUME NEW S, NEW s \in Seq(S)
    PROVE  SubSeq(s, 1, Len(s)) = s
<1>1. /\ SubSeq(s, 0 + 1, 0 + Len(s)) \in Seq(S) /\ Len(SubSeq(s, 0 + 1, 0 + Len(s))) = Len(s)
      /\ \A k \in 1..Len(s) : SubSeq(s, 0 + 1, 0 + Len(s))[k] = s[0 + k]
  BY Sliced
<1>2. \A k \in 1..Len(s) : SubSeq(s, 1, Len(s))[k] = s[k]
  BY <1>1
<1> QED BY <1>1, <1>2, SameSequence

\* An object that takes over another's buffer, or has none, or is not touched.
LEMMA TakesOver ==
    ASSUME NEW x \in Stacks, NEW y \in Stacks, obj'[x] = obj[y], heap' = heap
    PROVE  Contents'[x] = Contents[y]
BY DEF Contents, Stored

LEMMA HoldsNothing ==
    ASSUME NEW x \in Stacks
    PROVE  /\ obj[x].stored = 0 => Contents[x] = <<>>
           /\ obj'[x].stored = 0 => Contents'[x] = <<>>
BY DEF Contents, Stored

\* The contents after a step, told one stack at a time.
LEMMA Becomes ==
    ASSUME NEW a \in Stacks, \A x \in Stacks \ {a} : Contents'[x] = Contents[x]
    PROVE  Contents' = [Contents EXCEPT ![a] = Contents'[a]]
BY DEF Contents

LEMMA BothBecome ==
    ASSUME NEW a \in Stacks, NEW b \in Stacks,
           \A x \in Stacks \ {a, b} : Contents'[x] = Contents[x]
    PROVE  Contents' = [Contents EXCEPT ![a] = Contents'[a], ![b] = Contents'[b]]
BY DEF Contents

-----------------------------------------------------------------------------
(* What each operation does to the stacks.                                 *)

LEMMA CopyConstructCopies ==
    ASSUME Inv, NEW a \in Stacks, NEW b \in Stacks, CopyConstruct(a, b)
    PROVE  Contents' = [Contents EXCEPT ![a] = Contents[b]]
<1>0. /\ TypeOK /\ a \notin alive /\ b \in alive /\ a # b
      /\ obj[a].data = Null /\ obj[a].stored = 0
  BY NotAlive DEF CopyConstruct, Inv, Sound, TypeOK, Objects
<1>1. CASE obj[b].data = Null \/ obj[b].stored = 0
  <2>1. obj' = obj /\ heap' = heap /\ obj[b].stored = 0
    BY <1>0, <1>1 DEF CopyConstruct, Inv, Sound, TypeOK, Objects
  <2>2. Contents'[a] = Contents[b]
    BY <1>0, <2>1, HoldsNothing
  <2>3. \A x \in Stacks \ {a} : Contents'[x] = Contents[x]
    BY <2>1, TakesOver
  <2> QED BY <2>2, <2>3, Becomes
<1>2. CASE ~(obj[b].data = Null \/ obj[b].stored = 0)
  <2>1. PICK x \in Free :
          /\ heap' = [heap EXCEPT ![x] = Buffer(Stored(obj[b]), obj[b].size)]
          /\ obj' = [obj EXCEPT ![a] = [obj[b] EXCEPT !.data = x]]
    BY <1>2 DEF CopyConstruct
  <2>2. /\ x \in Buffers /\ heap'[x] = Buffer(Stored(obj[b]), obj[b].size)
        /\ obj'[a].data = x /\ obj'[a].stored = obj[b].stored
        /\ obj[b].stored \in Nat /\ obj[b].size \in Nat /\ obj[b].stored <= obj[b].size
        /\ \A y \in Stacks \ {a} : obj'[y] = obj[y]
    BY <1>0, <2>1 DEF Free, Inv, TypeOK, Sound, Objects
  <2>3. ASSUME NEW y \in Stacks \ {a}
        PROVE  Contents'[y] = Contents[y]
    <3>1. obj[y].data # Null => heap'[obj[y].data] = heap[obj[y].data]
      BY <1>0, <2>1, <2>2, OthersKeepBuffers DEF Free, Inv, TypeOK, BuffersOwnedOnce, Objects
    <3> QED BY <2>2, <3>1, SameWords
  <2>4. Contents[b] \in Seq(Cells) /\ Len(Contents[b]) = obj[b].stored
        /\ Stored(obj[b]) = Contents[b]
    BY WordsAre DEF Contents
  <2>5. \A k \in 1..obj[b].stored : Buffer(Stored(obj[b]), obj[b].size)[k] = Contents[b][k]
    BY <2>2, <2>4 DEF Buffer
  <2>6. Contents'[a] = [k \in 1..obj[b].stored |-> Contents[b][k]]
    BY <2>2, <2>5 DEF Contents, Stored
  <2>7. Contents'[a] = Contents[b]
    BY <2>6 DEF Contents, Stored
  <2> QED BY <2>3, <2>7, Becomes
<1> QED BY <1>1, <1>2

LEMMA MoveConstructMoves ==
    ASSUME Inv, NEW a \in Stacks, NEW b \in Stacks, MoveConstruct(a, b)
    PROVE  Contents' = [Contents EXCEPT ![a] = Contents[b], ![b] = <<>>]
<1>1. /\ a # b /\ heap' = heap /\ obj'[a] = obj[b] /\ obj'[b].stored = 0
      /\ \A x \in Stacks \ {a, b} : obj'[x] = obj[x]
  BY DEF MoveConstruct, Inv, TypeOK, Empty
<1>2. /\ Contents'[a] = Contents[b] /\ Contents'[b] = <<>>
      /\ \A x \in Stacks \ {a, b} : Contents'[x] = Contents[x]
  BY <1>1, TakesOver, HoldsNothing
<1> QED BY <1>2, BothBecome

LEMMA MoveAssignExchanges ==
    ASSUME Inv, NEW a \in Stacks, NEW b \in Stacks, MoveAssign(a, b)
    PROVE  Contents' = [Contents EXCEPT ![a] = Contents[b], ![b] = Contents[a]]
<1>1. /\ heap' = heap /\ obj'[a] = obj[b] /\ obj'[b] = obj[a]
      /\ \A x \in Stacks \ {a, b} : obj'[x] = obj[x]
  BY DEF MoveAssign, Inv, TypeOK
<1>2. /\ Contents'[a] = Contents[b] /\ Contents'[b] = Contents[a]
      /\ \A x \in Stacks \ {a, b} : Contents'[x] = Contents[x]
  BY <1>1, TakesOver
<1> QED BY <1>2, BothBecome

LEMMA DestroyEmpties ==
    ASSUME Inv, NEW a \in Stacks, Destroy(a)
    PROVE  Contents' = [Contents EXCEPT ![a] = <<>>]
<1>1. /\ heap' = Freed(heap, obj[a].data) /\ obj'[a].stored = 0
      /\ \A x \in Stacks \ {a} : obj'[x] = obj[x]
  BY DEF Destroy, Inv, TypeOK, Empty
<1>2. ASSUME NEW x \in Stacks \ {a}
      PROVE  Contents'[x] = Contents[x]
  <2>1. obj[x].data # Null => heap'[obj[x].data] = heap[obj[x].data]
    BY <1>1 DEF Freed, Inv, TypeOK, BuffersOwnedOnce, Objects
  <2> QED BY <1>1, <2>1, SameWords
<1>3. Contents'[a] = <<>>
  BY <1>1, HoldsNothing
<1> QED BY <1>2, <1>3, Becomes

LEMMA PutOnTopAppends ==
    ASSUME Inv, NEW a \in alive, NEW words \in Seq(Cells), PutOnTop(a, words)
    PROVE  Contents' = [Contents EXCEPT ![a] = Contents[a] \o words]
<1>0. a \in Stacks /\ TypeOK /\ words # <<>>
  BY DEF Inv, TypeOK, PutOnTop
<1>1. PICK b \in Room(obj[a], Len(words)) :
        /\ obj' = [obj EXCEPT ![a] = AppendedObj(obj[a], Len(words), b)]
        /\ heap' = AppendedHeap(obj[a], words, b)
  BY DEF PutOnTop
<1>2. /\ obj'[a] = AppendedObj(obj[a], Len(words), b)
      /\ \A x \in Stacks \ {a} : obj'[x] = obj[x]
  BY <1>0, <1>1 DEF TypeOK
<1>3. /\ Contents'[a] = Contents[a] \o words
      /\ \A x \in Stacks \ {a} :
           obj[x].data # Null => heap'[obj[x].data] = heap[obj[x].data]
  BY <1>0, <1>1, <1>2, AppendsWords
<1>4. \A x \in Stacks \ {a} : Contents'[x] = Contents[x]
  BY <1>2, <1>3, SameWords
<1> QED BY <1>0, <1>3, <1>4, Becomes

LEMMA PopBytesPops ==
    ASSUME Inv, NEW a \in Stacks, NEW n \in Nat, PopBytes(a, n)
    PROVE  Contents' = [Contents EXCEPT ![a] = Bottom(Contents[a], Len(Contents[a]) - n)]
<1>1. /\ heap' = heap /\ n <= obj[a].stored
      /\ obj'[a].data = obj[a].data /\ obj'[a].stored = obj[a].stored - n
      /\ \A x \in Stacks \ {a} : obj'[x] = obj[x]
  BY DEF PopBytes, Inv, TypeOK, Objects
<1>2. Contents'[a] = Bottom(Contents[a], Len(Contents[a]) - n)
  BY <1>1, PopsWords
<1>3. \A x \in Stacks \ {a} : Contents'[x] = Contents[x]
  BY <1>1, TakesOver
<1> QED BY <1>2, <1>3, Becomes

LEMMA TransferBytesTransfers ==
    ASSUME Inv, NEW a \in Stacks, NEW b \in Stacks, NEW n \in Nat, TransferBytes(a, b, n)
    PROVE  Contents' = [Contents EXCEPT ![a] = Bottom(Contents[a], Len(Contents[a]) - n),
                                        ![b] = Contents[b] \o Top(Contents[a], n)]
<1>0. /\ a \in alive /\ b \in alive /\ a # b /\ n \in 1..obj[a].stored
      /\ obj[a].stored \in Nat /\ n <= obj[a].stored /\ n + 0 <= obj[a].stored /\ n # 0
  BY DEF TransferBytes, Inv, TypeOK, Objects
<1>1. PICK x \in Room(obj[b], n) :
        /\ obj' = [obj EXCEPT ![a].stored = @ - n, ![b] = AppendedObj(obj[b], n, x)]
        /\ heap' = AppendedHeap(obj[b], Source(a, n, 0), x)
  BY <1>0 DEF TransferBytes, Inv, TypeOK
<1>2. /\ obj'[a].data = obj[a].data /\ obj'[a].stored = obj[a].stored - n
      /\ obj'[b] = AppendedObj(obj[b], n, x)
      /\ \A y \in Stacks \ {a, b} : obj'[y] = obj[y]
  BY <1>0, <1>1 DEF Inv, TypeOK, Objects
<1>3. PICK words : words = Source(a, n, 0)
  OBVIOUS
<1>4. words \in Seq(Cells) /\ Len(words) = n /\ words # <<>>
  BY <1>0, <1>3, SourceIsSequence
<1>5. words = Top(Contents[a], n)
  <2>1. words = Top(Bottom(Contents[a], Len(Contents[a]) - 0), n)
    BY <1>0, <1>3, SourceIsSlice
  <2>2. Contents[a] \in Seq(Cells) /\ Len(Contents[a]) - 0 = Len(Contents[a])
    BY WordsAre
  <2>3. Bottom(Contents[a], Len(Contents[a]) - 0) = Contents[a]
    BY <2>2, AllOfIt DEF Bottom
  <2> QED BY <2>1, <2>3
<1>6. /\ Contents'[b] = Contents[b] \o words
      /\ \A y \in Stacks \ {b} :
           obj[y].data # Null => heap'[obj[y].data] = heap[obj[y].data]
  BY <1>0, <1>1, <1>2, <1>3, <1>4, AppendsWords
<1>7. Contents'[a] = Bottom(Contents[a], Len(Contents[a]) - n)
  BY <1>0, <1>2, <1>6, PopsWords
<1>8. \A y \in Stacks \ {a, b} : Contents'[y] = Contents[y]
  BY <1>2, <1>6, SameWords
<1>9. Contents' = [Contents EXCEPT ![a] = Contents'[a], ![b] = Contents'[b]]
  BY <1>8, BothBecome
<1>10. Contents'[b] = Contents[b] \o Top(Contents[a], n)
  BY <1>5, <1>6
<1> QED BY <1>7, <1>9, <1>10, Zenon

LEMMA ReserveKeepsWords ==
    ASSUME Inv, NEW a \in Stacks, NEW n \in Nat, Reserve(a, n)
    PROVE  Contents' = Contents
<1>0. /\ a \in alive /\ obj[a].stored \in Nat /\ obj[a].size \in Nat
      /\ obj[a].stored <= obj[a].size /\ Reserved(a, n, obj[a].stored)
  BY DEF Reserve, Inv, TypeOK, Sound, Objects
<1>1. obj[a].stored <= n \/ n <= obj[a].size
  BY <1>0
<1>2. PICK m \in Nat : m = obj[a].stored
  BY <1>0
<1>3. /\ Contents'[a] \in [1..m -> Cells]
      /\ \A k \in 1..m : k <= obj[a].stored => Contents'[a][k] = Contents[a][k]
      /\ \A x \in Stacks \ {a} : Contents'[x] = Contents[x]
  BY <1>0, <1>1, <1>2, ReservesWords
<1>4. Contents'[a] \in Seq(Cells) /\ Len(Contents'[a]) = m
  BY <1>3, FunctionIsSequence
<1>5. Contents[a] \in Seq(Cells) /\ Len(Contents[a]) = m
  BY <1>2, WordsAre
<1>6. Contents'[a] = Contents[a]
  BY <1>2, <1>3, <1>4, <1>5, SameSequence
<1> QED BY <1>3, <1>6 DEF Contents

LEMMA ResizeKeepsWords ==
    ASSUME Inv, NEW a \in Stacks, NEW n \in Nat, Resize(a, n)
    PROVE  /\ Contents' = [Contents EXCEPT ![a] = Contents'[a]]
           /\ Contents'[a] \in [1..n -> Cells]
           /\ \A k \in 1..n : k <= Len(Contents[a]) => Contents'[a][k] = Contents[a][k]
<1>1. a \in alive /\ Reserved(a, n, n)
  BY DEF Resize
<1>2. /\ Contents'[a] \in [1..n -> Cells]
      /\ \A k \in 1..n : k <= obj[a].stored => Contents'[a][k] = Contents[a][k]
      /\ \A x \in Stacks \ {a} : Contents'[x] = Contents[x]
  BY <1>1, ReservesWords
<1>3. Len(Contents[a]) = obj[a].stored
  BY WordsAre
<1> QED BY <1>2, <1>3, Becomes

-----------------------------------------------------------------------------
(* ... as WordStacks has it.                                               *)

LEMMA InTheseTerms ==
    /\ Abstract!Init <=> alive = {} /\ Contents = [a \in Stacks |-> <<>>]
    /\ UNCHANGED <<alive, Contents>> => UNCHANGED Abstract!vars
    /\ \A a \in Stacks :
         /\ a \notin alive /\ alive' = alive \cup {a} /\ Contents' = Contents
              => Abstract!Construct(a)
         /\ a \in alive /\ alive' = alive \ {a} /\ Contents' = [Contents EXCEPT ![a] = <<>>]
              => Abstract!Destroy(a)
    /\ \A a, b \in Stacks :
         /\ a \notin alive /\ b \in alive /\ alive' = alive \cup {a}
            /\ Contents' = [Contents EXCEPT ![a] = Contents[b]]
              => Abstract!CopyConstruct(a, b)
         /\ a \notin alive /\ b \in alive /\ alive' = alive \cup {a}
            /\ Contents' = [Contents EXCEPT ![a] = Contents[b], ![b] = <<>>]
              => Abstract!MoveConstruct(a, b)
         /\ a \in alive /\ b \in alive /\ alive' = alive
            /\ Contents' = [Contents EXCEPT ![a] = Contents[b], ![b] = Contents[a]]
              => Abstract!MoveAssign(a, b)
BY DEF Contents, Abstract!Init, Abstract!vars, Abstract!Construct, Abstract!Destroy,
       Abstract!CopyConstruct, Abstract!MoveConstruct, Abstract!MoveAssign, Abstract!Become

LEMMA WordsInTheseTerms ==
    /\ \A a \in Stacks : \A words :
         a \in alive /\ alive' = alive /\ Contents' = [Contents EXCEPT ![a] = Contents[a] \o words]
           => Abstract!Push(a, words)
    /\ \A a \in Stacks, n \in Sizes :
         /\ a \in alive /\ alive' = alive /\ n <= Len(Contents[a])
            /\ Contents' = [Contents EXCEPT ![a] = Bottom(Contents[a], Len(Contents[a]) - n)]
              => Abstract!Pop(a, n)
         /\ a \in alive /\ alive' = alive
            /\ (\E s \in [1..n -> Cells] :
                  /\ \A k \in 1..n : k <= Len(Contents[a]) => s[k] = Contents[a][k]
                  /\ Contents' = [Contents EXCEPT ![a] = s])
              => Abstract!Resize(a, n)
    /\ \A a, b \in Stacks, n, offset \in Sizes :
         a \in alive /\ b \in alive /\ alive' = alive /\ n + offset <= Len(Contents[b])
         /\ Contents' = [Contents EXCEPT ![a] =
                           Contents[a] \o Top(Bottom(Contents[b], Len(Contents[b]) - offset), n)]
           => Abstract!CopyFrom(a, b, n, offset)
    /\ \A a, b \in Stacks, n \in Sizes :
         a \in alive /\ b \in alive /\ a # b /\ alive' = alive /\ n <= Len(Contents[a])
         /\ Contents' = [Contents EXCEPT ![a] = Bottom(Contents[a], Len(Contents[a]) - n),
                                         ![b] = Contents[b] \o Top(Contents[a], n)]
           => Abstract!Transfer(a, b, n)
<1>1. \A a \in Stacks : \A words :
        a \in alive /\ alive' = alive /\ Contents' = [Contents EXCEPT ![a] = Contents[a] \o words]
          => Abstract!Push(a, words)
  BY DEF Contents, Abstract!Push, Abstract!Become
<1>2. \A a \in Stacks, n \in Sizes :
        a \in alive /\ alive' = alive /\ n <= Len(Contents[a])
        /\ Contents' = [Contents EXCEPT ![a] = Bottom(Contents[a], Len(Contents[a]) - n)]
          => Abstract!Pop(a, n)
  BY DEF Contents, Bottom, Abstract!Bottom, Abstract!Pop, Abstract!Become
<1>3. \A a \in Stacks, n \in Sizes :
        a \in alive /\ alive' = alive
        /\ (\E s \in [1..n -> Cells] :
              /\ \A k \in 1..n : k <= Len(Contents[a]) => s[k] = Contents[a][k]
              /\ Contents' = [Contents EXCEPT ![a] = s])
          => Abstract!Resize(a, n)
  BY DEF Contents, Cells, Abstract!Cells, Abstract!Resize, Abstract!Become
<1>4. \A a, b \in Stacks, n, offset \in Sizes :
        a \in alive /\ b \in alive /\ alive' = alive /\ n + offset <= Len(Contents[b])
        /\ Contents' = [Contents EXCEPT ![a] =
                          Contents[a] \o Top(Bottom(Contents[b], Len(Contents[b]) - offset), n)]
          => Abstract!CopyFrom(a, b, n, offset)
  BY ZenonT(40) DEF Contents, Bottom, Top, Abstract!Bottom, Abstract!Top, Abstract!CopyFrom,
         Abstract!Push, Abstract!Become
<1>5. \A a, b \in Stacks, n \in Sizes :
        a \in alive /\ b \in alive /\ a # b /\ alive' = alive /\ n <= Len(Contents[a])
        /\ Contents' = [Contents EXCEPT ![a] = Bottom(Contents[a], Len(Contents[a]) - n),
                                        ![b] = Contents[b] \o Top(Contents[a], n)]
          => Abstract!Transfer(a, b, n)
  BY DEF Contents, Bottom, Top, Abstract!Bottom, Abstract!Top, Abstract!Transfer
<1> QED BY <1>1, <1>2, <1>3, <1>4, <1>5

LEMMA StepMaps ==
    ASSUME Inv, [Next]_vars
    PROVE  [Abstract!Next]_(Abstract!vars)
<1>0. TypeOK /\ Sizes \subseteq Nat /\ alive \subseteq Stacks
      /\ \A a \in Stacks : Len(Contents[a]) = obj[a].stored /\ obj[a].stored \in Nat
  BY WordsAre, StackAllocatorAssumption DEF Inv, TypeOK, Sizes
<1>1. ASSUME NEW a \in Stacks, Construct(a) \/ Destroy(a)
      PROVE  Abstract!Construct(a) \/ Abstract!Destroy(a)
  <2>1. CASE Construct(a)
    <3>1. a \notin alive /\ alive' = alive \cup {a} /\ Contents' = Contents
      BY <2>1 DEF Construct, Contents, Stored
    <3> QED BY <3>1, InTheseTerms
  <2>2. CASE Destroy(a)
    <3>1. a \in alive /\ alive' = alive \ {a} /\ Contents' = [Contents EXCEPT ![a] = <<>>]
      BY <2>2, DestroyEmpties DEF Destroy
    <3> QED BY <3>1, InTheseTerms
  <2> QED BY <1>1, <2>1, <2>2
<1>2. ASSUME NEW a \in Stacks, NEW b \in Stacks,
             CopyConstruct(a, b) \/ MoveConstruct(a, b) \/ MoveAssign(a, b)
      PROVE  Abstract!CopyConstruct(a, b) \/ Abstract!MoveConstruct(a, b)
               \/ Abstract!MoveAssign(a, b)
  <2>1. CASE CopyConstruct(a, b)
    <3>1. /\ a \notin alive /\ b \in alive /\ alive' = alive \cup {a}
          /\ Contents' = [Contents EXCEPT ![a] = Contents[b]]
      BY <2>1, CopyConstructCopies DEF CopyConstruct
    <3> QED BY <3>1, InTheseTerms
  <2>2. CASE MoveConstruct(a, b)
    <3>1. /\ a \notin alive /\ b \in alive /\ alive' = alive \cup {a}
          /\ Contents' = [Contents EXCEPT ![a] = Contents[b], ![b] = <<>>]
      BY <2>2, MoveConstructMoves DEF MoveConstruct
    <3> QED BY <3>1, InTheseTerms
  <2>3. CASE MoveAssign(a, b)
    <3>1. /\ a \in alive /\ b \in alive /\ alive' = alive
          /\ Contents' = [Contents EXCEPT ![a] = Contents[b], ![b] = Contents[a]]
      BY <2>3, MoveAssignExchanges DEF MoveAssign
    <3> QED BY <3>1, InTheseTerms
  <2> QED BY <1>2, <2>1, <2>2, <2>3
<1>3. ASSUME NEW a \in Stacks, NEW n \in Sizes, NEW words \in [1..n -> Words], Push(a, words)
      PROVE  Abstract!Push(a, words)
  <2>1. words \in Seq(Cells) /\ a \in alive /\ PutOnTop(a, words) /\ alive' = alive
    <3>1. n \in Nat /\ words \in [1..n -> Cells]
      BY <1>0 DEF Cells
    <3> QED BY <1>3, <3>1, FunctionIsSequence DEF Push, PutOnTop
  <2>2. Contents' = [Contents EXCEPT ![a] = Contents[a] \o words]
    BY <2>1, PutOnTopAppends
  <2> QED BY <2>1, <2>2, WordsInTheseTerms
<1>4. ASSUME NEW a \in Stacks, NEW n \in Sizes, PopBytes(a, n)
      PROVE  Abstract!Pop(a, n)
  <2>1. /\ a \in alive /\ alive' = alive /\ n <= Len(Contents[a])
        /\ Contents' = [Contents EXCEPT ![a] = Bottom(Contents[a], Len(Contents[a]) - n)]
    BY <1>0, <1>4, PopBytesPops DEF PopBytes
  <2> QED BY <2>1, WordsInTheseTerms
<1>5. ASSUME NEW a \in Stacks, NEW n \in Sizes, Reserve(a, n)
      PROVE  UNCHANGED Abstract!vars
  <2>1. alive' = alive /\ Contents' = Contents
    BY <1>0, <1>5, ReserveKeepsWords DEF Reserve
  <2> QED BY <2>1, InTheseTerms
<1>6. ASSUME NEW a \in Stacks, NEW n \in Sizes, Resize(a, n)
      PROVE  Abstract!Resize(a, n)
  <2>1. /\ a \in alive /\ alive' = alive
        /\ Contents' = [Contents EXCEPT ![a] = Contents'[a]]
        /\ Contents'[a] \in [1..n -> Cells]
        /\ \A k \in 1..n : k <= Len(Contents[a]) => Contents'[a][k] = Contents[a][k]
    BY <1>0, <1>6, ResizeKeepsWords DEF Resize
  <2>2. PICK s \in [1..n -> Cells] : s = Contents'[a]
    BY <2>1
  <2>3. /\ \A k \in 1..n : k <= Len(Contents[a]) => s[k] = Contents[a][k]
        /\ Contents' = [Contents EXCEPT ![a] = s]
    BY <2>1, <2>2
  <2> QED BY <2>1, <2>3, WordsInTheseTerms
<1>7. ASSUME NEW a \in Stacks, NEW b \in Stacks, NEW n \in Sizes, NEW offset \in Sizes,
             CopyFrom(a, b, n, offset)
      PROVE  Abstract!CopyFrom(a, b, n, offset)
  <2>1. /\ a \in alive /\ b \in alive /\ alive' = alive /\ n + offset <= obj[b].stored
        /\ PutOnTop(a, Source(b, n, offset))
    BY <1>7 DEF CopyFrom, PutOnTop
  <2>2. PICK words : words = Source(b, n, offset)
    OBVIOUS
  <2>3. /\ words \in Seq(Cells) /\ PutOnTop(a, words)
        /\ words = Top(Bottom(Contents[b], Len(Contents[b]) - offset), n)
    BY <1>0, <2>1, <2>2, SourceIsSequence, SourceIsSlice
  <2>4. Contents' = [Contents EXCEPT ![a] = Contents[a] \o words]
    BY <2>1, <2>3, PutOnTopAppends
  <2>5. n + offset <= Len(Contents[b])
    BY <1>0, <2>1
  <2> QED BY <2>1, <2>3, <2>4, <2>5, WordsInTheseTerms
<1>8. ASSUME NEW a \in Stacks, NEW b \in Stacks, NEW n \in Sizes, TransferBytes(a, b, n)
      PROVE  Abstract!Transfer(a, b, n)
  <2>1. /\ a \in alive /\ b \in alive /\ a # b /\ alive' = alive /\ n <= Len(Contents[a])
        /\ Contents' = [Contents EXCEPT ![a] = Bottom(Contents[a], Len(Contents[a]) - n),
                                        ![b] = Contents[b] \o Top(Contents[a], n)]
    <3>1. n \in Nat /\ a \in alive /\ b \in alive /\ a # b /\ alive' = alive
          /\ n <= Len(Contents[a])
      BY <1>0, <1>8 DEF TransferBytes
    <3> QED BY <1>8, <3>1, TransferBytesTransfers
  <2> QED BY <2>1, WordsInTheseTerms
<1>9. CASE UNCHANGED vars
  <2>1. alive' = alive /\ Contents' = Contents
    BY <1>9 DEF vars, Contents, Stored
  <2> QED BY <2>1, InTheseTerms
<1>10. CASE Next
  <2>1. Sizes = Abstract!Sizes
    BY DEF Sizes, Abstract!Sizes
  <2>2. UNCHANGED Abstract!vars \/ Abstract!Next
    BY <1>1, <1>2, <1>3, <1>4, <1>5, <1>6, <1>7, <1>8, <1>10, <2>1 DEF Next, Abstract!Next
  <2> QED BY <2>2
<1> QED BY <1>9, <1>10

\* Whatever buffers the words lie in, the objects are independent stacks: an
\* operation changes the words of those it is called on, as WordStacks says,
\* and those of no other.
THEOREM ImplementsStacks == Spec => ImplementsWordStacks
<1>1. Init => Abstract!Init
  <2>1. Init => Contents = [a \in Stacks |-> <<>>]
    BY DEF Init, Contents, Stored, Empty
  <2> QED BY <2>1, InTheseTerms DEF Init
<1>2. Inv /\ [Next]_vars => [Abstract!Next]_(Abstract!vars)
  BY StepMaps
<1> QED BY <1>1, <1>2, InitEstablishes, NextKeeps, PTL
      DEF Spec, ImplementsWordStacks, Abstract!Spec

=============================================================================
