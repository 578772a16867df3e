------------------------------ MODULE RefCount ------------------------------
(***************************************************************************)
(* Reference counts of ephemeral values (include/blt/gp/tree.h, src/tree.cpp). *)
(*                                                                         *)
(* An ephemeral operator whose type has a drop() function stores its value *)
(* and a pointer to a heap counter in the tree.  Trees are copied with     *)
(* their bytes, so copies share the value and count themselves in; the     *)
(* tree that takes the counter to zero drops the value and deletes the     *)
(* counter.  The counter is atomic, but its decrement and the test for     *)
(* zero are two accesses.                                                  *)
(*                                                                         *)
(* Threads breed the next population: each takes slots nobody else takes,  *)
(* copies a parent over the slot and edits the copy.  Parents are read by  *)
(* all.  A tree operation is its list of accesses to counters, in the      *)
(* order of the code, and the operators it leaves in the tree.             *)
(***************************************************************************)
EXTENDS Integers, Sequences, FiniteSets, SequencesExt

CONSTANTS
    Main,           \* the thread that owns the program
    Plain,          \* an operator without a droppable value
    Settings,       \* the configurations to run: see SettingsAssumption
    MaxGen          \* bound on the number of generations

\* workers: the other threads that breed; popA, popB: the trees of the two
\* populations; values: the ephemeral values a run may create; maxLen: bound on
\* the operators of a tree.
ASSUME SettingsAssumption ==
    \A s \in Settings :
        /\ DOMAIN s = {"workers", "popA", "popB", "values", "maxLen"}
        /\ Main \notin s.workers /\ Plain \notin s.values
        /\ s.popA \cap s.popB = {} /\ (s.popA \cup s.popB) \cap [owner : s.workers \cup {Main}] = {}
        /\ IsFiniteSet(s.workers) /\ IsFiniteSet(s.popA) /\ IsFiniteSet(s.popB)
        /\ Cardinality(s.popA) = Cardinality(s.popB)
        /\ \E f \in [s.popA -> s.values] : IsInjective(f)
        /\ s.maxLen \in Nat \ {0}
ASSUME BoundsAssumption == MaxGen \in Nat

VARIABLES
    setting,    \* the configuration of this run, never changed
    ops,        \* the operators of each tree
    count,      \* the heap counter of each value
    life,       \* "unborn", "live" or "dropped" with the counter deleted
    drops,      \* how often drop() ran on each value
    todo,       \* per thread: accesses left of the operation it is in
    slot,       \* per thread: slots of the next population it is breeding
    bred,       \* slots bred in this generation
    front,      \* TRUE when PopA is the current population
    phase,      \* "breed", "exit" (threads end), "destroy" (populations end)
    generation  \* current_generation

vars == <<setting, ops, count, life, drops, todo, slot, bred, front, phase, generation>>
valueVars == <<count, life, drops>>
runVars == <<setting, slot, bred, front, phase, generation>>

Threads == setting.workers \cup {Main}
PopA == setting.popA
PopB == setting.popB
Values == setting.values
MaxLen == setting.maxLen
Scratch == [owner : Threads]        \* tree_t::get_thread_local, one per thread
Trees == PopA \cup PopB \cup Scratch

Current == IF front THEN PopA ELSE PopB
Next_pop == IF front THEN PopB ELSE PopA
MyTree(t) == [owner |-> t]

\* generate_initial_population: one value in each tree, and next_pop, a copy
\* of current_pop, holds each of them too.
Init ==
    /\ setting \in Settings
    /\ LET born == CHOOSE f \in [PopA -> Values] : IsInjective(f)
           mirror == CHOOSE g \in [PopB -> PopA] : IsInjective(g)
           isBorn(v) == \E a \in PopA : born[a] = v
       IN
        /\ ops = [tr \in Trees |-> IF tr \in PopA THEN <<born[tr]>>
                                   ELSE IF tr \in PopB THEN <<born[mirror[tr]]>>
                                   ELSE <<>>]
        /\ count = [v \in Values |-> IF isBorn(v) THEN 2 ELSE 0]
        /\ life = [v \in Values |-> IF isBorn(v) THEN "live" ELSE "unborn"]
        /\ drops = [v \in Values |-> 0]
        /\ todo = [t \in Threads |-> <<>>]
        /\ slot = [t \in Threads |-> {}]
        /\ bred = {}
        /\ front = TRUE
        /\ phase = "breed"
        /\ generation = 0

-----------------------------------------------------------------------------
(* The accesses of each operation.                                         *)

Access(kind, op) == IF op = Plain THEN <<>> ELSE << [kind |-> kind, of |-> op] >>
Increments(s) == FlattenSeq([i \in 1..Len(s) |-> Access("inc", s[i])])
Decrements(s) == FlattenSeq([i \in 1..Len(s) |-> Access("dec", s[i])])

\* Mutated: operators past the end of the old tree are not counted.
CopyAccessesShort(old, new) ==
    FlattenSeq([i \in 1..Len(old) |->
        (IF i <= Len(new) THEN Access("inc", new[i]) ELSE <<>>) \o Access("dec", old[i])])

\* copy_fast: operator by operator the source's value is counted in, then the
\* destination's out, until the longer of the two ends.
CopyAccesses(old, new) ==
    LET longer == IF Len(old) > Len(new) THEN Len(old) ELSE Len(new)
        step(i) == (IF i <= Len(new) THEN Access("inc", new[i]) ELSE <<>>)
                     \o (IF i <= Len(old) THEN Access("dec", old[i]) ELSE <<>>)
    IN  FlattenSeq([i \in 1..longer |-> step(i)])

\* Mutated: what comes in is not counted, as when subtrees are swapped.
ReplaceAccessesNoCount(out, in) == Decrements(Reverse(out))

\* replace_subtree; delete_subtree and insert_subtree with one part empty.
ReplaceAccesses(out, in) == Decrements(Reverse(out)) \o Increments(in)

-----------------------------------------------------------------------------
(* One access.                                                             *)

Pop(t) == todo' = [todo EXCEPT ![t] = Tail(@)]

Doing(t, kind) == todo[t] # <<>> /\ Head(todo[t]).kind = kind

Increment(t) ==
    /\ Doing(t, "inc")
    /\ LET v == Head(todo[t]).of IN count' = [count EXCEPT ![v] = @ + 1]
    /\ Pop(t)
    /\ UNCHANGED <<ops, life, drops, runVars>>

\* `--*ptr`, the first half of handle_refcount_decrement.
Decrement(t) ==
    /\ Doing(t, "dec")
    /\ LET v == Head(todo[t]).of IN
         /\ count' = [count EXCEPT ![v] = IF life[v] = "live" THEN @ - 1 ELSE @]
         /\ todo' = [todo EXCEPT ![t] = << [kind |-> "test", of |-> v] >> \o Tail(@)]
    /\ UNCHANGED <<ops, life, drops, runVars>>

\* Mutated: `if (*ptr == 1)`.
ReachedZeroLate(v) == count[v] = 1

ReachedZero(v) == count[v] = 0

\* `if (*ptr == 0) handle_ptr_empty(...)`: drop() and delete of the counter.
\* The test of a counter already deleted may see anything.
TestDrop(t) ==
    /\ Doing(t, "test")
    /\ LET v == Head(todo[t]).of IN
         /\ life[v] = "live" => ReachedZero(v)
         /\ life' = [life EXCEPT ![v] = "dropped"]
         /\ drops' = [drops EXCEPT ![v] = @ + 1]
    /\ Pop(t)
    /\ UNCHANGED <<ops, count, runVars>>

TestKeep(t) ==
    /\ Doing(t, "test")
    /\ LET v == Head(todo[t]).of IN life[v] = "live" => ~ReachedZero(v)
    /\ Pop(t)
    /\ UNCHANGED <<ops, valueVars, runVars>>

-----------------------------------------------------------------------------
(* Breeding.                                                               *)

Free(t) == todo[t] = <<>>

\* The operators tr[i+1..j]; MaxLen caps what an edit may leave.
Between(tr, i, j) == SubSeq(ops[tr], i + 1, j)
Splice(tr, i, j, in) == Between(tr, 0, i) \o in \o Between(tr, j, Len(ops[tr]))
Cuts(tr) == {c \in (0..Len(ops[tr])) \X (0..Len(ops[tr])) : c[1] <= c[2]}

\* The owner is in an operation of its own: it resets or destroys.
OwnerBusy == slot[Main] = {} /\ ~Free(Main)

\* A thread takes one slot for a child, or two for a crossover, once the owner
\* is in create_next_generation.
TakeSlots(t) ==
    /\ phase = "breed" /\ Free(t) /\ slot[t] = {} /\ ~OwnerBusy
    /\ \E S \in SUBSET (Next_pop \ bred) :
         /\ Cardinality(S) \in {1, 2}
         /\ \A u \in Threads : slot[u] \cap S = {}
         /\ slot' = [slot EXCEPT ![t] = S]
         /\ bred' = bred \cup S
    /\ UNCHANGED <<setting, ops, valueVars, todo, front, phase, generation>>

\* The trees that a crossover makes children of: where one slot is left the
\* thread's own tree takes the place of the second.
Children(t) == slot[t] \cup (IF Cardinality(slot[t]) = 1 THEN {MyTree(t)} ELSE {})

\* copy_fast of a parent into each of them; the loops of perform_selection may
\* do it again when crossover failed.
CopyParent(t) ==
    /\ Free(t)
    /\ \E d \in Children(t), p \in Current :
         /\ todo' = [todo EXCEPT ![t] = CopyAccesses(ops[d], ops[p])]
         /\ ops' = [ops EXCEPT ![d] = ops[p]]
    /\ UNCHANGED <<valueVars, runVars>>

\* swap_subtrees touches no counter.  (One point crossover exchanges operators
\* that have arguments, and so no value.)
SwapSubtrees(t) ==
    /\ Free(t)
    /\ \E d, e \in slot[t] : d # e /\ \E a \in Cuts(d), b \in Cuts(e) :
         LET newD == Splice(d, a[1], a[2], Between(e, b[1], b[2]))
             newE == Splice(e, b[1], b[2], Between(d, a[1], a[2]))
         IN  /\ Len(newD) <= MaxLen /\ Len(newE) <= MaxLen
             /\ ops' = [ops EXCEPT ![d] = newD, ![e] = newE]
    /\ UNCHANGED <<valueVars, todo, runVars>>

\* A crossover with one slot: subtrees change places with the thread's own tree,
\* and the rest of that tree is cleared.
SwapWithScratch(t) ==
    /\ Free(t)
    /\ \E d \in slot[t] : slot[t] = {d} /\ \E a \in Cuts(d), b \in Cuts(MyTree(t)) :
         LET newD == Splice(d, a[1], a[2], Between(MyTree(t), b[1], b[2]))
             rest == Splice(MyTree(t), b[1], b[2], Between(d, a[1], a[2]))
         IN  /\ Len(newD) <= MaxLen
             /\ todo' = [todo EXCEPT ![t] = Decrements(rest)]
             /\ ops' = [ops EXCEPT ![d] = newD, ![MyTree(t)] = <<>>]
    /\ UNCHANGED <<valueVars, runVars>>

\* tree_t::clear of the thread's own tree, by get_thread_local.
ClearScratch(t) ==
    /\ Free(t) /\ slot[t] # {} /\ ops[MyTree(t)] # <<>>
    /\ todo' = [todo EXCEPT ![t] = Decrements(ops[MyTree(t)])]
    /\ ops' = [ops EXCEPT ![MyTree(t)] = <<>>]
    /\ UNCHANGED <<valueVars, runVars>>

\* Mutated: the counter starts at 0 and counts later holders only.
BornCountZero == 0

BornCount == 1

\* handle_operator_inserted: a new value with a counter of its own.
Born(v) ==
    /\ life[v] = "unborn"
    /\ life' = [life EXCEPT ![v] = "live"]
    /\ count' = [count EXCEPT ![v] = BornCount]
    /\ UNCHANGED drops

\* The generator fills the thread's empty tree.
GenerateScratch(t) ==
    /\ Free(t) /\ slot[t] # {} /\ ops[MyTree(t)] = <<>>
    /\ \E v \in Values :
         /\ Born(v)
         /\ ops' = [ops EXCEPT ![MyTree(t)] = <<v>>]
    /\ UNCHANGED <<todo, runVars>>

\* copy_subtree into the thread's empty tree, counted from the end.
CopySubtree(t) ==
    /\ Free(t) /\ ops[MyTree(t)] = <<>>
    /\ \E d \in slot[t] : \E c \in Cuts(d) :
         LET part == Between(d, c[1], c[2]) IN
           /\ todo' = [todo EXCEPT ![t] = Increments(Reverse(part))]
           /\ ops' = [ops EXCEPT ![MyTree(t)] = part]
    /\ UNCHANGED <<valueVars, runVars>>

\* replace_subtree, insert_subtree and delete_subtree.
ReplaceSubtree(t) ==
    /\ Free(t)
    /\ \E d \in slot[t], in \in {<<>>, ops[MyTree(t)]} : \E c \in Cuts(d) :
         /\ Len(Splice(d, c[1], c[2], in)) <= MaxLen
         /\ todo' = [todo EXCEPT ![t] = ReplaceAccesses(Between(d, c[1], c[2]), in)]
         /\ ops' = [ops EXCEPT ![d] = Splice(d, c[1], c[2], in)]
    /\ UNCHANGED <<valueVars, runVars>>

\* modify_operator: counts the old value out; a new one is Born or none is.
ModifyOperator(t) ==
    /\ Free(t)
    /\ \E d \in slot[t] : \E i \in 1..Len(ops[d]) :
         /\ todo' = [todo EXCEPT ![t] = Access("dec", ops[d][i])]
         /\ \/ /\ ops' = [ops EXCEPT ![d][i] = Plain]
               /\ UNCHANGED valueVars
            \/ \E v \in Values : Born(v) /\ ops' = [ops EXCEPT ![d][i] = v]
    /\ UNCHANGED runVars

\* A child always has a root operator.  When crossover gave up and mutation or
\* reproduction came next, one child is made, and the second slot, which holds a
\* copy of a parent, is given back.  The thread's own tree keeps what it holds.
FinishSlots(t) ==
    /\ Free(t)
    /\ \E made \in SUBSET slot[t] :
         /\ made # {} /\ \A d \in made : ops[d] # <<>>
         /\ \A d \in slot[t] \ made : \E p \in Current : ops[d] = ops[p]
         /\ bred' = bred \ (slot[t] \ made)
    /\ slot' = [slot EXCEPT ![t] = {}]
    /\ UNCHANGED <<setting, ops, valueVars, todo, front, phase, generation>>

-----------------------------------------------------------------------------
(* The owner, while no thread breeds.                                      *)

Quiet == \A t \in Threads : Free(t) /\ slot[t] = {}

\* create_next_generation has returned; next_generation.
SwapPopulations ==
    /\ phase = "breed" /\ Quiet /\ bred = Next_pop /\ generation < MaxGen
    /\ front' = ~front
    /\ bred' = {}
    /\ generation' = generation + 1
    /\ UNCHANGED <<setting, ops, valueVars, todo, slot, phase>>

\* Mutated: the trees of the new next population are not counted.
ResetAccessesNoCopy(new) ==
    LET all(trees, tree(_)) == FlattenSeq([i \in 1..Len(trees) |-> tree(trees[i])])
        old(tr) == Decrements(ops[tr])
    IN  all(SetToSeq(Current), old) \o all(SetToSeq(Next_pop), old)

\* The old current population ends, the new one is copied, and the old next
\* population ends.
ResetAccesses(new) ==
    LET all(trees, tree(_)) == FlattenSeq([i \in 1..Len(trees) |-> tree(trees[i])])
        old(tr) == Decrements(ops[tr])
        counted(tr) == Increments(new[tr])
    IN  all(SetToSeq(Current), old) \o all(SetToSeq(Current), counted)
          \o all(SetToSeq(Next_pop), old)

\* reset_program: a new first population, made before the old one ends, and a
\* copy of it in next_pop.
Reset ==
    /\ phase = "breed" /\ Quiet /\ bred \in {{}, Next_pop}
    /\ \E new \in [Current -> {<<v>> : v \in Values \cup {Plain}}] :
         LET made == {v \in Values : \E tr \in Current : new[tr] = <<v>>}
             copyOf == CHOOSE g \in [Next_pop -> Current] : IsInjective(g)
         IN  /\ \A v \in made : life[v] = "unborn"
             /\ \A tr, other \in Current :
                  new[tr] = new[other] /\ tr # other => new[tr] = <<Plain>>
             /\ life' = [v \in Values |-> IF v \in made THEN "live" ELSE life[v]]
             /\ count' = [v \in Values |-> IF v \in made THEN BornCount ELSE count[v]]
             /\ todo' = [todo EXCEPT ![Main] = ResetAccesses(new)]
             /\ ops' = [tr \in Trees |-> IF tr \in Current THEN new[tr]
                                         ELSE IF tr \in Next_pop THEN new[copyOf[tr]]
                                         ELSE ops[tr]]
    /\ generation' = 0
    /\ bred' = {}
    /\ UNCHANGED <<setting, drops, slot, front, phase>>

BeginExit ==
    /\ phase = "breed" /\ Quiet /\ bred \in {{}, Next_pop}
    /\ phase' = "exit"
    /\ UNCHANGED <<setting, ops, valueVars, todo, slot, bred, front, generation>>

\* A thread's own tree is destroyed when the thread ends: the workers' before
\* the destructor of the program has joined them, the owner's before the program
\* that is static and after the populations of one that is not.  In the second
\* case the tree reads the operators of a program that has ended; they are taken
\* to be what they were.
ExitThread(t) ==
    /\ Free(t) /\ ops[MyTree(t)] # <<>>
    /\ \/ phase = "exit"
       \/ /\ t = Main /\ phase = "destroy"
          /\ \A tr \in PopA \cup PopB : ops[tr] = <<>>
    /\ todo' = [todo EXCEPT ![t] = Decrements(ops[MyTree(t)])]
    /\ ops' = [ops EXCEPT ![MyTree(t)] = <<>>]
    /\ UNCHANGED <<valueVars, runVars>>

\* The workers are joined; the populations' trees are destroyed in turn.
DestroyTree ==
    /\ phase \in {"exit", "destroy"} /\ Quiet
    /\ \A t \in setting.workers : ops[MyTree(t)] = <<>>
    /\ phase' = "destroy"
    /\ \E tr \in PopA \cup PopB :
         /\ ops[tr] # <<>>
         /\ todo' = [todo EXCEPT ![Main] = Decrements(ops[tr])]
         /\ ops' = [ops EXCEPT ![tr] = <<>>]
    /\ UNCHANGED <<setting, valueVars, slot, bred, front, generation>>

Destroyed ==
    /\ \A tr \in Trees : ops[tr] = <<>>
    /\ phase \in {"exit", "destroy"} /\ Quiet
    /\ UNCHANGED vars

-----------------------------------------------------------------------------
Count(t) == Increment(t) \/ Decrement(t) \/ TestDrop(t) \/ TestKeep(t)

Edit(t) ==
    \/ TakeSlots(t) \/ CopyParent(t) \/ SwapSubtrees(t) \/ SwapWithScratch(t) \/ FinishSlots(t)
    \/ ClearScratch(t) \/ GenerateScratch(t) \/ CopySubtree(t)
    \/ ReplaceSubtree(t) \/ ModifyOperator(t)

Next ==
    \/ \E t \in Threads : Count(t) \/ Edit(t) \/ ExitThread(t)
    \/ SwapPopulations \/ Reset \/ BeginExit \/ DestroyTree \/ Destroyed

Spec == Init /\ [][Next]_vars

-----------------------------------------------------------------------------
(* Properties.                                                             *)

\* Counters and lives are what the code can hold.
TypeOK ==
    /\ setting \in Settings
    /\ ops \in [Trees -> BoundedSeq(Values \cup {Plain}, MaxLen)]
    /\ count \in [Values -> Nat]
    /\ life \in [Values -> {"unborn", "live", "dropped"}]
    /\ drops \in [Values -> Nat]
    /\ \A t \in Threads : \A i \in 1..Len(todo[t]) :
         todo[t][i] \in [kind : {"inc", "dec", "test"}, of : Values]
    /\ slot \in [Threads -> SUBSET (PopA \cup PopB)]
    /\ bred \subseteq Next_pop
    /\ phase \in {"breed", "exit", "destroy"}
    /\ generation \in 0..MaxGen

\* The places of x in the sequences of f.
Places(f, x) == UNION {{d} \X {i \in 1..Len(f[d]) : f[d][i] = x} : d \in DOMAIN f}

\* The operators, in any tree, that hold v; the accesses to v still to come.
Holders(v) == Places(ops, v)
Pending(kind, v) == Places(todo, [kind |-> kind, of |-> v])

\* While a value lives its counter plus what the running operations still owe
\* is exactly the number of operators that hold it, over all trees.
CounterExact ==
    \A v \in Values : life[v] = "live" =>
        count[v] + Cardinality(Pending("inc", v)) - Cardinality(Pending("dec", v))
            = Cardinality(Holders(v))

\* No tree of either population, and no thread's own tree, holds a value that
\* was dropped: evaluation and printing never read one.
HeldIsLive == \A v \in Values : Holders(v) # {} => life[v] = "live"

\* Between operations every live value is held: nothing leaks, and once all
\* trees are destroyed everything was dropped.
NothingLeaks ==
    Quiet => \A v \in Values : life[v] = "live" => Holders(v) # {}

Alone == setting.workers = {}

\* A value is dropped once, and its counter deleted once.
DroppedOnce == \A v \in Values : drops[v] <= 1

\* A program of one thread drops each value once, through copies, edits,
\* generations, resets and destruction.
DroppedOnceAlone == Alone => DroppedOnce

\* A counter is counted up and down only before it was deleted, by any number
\* of threads, and in a program of one thread it is not tested after that either:
\* no operation counts out a value before it has counted in all that it goes on
\* to hold.
CounterOutlivesUse ==
    \A t \in Threads :
        todo[t] # <<>> /\ (Alone \/ Head(todo[t]).kind # "test")
            => life[Head(todo[t]).of] = "live"

=============================================================================
