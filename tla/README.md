# A TLA+ model of blt-gp

`blt-gp` is a C++ library for strongly typed genetic programming. A program
registers typed operators, a generator makes a first population of trees, and
then the owner repeats *evaluate, breed, swap* until it is satisfied. The
library's own difficulties are the thread pool that does the first two steps
with barriers and lock-free counters, trees kept as an operator sequence beside
a stack of raw bytes, reference-counted constants shared between trees and
threads, a background thread that saves the program, and a binary state file.
This directory models these parts, model-checks them with TLC and proves with
TLAPS, for instances of any size, the safety of the thread pool and that it implements one
thread's work, that reference counters are exact and no tree holds a dropped value, that selection keeps
the best and gives what its strategies promise, the ownership and the independence of the byte stacks, what a load restores, and what
the sync thread visits.

## 1. Inventory

| Component | State | Operations | Interacts with | What is hard | What makes it correct |
|---|---|---|---|---|---|
| Generational thread pool (`program.h`, `program.cpp`) | the service function, each worker's cached copy, `lifetime_over`, one barrier, `evaluation_left`, `next_gen_left`, the two populations, `overall_fitness` | constructor, `setup_generational_evaluation`, `evaluate_fitness`, `create_next_generation`, `next_generation`, destructor | calls selection, elitism, fitness function, transformers | interleavings at compare-and-swap loops; up to five barriers per call, chosen by counters others change; shutdown | threads stay in one segment; each individual scored once, each slot bred once; calls and the destructor return |
| Service of one thread | the same, no barrier or claims | the same | the workers of the default configuration exist too | workers that should not be there | scores and breeds all, only when asked |
| Ephemeral values (`tree.h`, `tree.cpp`) | a counter per value, in a heap cell pointed to from every copy | copy, edit, clear, destroy, generate, `reset_program` | all of breeding, on all threads | decrement and test are two accesses; copies count one operator at a time | the counter is the number of holders; dropped once, never while held |
| Trees | operators and value bytes | find_endpoint, copy / replace / delete / insert / swap subtree, modify operator, to and from byte arrays, check, evaluate, drop arguments and results | transformers, generators, serialization | two sequences that must stay in step; argument offsets, once to read and once to drop | evaluation means what the structure says; what evaluation makes is dropped once |
| Mutation and crossover (`transformers.cpp`) | the edited trees, cached child positions | `apply` of each strategy, one point crossover included | trees, generators, operator tables | positions stale after an edit; types that must match | trees stay well formed |
| Operator tables, generators and initializers (`program.h`, `generators.cpp`) | tables per type; the generator's stack | `operator_builder::build`, select functions, `generate`, the four initializers | trees | coming to an end at the depth limit | well typed trees of bounded depth |
| Selection and elitism | the sorted population, probabilities, the position of `select_best_t` and `select_worst_t` | perform_elitism, the five strategies' select | the service | ties, duplicates, rounding | best kept, pressure and shares as promised |
| Saving and loading (`program.cpp`, `tree.cpp`) | files, of one save or several; the loading program | save_state, load_state, save_generation, load_generation, a sync object's overwriting and appending | sync objects | truncated and overwritten files, other operators, non-empty loaders | refused means untouched; what is loaded is what was saved |
| Sync objects (`sync.cpp`) | registry, a thread, `should_run` | add, remove, trigger | saving | start and stop of the thread against constructors and destructors | visits live objects only; stops; visits every object |
| Steady-state services (`program.h`) | as the pool, and what is left to replace | `setup_steady_state_evaluation` | selection, for what breeds and for what is replaced | one child replaced at a time; two where one is left | the best stay; modelled for one thread, in `Selection` |
| Stack allocator, aligned storage (`stack.h`, `allocator.h`) | a buffer per object, bytes stored, capacity | construct, copy, move, destroy, push, pop, copy_from, transfer, reserve, resize | trees | buffers change hands by growth, moves and destruction | each buffer has one owner; stacks are independent |
| Type system | a registry | – | trees | – | *not modelled*: filled before the program runs |
| `thread_manager_t` | a second pool | – | – | – | *not modelled*: never instantiated, and its loop could not end |
| Statistics, trackers, printing, examples, tests | – | – | – | – | *not modelled*: measurement, formatting and clients |

`PROJECT.json` lists the same components with their status, and under `hazards`
the places of the code that are hard to test, each with the properties that
cover it or the reason why none does.

## 2. Modules

```
Evolution <- Scheduler <- SchedulerProofs <- MCScheduler
SingleThread <- MCSingleThread, SingleThreadProofs
Sync <- MCSync, SyncProofs
Serialization <- MCSerialization
Serialization, SequenceLemmas <- SerializationProofs
RefCount <- MCRefCount
RefCount, SequenceLemmas <- RefCountProofs
Selection <- MCSelection
Selection, SequenceLemmas <- SelectionProofs

Tree <- OperatorTables <- TreeLife <- MCTreeLife
TreeLife INSTANCEs Generator (over OperatorTables) and Mutation (over Tree)

StackAllocator <- StackAllocatorProofs, MCStackAllocator
StackAllocator INSTANCEs WordStacks, which it implements
```

**Evolution** is the abstract specification of a generational run: what the
owner may rely on, without threads, barriers or counters. A population is
scored one individual at a time and each once; only a scored population is bred
from; elites come first, then children into empty slots; only a full next
population is moved to.

**Scheduler** is the thread pool. One step is one access to shared memory or
one lock-protected region: the worker's loop (`WorkerTest`, `WorkerLock`,
`WorkerWoken`), the load and the compare-and-swap of each claim (`EvalLoad`,
`EvalClaim`, `EvalRetry`, and the same for `Gen`), one individual scored
(`EvalOne`), the two halves of the addition to `overall_fitness` (`SumAdd`,
`SumRetry`), one `perform_selection` (`Breed`, `BreedFailed`), the barrier in
its arrive, open and leave parts, and the owner's calls. `pc` holds where each
thread is, `cached` the worker's thread-local copy of the service, `range` the
chunk a thread has claimed, `evals` and `slot` what has happened to each
individual. A compare-and-swap may fail only because another thread changed the
value: spurious failures, which `compare_exchange_weak` allows, are the same
retry with the value unchanged. The barrier and the condition variable belong to
other libraries; they are modelled from how `program.h` uses them (the barrier
lets all go when the last one arrives, and never again blocks once the destructor
notifies it; waits may wake spuriously).

**SingleThread** is the other service, with the same owner and the same worker
loop, since the constructor starts workers for the default configuration before
the caller's is known. Here the test of the service and the wait for it
(`program.cpp:257` and `259`) are two steps, `WorkerLock` and `WorkerWait`: the
mutex that is held between them excludes other workers (`LockFree`) but nothing that the owner
does, who stores this service and notifies without it. In `Scheduler`, whose
setup takes the mutex, they are one step.

**RefCount** models the counters. A tree is the sequence of the values its
operators hold; a tree operation is the list of the counter accesses it makes in
code order, and the accesses of several threads interleave. Each thread owns
the slots it breeds and a scratch tree (`get_thread_local`); parents are shared.
A crossover for which only one slot is left has the scratch tree for its second child
(`Children`, `SwapWithScratch`), and one that gives up leaves a copy of a parent in its
children, where a second slot is then given back (`FinishSlots`). The workers' scratch trees end
before the populations do; the owner's ends before them when the program is
static, and after them when it is not (`ExitThread`).
Before the first generation and between generations the owner may call
`reset_program`, which starts over with new trees and a copy of them. While it is in
there or destroys trees (`OwnerBusy`) nobody takes a slot, since workers breed only once
the owner has come to `create_next_generation`. The
threads, populations and values of a run are a record, chosen from `Settings` at
the start, so that one run checks several shapes.

**Tree** is the data structure as pure operators: `ops` and `vals`, a word of
the value stack remembering which constant pushed it. `Evaluate` follows the
evaluator (backwards over the operators, arguments at byte offsets from the top
of the stack); the reference definition `Denotation` reads the tree
as a term. `WellFormed` and `EvaluatesAsDenoted` compare the two. An evaluation
also leaves a trace of the droppable results it made and of what
`call_destructors`, with its own walk over the argument offsets, has dropped.
`ToByteArray` and `FromByteArray` take a tree apart and put it together, and
`Check` is the debug build's `tree_t::check`.

**OperatorTables** is what `operator_builder::build` leaves behind: the terminals
and functions of each type, the functions allowed at the depth limit, and the
program's selections from them. `BuildAssumption` is the condition `build`
aborts without.

**Generator** grows a tree one operator at a time from a stack of operators
still to be placed; the initializers choose which generator is called with which
maximum depth.

**Mutation** edits a tree by any sequence of crossovers and mutations, with every
random choice an existential. `NodeAdjust`, `NodeSubFunc`, `NodeJumpFunc` and
`NodeCopy` are the cases of `advanced_mutation_t::apply`, each one step. Crossover
points are chosen by both routes of the code, over all operators and by walking
down from the root. One point crossover lets the operators at
the two points change places over their arguments; it is modelled between
operators with the same arguments (section 6). A tree may also go through a byte
array between edits. A subtree that a mutation asks a generator for is one of a
small set, a function over terminals.

**TreeLife** joins the two: `Generate` makes a tree, `Begin` adopts it as a parent,
`Breed` edits it. A tree edited is hence one the generators can make. `Begin`
renumbers the constants modulo two, which is what telling them apart takes.

**StackAllocator** is the byte stack beneath every tree: `obj` holds each object's
`data_`, `bytes_stored` and `size_`, `heap` the words of each allocated buffer,
`alive` the objects between constructor and destructor. Sizes are in aligned
words, the unit of every size in the program. Pushing, the three `copy_from` and
`insert` end in the same step (`PutOnTop`), which grows the buffer when there is
no room. A failing `aligned_alloc` is not modelled, and callers never ask for more than is stored, which the
release build does not check.

**WordStacks** is what it promises, without buffers: independent sequences of
words; a copy is a copy, an append leaves the words below and all other stacks alone.

**Selection** runs whole generations on integer fitness values: score and sort
(`std::sort`: any order of the individuals, best first, ties in any order), elites, then children of any fitness or copies of any selected parent. With
`service = "steady"` it is the steady state service of one thread: individuals
of the scored population are replaced in place, where a strategy of
the user says. A crossover counts two: the strategy is asked until its second
answer is the first's individual (`while (c2 != &c1)`), so both children are
written over one. No strategy of the library can be that strategy, because the
template wants a tree it may write; the module takes one that follows the order
of `select_worst_t`.

**Serialization** reads a file field by field. `Files` are what saving leaves
behind: the whole state or the generation alone, cut off after any field,
written over an older save whose end remains (`Stale`, a field that no read
expects), or followed by the next save.
The loader may hold anything, an empty population included.

**Sync** is the registry of sync objects and its thread. The mutex is held by a
thread for a round; users' critical sections are one step. `oneThread`, chosen
once at the start, says whether the objects are created and destroyed by one
thread (a call at a time) or by several.

The MC modules give constants their values; each operation with the comment
"Mutated:" is a variant of the next definition with a plausible mistake, used to
show that the properties notice it.

## 3. Runs

| Run | Instance | Shows |
|---|---|---|
| `Scheduler_safety` | owner and 2 workers, 4 individuals in chunks of 2, 1 elite, 1 generation, symmetry of workers; 886 000 states | `Lockstep`, `ClaimsDisjoint`, `EvaluatedExactlyOnce`, `SumComplete`, `NextPopulationComplete`, `ChildrenKept`, the inductive invariant `IInv` (types included), and the refinement `ImplementsEvolution` |
| `Scheduler_live` | owner and 1 worker, 2 generations | `ServiceReturns`, `DestructorReturns` |
| `SingleThread_pool` | 1 worker, 3 individuals, 1 elite, 2 generations | while no worker has seen the service: `AloneScoresOnce`, `AloneBreedsAll`, `AloneScoresOnDemand`; in any case: calls return, and so does a destructor that notifies while no worker is between test and wait; 8 766 states |
| `SingleThread_overlap` | 1 worker, 2 individuals | counterexample: a worker runs the single-threaded service |
| `RefCount_counts` | one thread, populations of 1, 3 values, 2 operators a tree; one thread, populations of 2, 3 values, 1 operator a tree; two threads, populations of 2, 2 values, 1 operator a tree; two threads, populations of 1, 3 values, 1 operator a tree; 1 437 527 states | `CounterExact`, `HeldIsLive`, `NothingLeaks`, `CounterOutlivesUse` (for tests of a counter only with one thread); with one thread also `DroppedOnceAlone` |
| `RefCount_race` | two threads, populations of 2 | counterexample: a value dropped twice |
| `TreeLife_edits` | 3 types in 1 and 2 words, one without terminals, one droppable, 8 operators, depths 1 to 3, up to 6 operators a tree; 6 374 states | `GeneratesWellFormed`, `DepthsAgree`, `DepthBounded` of the generated trees; `StaysWellFormed`, `StaysEvaluable`, `DropsWhatTheyMade`, `CheckAccepts` after any edits |
| `TreeLife_mixed` | a function whose second argument is droppable and of another size than its first | counterexample: the destructor of an argument runs at a wrong offset |
| `StackAllocator_buffers` | 2 stacks, 3 buffers (symmetric), 2 words, capacity 3; 20 449 states | `BuffersOwnedOnce`, and the refinement `ImplementsWordStacks` |
| `Selection_elites` | 5 individuals, 3 elites, 3 fitness values, tournaments of 3; steady state: 2 replacements, one crossover that gives up; 4 015 states | `BestAreKept`, `WinnerBeatsTheField`, `SharesMatchFitness`, `SteadyKeepsTheBest` |
| `Serialization_load` | 6 operator tables, histories up to 2, populations up to 2, whole states and generations, torn, overwritten and appended to; 230 499 states | `RefusedIsUntouched`, `OtherOperatorsRefused`, `RestoredExactly`, `CompleteSaveLoads` |
| `Sync_threads` | 2 users with 2 lives each | live objects only, stopping, every registered object visited |

Why these bounds are enough to be interesting:

- *Scheduler.* Four individuals in chunks of two give two full chunks to three
  competing threads, so one always finds nothing; with one elite three slots
  remain, so the last chunk has one slot and no room for a crossover's second
  child. One generation makes every call pattern (evaluate, re-evaluate, create,
  next, evaluate); a second is in `Scheduler_live`.
- *SingleThread.* Three individuals with one elite leave two slots: both the pair
  and two single children happen, with attempts that give up between.
- *RefCount.* Two operators per tree make a copy that is longer, shorter and of
  equal length as what it replaces; three values are two more than a population
  of one starts with, and one more than a population of two does, so that a mutation or a reset can
  make new ones. Two threads with two slots are what a double drop
  needs. Two threads with one slot and a third value let the owner reset beside a worker: in
  populations of two that takes four values. One generation is bred between resets, and a reset counts
  generations anew, so that breeding over old slots, swapping, resetting and
  breeding again all happen.
- *TreeLife.* Six operators hold an operator with two arguments one of which
  has arguments itself. The type `cond` has no terminals, so generation at the
  depth limit takes its function over terminals; one type occupies two words, so
  that a wrong order of arguments reads across them. Two functions take the same types in
  another order, so that `NodeAdjust` replaces two children by trees of other sizes. Depths 1 to 3 and a
  population of 3 give the ramped initializer a step and a remainder. The second
  tree of a crossover is any generated one.
- *StackAllocator.* Growing needs a buffer besides the owner's; with two
  stacks, three buffers let one grow while the other has its own. Capacity 3
  lets a stack grow twice and be copied with an offset from inside.
- *Selection.* Three elites of five with three fitness values have all patterns
  of ties inside and across the elite boundary. Two replacements are one
  crossover or two mutations, and a crossover with one left has no second child.
- *Serialization.* The tables differ in length, in a name, in types and in the
  presence of a name; populations and histories of the loader may be smaller or
  larger than the saved ones; a save may be torn behind any field.
- *Sync.* Two objects and two lives have the registry run empty and be used again
  while another object is being created or removed.

Bounds are constants with `Max` or `Lives` in their names (`MaxGen`, `MaxLen`,
`MaxOps`, `MaxDepth`, `MaxHistory`, `MaxPop`, `MaxGiveUps`); the actions they stop are
choices of the owner or of a random generator, never a step the code must take.

## 4. Fairness

`FairSpec` assumes that every thread which can step does so in the end (weak
fairness per thread, justified by a preemptive operating system), that a lock
is not withheld from one thread forever (strong fairness for the steps of
`Sync` that take its mutex), and that `perform_selection`, which retries with new
random choices after a failed crossover, succeeds in the end: a repeated failure
leaves the model where it is, so weak fairness of the breeding step is met only
by a success. No call by the owner is assumed to be made, no spurious wake-up
and no notification that the code does not send. The sync thread's wait ends
by its timeout, so waking is always possible.

## 5. Proofs

All theorems are for every value of the constants, from the named assumptions
only. Each rests on an inductive invariant, written before its proof as a
conjunction of named parts; what TLC checks of it on the instances of section 3
is said below.

| Module | Theorem | States | For any |
|---|---|---|---|
| `SchedulerProofs` | `TypeCorrect` | `Spec => []TypeOK`, a part of `IInv`; the unsigned counters never wrap | number of threads, population size, number of elites, positive chunk size |
| | `LockstepHolds` | `Spec => []Lockstep` | |
| | `IInvHolds` | `Spec => []IInv` | |
| | `ClaimsAreDisjoint` | `Spec => []ClaimsDisjoint` | |
| | `ScoredExactlyOnce` | `Spec => []EvaluatedExactlyOnce` | |
| | `NextPopulationIsComplete` | `Spec => []NextPopulationComplete` | |
| | `ChildrenAreKept` | `Spec => ChildrenKept` | |
| | `PoolImplementsEvolution` | `Spec => ImplementsEvolution` | |
| | `SumIsComplete` | `Spec => []SumComplete` | |
| `SingleThreadProofs` | `ScoresOnce` | `Spec => []AloneScoresOnce` | number of workers, individuals, elites |
| | `BreedsAll` | `Spec => []AloneBreedsAll` | |
| | `ScoresOnDemand` | `Spec => AloneScoresOnDemand` | |
| `RefCountProofs` | `InvariantHolds`, `TypesHold` | `Spec => []IInv`, `Spec => []TypeOK` | number of threads, trees, values, operators a tree and generations |
| | `CountersAreExact` | `Spec => []CounterExact` | |
| | `HeldValuesLive` | `Spec => []HeldIsLive` | |
| | `NothingIsLost` | `Spec => []NothingLeaks` | |
| | `AloneDropsOnce` | `Spec => []DroppedOnceAlone` | |
| | `CountersOutliveUse` | `Spec => []CounterOutlivesUse` | |
| `SelectionProofs` | `InvariantHolds` | `Spec => []IInv` | population, elites, fitness values, size of tournaments, replacements |
| | `WinnersBeatTheField` | `Spec => []WinnerBeatsTheField` | |
| | `SharesAreFitness` | `Spec => []SharesMatchFitness` | |
| | `BestKept` | `Spec => BestAreKept` | |
| | `SteadyKeepsBest` | `Spec => SteadyKeepsTheBest` | |
| `StackAllocatorProofs` | `OwnedOnce` | `Spec => []BuffersOwnedOnce` | number of stacks, buffers, words |
| | `ImplementsStacks` | `Spec => ImplementsWordStacks` | |
| `SyncProofs` | `VisitsOnlyLiveObjects` | `Spec => []VisitsLiveObjects` | number of objects and lives |
| `SerializationProofs` | `RefusedLeavesAlone` | `Spec => []RefusedIsUntouched` | operator tables, histories and populations |
| | `OthersAreRefused` | `Spec => []OtherOperatorsRefused` | |
| | `RestoresExactly` | `Spec => []RestoredExactly` | |
| | `LoadsWhatIsComplete` | `Spec => []CompleteSaveLoads` | |

### The thread pool

None of its properties is inductive alone. That a thread which leaves the scoring loop
proves the population scored needs to know that what is below the counter is
unclaimed, what is above is claimed by exactly one thread or done, and that no
thread is still to claim; the last follows only from the barriers; and the
barriers' correctness needs the counters, since threads choose whether they
take two more barriers by reading `next_gen_left`. `IInv` is therefore

- `Control`: `TypeOK`, `Lockstep`, `Positions` (where a thread may be given who
  has arrived at the barrier and what the owner has called), `Counters` (what the
  two counters can be in each segment) and `Ranges` (claimed ranges lie above the
  counter);
- `ClaimsDisjoint`;
- `Scoring`: an individual below the counter is unscored, one in a claimed range
  is scored iff the owner of the range has passed it, any other is scored once;
- `Slots`: the same for the slots of the next population behind the elites.

`IInv` is preserved action by action: `Control` is proved first and by itself
(`ControlStep`, with one lemma for each group of actions); the others assume it
before and after the step. TLC checks `IInv` in `Scheduler_safety`.

*The refinement* maps the owner's position and the call it is in to `Evolution`'s phase,
`evals` to the set of scored individuals and `slot` to the children. `IInv`
gives what each abstract action needs: `EvalOne` scores an individual that was
not scored, `Breed` fills slots that are empty, and a call ends only when its
pass is complete. All other steps are shown to stutter. One more invariant is
needed, `Fresh`: outside `create_next_generation` the next population holds no child of this
generation. Without it the first `Breed` might map to nothing.

*The sum.* The addition to `overall_fitness` is a load and a compare-exchange that may
be repeated, so between the two an individual is scored and not yet in the sum.
`Sum` says that the sum counts the scored individuals but for those that some
thread is about to add; that two threads never add the same one is
`ClaimsDisjoint`. At the end of the call no thread is in the loop (`Positions`).

### The service of one thread

`Inv` is stated for as long as no worker has cached the service: `Outside` (a worker
without it is in none of its sites), `Asked` (the two counters tell
which job was asked for, and no site is reached for the other), and the loops' own
invariants `Scoring` and `Breeding`. What happens after is the counterexample of
`SingleThread_overlap`.

### Reference counts

`CounterExact` says nothing of a value whose counter was deleted, and so does not keep a tree
from holding one: a copy writes the operators first and counts them in later, and meanwhile
another thread may count out what it still reads. `IInv` adds to the types (`Typed`)

- `Discipline`: no two threads have a slot in common, a thread's slots are slots taken in this
  generation, nobody has one while the owner resets or threads end, and a test
  follows its decrement at once;
- `Backed`: what a thread has still to count in of a value lies in trees that only it
  writes (its slots and its own tree; the next population during a reset), and the
  value is held in one place more than that: in those trees or in the current
  population, which is not written while anybody breeds;
- `ValueOK`: a live value has *counter + increments to come = places that hold it +
  decrements to come*, and at zero a test is to come; a value that does not live is in no tree,
  and no list counts it.

The argument turns on `HeldBeyondDue`: by `Backed`, summed over threads whose trees
are apart, a value that is due to be counted in has more holders than increments to come. So when a
counter reaches zero nothing is held and nothing is due, and who drops the value drops it from
no tree. One access at a time is a lemma each (`IncrementKeeps` and its like). An operation
that edits trees is reduced to `Edits`, which says of every value that the list of
accesses makes up for what the edit changed (`Counted`) or that it is new (`Made`);
`EditKeeps` carries the invariant over it. What a list of accesses counts, for
trees of any length, rests on `SequenceLemmas`: how often a value
occurs in a sequence that is cut, joined, reversed and flattened, and in a family of them.

TLC checked `IInv` on the four instances of `RefCount_counts` before it was proved. The
proof found a guard that the model had lacked, `OwnerBusy`: a worker could take a slot while the owner was
in `reset_program`, which the barriers of `create_next_generation` exclude, and `HeldIsLive`
failed. The fourth instance has that case.

Nothing is proved of how often a value is dropped by several threads: `RefCount_race` shows that it may be twice.

### Selection

`IInv` is `Typed`, `InOrder` (a scored population is sorted), `ElitesCopied` (until the
populations change places the first of the next one are as good, place by place, as the first of
the current one) and `WorstReplaced`: for as long as the strategy has not gone once around, what the
steady state service has replaced are the last `worst` individuals, and `worst` is at most what
has been counted off plus the crossovers that gave up. TLC checked it in `Selection_elites` before
it was proved.

What the loops compute is the other half. Each is a fold; `FoldExists` of
`SequenceLemmas` gives its intermediate values and `FoldLast` lays them out one by one
(`BestSoFar`, `SumsTo`, `ElitesSoFar`), so that `Induction` applies:

- the tournament's winner is no worse than any individual drawn (`WinnerIsBest`), and those are as
  many different ones as it has places;
- cumulative sums never fall (`CumulativeRises`), so a choice is found in one interval only, and
  an interval holds as many choices as its individual has fitness;
- in a sorted population perform_elitism writes the first individuals to the first places, and one that
  comes later replaces one of them only when the two tie (`ElitesAreBest`).

`RanksKept` turns an agreement with the first *n* places of a sorted population into ranks: if *k*
of the old individuals reached a fitness, *k* of the new ones do. Nothing is asked of the
individuals behind them. `SecondIsFirst` shows that the service's search for a crossover's second child goes
once around and leaves the strategy where one selection would have.

### The byte stacks

The inductive invariant adds to `BuffersOwnedOnce`

- `TypeOK`, that objects and buffers are what they should be, and
- `Sound`: an object holds no more words than its capacity, and has no buffer
  iff its capacity is zero. Without it a write could leave the buffer, or an
  allocation of no words be taken for a free buffer.

Every operation either leaves the buffers where they are (`InPlace`), or moves
one object's words to a fresh buffer and frees the old one (`Moved`); the two
lemmas carry the invariant and the operations cite them. Moves and assignments
exchange owners, which is the third case.

*The refinement* maps an object to the words it has stored (`Contents`). That an
operation on one object leaves the contents of every other alone is where
single ownership is used; that growing keeps the words, and that a copy or a slice is
the same words in another buffer, are lemmas about each operation
(`PutOnTopAppends`, `ResizeKeepsWords`, `TransferBytesTransfers`), which `StepMaps` collects.

### The sync thread

The registry is the set of objects that are alive or in the destructor's erase (`Ordered`), and
what a round has still to visit is part of the registry (`Rounds`), since a round
holds the mutex. For owners in one thread, as in the property.

### Saving and loading

`FileHolds` says where every field of a program lies in what it writes, for any
number of operators, statistics and individuals; `FilesAgree` that whatever
follows from a save torn, written over an older one or followed by another has the same field
at the same place, or `Stale`, as far as it goes. Both rest on `FlattenLayout` of
`SequenceLemmas`: the parts of a `FlattenSeq` lie one after the other. That is an
induction over the number of parts; `SequenceLemmas` derives it from the least element of a
set of numbers, since the library's induction theorems have an operator for a
parameter that the provers cannot instantiate.

The invariant of `load_state` is

- `Matched` or `Doomed` while operators are compared: the operators so far agree and the reader
  is at the next one's field; or the file held one without a name, and the reader
  is where no index and no count can be read. `Doomed` is what makes the short
  read of an unnamed operator harmless to `OtherOperatorsRefused`;
- `Untouched` and `Shape`: nothing is written before the operators agree, and
  then only data;
- `Restoring`: while a complete file is read the reader is at the field it
  expects, and everything before it has been restored. It is claimed only where the
  population in the loader is no larger, as in the properties.

This invariant was checked with TLC on the instance of `Serialization_load` before it was proved.
The assumption on the tables, `SerializationAssumption`, says only that they are finite
sequences of records with a name and types, which `std::vector<operator_info_t>` gives.

### Only model-checked

- All liveness: reasoning under fairness and `ENABLED` is beyond the prover.
- `TreeLife`: `Tree`'s operators are folds and recursive definitions over operator sequences;
  what they compute for every tree is an induction over data. They are checked on all small trees.
- What the three counterexamples refute is, naturally, not a theorem; the proofs state what is left of it.

## 6. What the checks say about the code

Three runs are counterexamples, recorded in `PROJECT.json` under `findings`:

- **`RefCount_race`**: `handle_refcount_decrement` decrements the atomic counter
  and reads it again (`tree.h:668-669`). Two threads that give up the last two
  references can both read zero: `drop()` runs twice and the counter is deleted
  twice. With one thread (`DroppedOnceAlone` in `RefCount_counts`) the scheme is
  exact, and with several each counter is still the number of holders and no tree holds a dropped value.
- **`TreeLife_mixed`**: `call_destructors` starts below the first argument and
  then moves by the size of the argument it has just passed (`operations.h:81`); where
  the next one has another size, what is dropped is not the argument. With
  droppable arguments of one size, as in `TreeLife_edits`, each is dropped once.
- **`SingleThread_overlap`**: with `config.threads == 1` the service is installed
  without the lock (`program.h:573`) while the workers that the constructor
  started wait for one; they run it beside the owner.

Other limits were met while modelling. They bound what the properties claim, and
the conditions are in the properties' text:

- The destructor's notification can be lost, since `program.h:476-478` sets the flag and
  notifies without the mutex: a worker that has found no service (`program.cpp:257`) and does not
  wait yet (`program.cpp:259`) is not woken, and `join()` never returns. A service for several
  threads is installed under the mutex, after which no worker finds none, so there it takes a
  program destroyed before its setup: `Scheduler_live` has `DestroyUnused = FALSE`. The service
  of one thread is installed without the mutex (`program.h:573`), so there it can happen to any
  program, also one that was set up and has run: `DestructorReturns` of `SingleThread` asks that no
  worker be between the two lines when the destructor notifies, and without that condition TLC
  finds the trace.
- The tree that a thread keeps for itself (`tree.cpp:509`) has a pointer to the program of its first use.
  The owner's is destroyed when the thread ends, which for a program that is not static is after
  `~gp_program`, and its destructor reads the operators' table through that pointer (`tree.h:645`).
  `RefCount` takes the table to be what it was: the counters are right, the read is not.
- `operators_ordered_terminals` keeps the functions with *most* terminal inputs
  (`program.h:333`), not those with *only* terminal inputs; `DepthBounded` is checked for
  operator sets where the two agree.
- With an overall fitness of zero the proportions are 0/0 and the fallback
  individual is chosen (`selection.cpp:97`): `SharesMatchFitness` asks for a
  positive sum.
- More is written for an operator without a name than is read (`program.cpp:174`):
  `CompleteSaveLoads` and `OtherOperatorsRefused` are for named operators.
- A truncated file past the operators is loaded in part and reported as a success
  (`program.cpp:227`): nothing is claimed of it.
- A population never shrinks when loaded over (`program.cpp:84`):
  `RestoredExactly` asks for a loader that holds no more individuals.
- A save written over a longer one leaves the older one's end behind it
  (`sync.cpp:94` seeks and does not truncate). A complete save is read by its own counts and
  never reaches it; a torn one may run on into it.
- `get_evaluation_value` returns a copy of a result that its `evaluation_ref` then drops
  (`tree.h:510`): `DropsWhatTheyMade` is about `get_evaluation_ref`, released before the
  next evaluation.
- Where two operators' arguments differ, one point crossover indexes children, which lie last argument
  first, by argument, and goes on with extents that its first exchange made stale
  (`transformers.cpp:339`). It is modelled where they agree.
- In the steady state service of several threads a crossover counts two where
  one is left and the unsigned remainder wraps (`program.h:772`). That service is not modelled.
- `should_run` is never set again (`sync.cpp:68`) and the thread pointer is
  tested outside the mutex (`sync.cpp:36`): the sync properties are for one owner, or for
  as long as the thread is wanted.

## 7. Plan

Done, in this order because each carries the next: `Evolution` and `Scheduler`
with their proofs; `SingleThread`; `RefCount`; `Tree`, `OperatorTables`, `Generator`,
`Mutation` and `TreeLife`; `Sync`, `Selection` and `Serialization`; `WordStacks` and
`StackAllocator` with its proofs; then drops, byte arrays and `check` in `Tree`, one point crossover in
`Mutation`, the steady state service and the last two strategies in `Selection`, files that were
written over and appended to in `Serialization`, and resets in `RefCount`.

The proofs followed the same order: `SchedulerProofs` and `OwnedOnce` first, then `ChildrenKept`,
the refinement of `Evolution` and `SumComplete` from `IInv`, `SingleThreadProofs`,
`SyncProofs`, the refinement of `WordStacks`, `SequenceLemmas` and `SerializationProofs`,
`RefCountProofs`, and `SelectionProofs` last, each from lemmas on sequences and folds of the one before.

What is left to prove is `TreeLife`: that generated trees are well formed and their depth bounded
(`GeneratesWellFormed`, `DepthBounded`), and that editing keeps them so (`StaysWellFormed`,
`CheckAccepts`), which are inductions over the trees that the generators and the edits build.

## 8. Not modelled

- *The steady state service of several threads*: nothing in the repository calls it; its remainder can wrap and it
  writes the scored population over, so no property of it is left to state.
- *One point crossover between operators with different arguments*, and `advanced_crossover_t`, which
  cannot be constructed (its constructor is private).
- *A save while the owner is in a call* (`sync.cpp:96`): nothing keeps the two apart, and every
  mixture of the two populations can be written.
- *A second setup* of a program, *`kill()`*, an `evaluation_size` of zero and equal depths for the ramped
  initializer: the modules' assumptions exclude them, as every caller in the repository does.
- *Counters of values loaded from a file*: the file holds the pointers of the process that wrote it.
- *Failing allocation*, and operations on more bytes than a stack holds, which the release build does not check.
- *The type system*, a registry filled before the program runs; *`thread_manager_t`*; *trackers and
  statistics* compiled in for measurement; *printing*; *the examples and tests*, which show how the library is called.
