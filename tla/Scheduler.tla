------------------------------ MODULE Scheduler ------------------------------
(***************************************************************************)
(* The thread pool of gp_program and the multi-threaded generational       *)
(* service it executes (include/blt/gp/program.h, src/program.cpp).        *)
(*                                                                         *)
(* gp_program's constructor starts one worker per hardware thread; the     *)
(* caller's thread is thread 0, here Main.  A worker parks on a condition  *)
(* variable until a service is published, caches a pointer to it and then  *)
(* calls it for ever.  Main calls the same service once per                *)
(* evaluate_fitness() and once per create_next_generation().  All callers  *)
(* walk through the service body in lockstep, kept together by a barrier   *)
(* that opens when every thread has arrived; between two barriers they     *)
(* split the population among themselves by lowering an atomic counter     *)
(* with compare-exchange.                                                  *)
(*                                                                         *)
(* One label of pc is one point of the code between two accesses to shared *)
(* state.  The trees are abstracted to what happened to their slot.        *)
(***************************************************************************)
EXTENDS Integers

CONSTANTS
    Threads,          \* every thread that executes the service, Main included
    Main,             \* the thread that owns the gp_program (id 0)
    PopSize,          \* config.population_size
    EvalSize,         \* config.evaluation_size, elements per claim
    Elites,           \* config.elites
    MaxGen,           \* bound on the number of generations the caller creates
    DestroyUnused     \* may the program be destroyed before any setup_* call?

ASSUME ThreadsAssumption == Main \in Threads
ASSUME SizesAssumption ==
    /\ PopSize \in Nat \ {0}
    /\ EvalSize \in Nat \ {0}
    /\ Elites \in 0..PopSize
    /\ MaxGen \in Nat
ASSUME DestroyAssumption == DestroyUnused \in BOOLEAN

VARIABLES
    pc,             \* where each thread is
    arrived,        \* threads counted by the barrier and waiting in it
    service,        \* thread_execution_service # nullptr
    cached,         \* worker-local execution_function # nullptr
    lifetimeOver,   \* thread_helper.lifetime_over
    evalLeft,       \* thread_helper.evaluation_left
    genLeft,        \* thread_helper.next_gen_left
    seen,           \* per thread: `end` as last loaded from the counter
    range,          \* per thread: what is left of the claimed [b, e)
    oldSum,         \* per thread: `old_overall` as last loaded
    overall,        \* current_stats.overall_fitness, in individuals added
    evals,          \* per slot of current_pop: evaluations since it was filled
    slot,           \* per slot of next_pop: what was last written to it
    call,           \* which of Main's functions called the service
    generation      \* current_generation

poolVars == <<arrived, service, cached, lifetimeOver>>
claimVars == <<evalLeft, genLeft, seen, range>>
popVars == <<oldSum, overall, evals, slot>>
mainVars == <<call, generation>>
vars == <<pc, poolVars, claimVars, popVars, mainVars>>

Workers == Threads \ {Main}
Idx == 0..(PopSize - 1)

-----------------------------------------------------------------------------
(* The points of the code a thread can be at.                              *)

\* barrier.wait() in the service: b0 on entry, b1 and b2 around the fitness
\* evaluation, b3 and b4 around the serial part of breeding, bEnd at the end.
BarrierSites == {"b0", "b1", "b2", "b3", "b4", "bEnd"}

EvalSites == {"evalLoop", "evalLoad", "evalCas", "evalRun", "sumCas"}
BreedSites == {"genLoop", "genLoad", "genCas", "genRun"}
ServiceSites == BarrierSites \cup EvalSites \cup BreedSites
                  \cup {"evalTest", "genTest", "elitism"}

WorkerSites == {"loop", "lock", "parked", "woken", "done"}
DestructorSites == {"dtorBarrier", "dtorCond", "join", "destroyed"}
MainSites == {"ctor", "unscored", "scored", "sort", "swap"}
                \cup DestructorSites

\* Where a thread that leaves the barrier it waits in continues.
After(t) ==
    CASE pc[t] = "b0" -> "evalTest"
      [] pc[t] = "b1" -> "evalLoop"
      [] pc[t] = "b2" -> "genTest"
      [] pc[t] = "b3" -> IF t = Main THEN "elitism" ELSE "b4"
      [] pc[t] = "b4" -> "genLoop"
      [] OTHER -> IF t # Main THEN "loop"
                  ELSE IF call = "evaluate" THEN "sort" ELSE "swap"

Goto(t, label) == pc' = [pc EXCEPT ![t] = label]

At(t, label) == pc[t] = label

Init ==
    /\ pc = [t \in Threads |-> IF t = Main THEN "ctor" ELSE "loop"]
    /\ arrived = {}
    /\ service = FALSE
    /\ cached = [t \in Workers |-> FALSE]
    /\ lifetimeOver = FALSE
    /\ evalLeft = 0
    /\ genLeft = 0
    /\ seen = [t \in Threads |-> 0]
    /\ range = [t \in Threads |-> [b |-> 0, e |-> 0]]
    /\ oldSum = [t \in Threads |-> 0]
    /\ overall = 0
    /\ evals = [i \in Idx |-> 0]
    /\ slot = [i \in Idx |-> "stale"]
    /\ call = "none"
    /\ generation = 0

-----------------------------------------------------------------------------
(* The barrier (external: blt::barrier_t).  It is constructed with the     *)
(* number of threads and with lifetime_over as its exit condition: once    *)
(* that is set nobody waits in it any more.                                *)

BarrierWait(t) ==
    /\ ~lifetimeOver
    /\ pc[t] \in BarrierSites
    /\ t \notin arrived
    /\ arrived \cup {t} # Threads
    /\ arrived' = arrived \cup {t}
    /\ UNCHANGED <<pc, service, cached, lifetimeOver, claimVars, popVars, mainVars>>

\* The last thread to arrive opens the barrier for all of them.
BarrierOpen(t) ==
    /\ ~lifetimeOver
    /\ pc[t] \in BarrierSites
    /\ t \notin arrived
    /\ arrived \cup {t} = Threads
    /\ arrived' = {}
    /\ pc' = [u \in Threads |-> After(u)]
    /\ UNCHANGED <<service, cached, lifetimeOver, claimVars, popVars, mainVars>>

BarrierExit(t) ==
    /\ lifetimeOver
    /\ pc[t] \in BarrierSites
    /\ t \notin arrived
    /\ Goto(t, After(t))
    /\ UNCHANGED <<poolVars, claimVars, popVars, mainVars>>

-----------------------------------------------------------------------------
(* The worker's loop, create_threads() in src/program.cpp.                 *)

WorkerTest(t) ==
    /\ At(t, "loop")
    /\ Goto(t, IF lifetimeOver THEN "done" ELSE IF cached[t] THEN "b0" ELSE "lock")
    /\ UNCHANGED <<poolVars, claimVars, popVars, mainVars>>

\* Under thread_function_control: the check and the start of the wait are
\* one step for everybody who takes the lock.
WorkerLock(t) ==
    /\ At(t, "lock")
    /\ IF service
       THEN /\ cached' = [cached EXCEPT ![t] = TRUE]
            /\ Goto(t, "b0")
       ELSE /\ Goto(t, "parked")
            /\ UNCHANGED cached
    /\ UNCHANGED <<arrived, service, lifetimeOver, claimVars, popVars, mainVars>>

\* A condition variable may wake a thread that nobody notified.
SpuriousWake(t) ==
    /\ At(t, "parked")
    /\ Goto(t, "woken")
    /\ UNCHANGED <<poolVars, claimVars, popVars, mainVars>>

WorkerWoken(t) ==
    /\ At(t, "woken")
    /\ Goto(t, IF lifetimeOver THEN "done" ELSE "lock")
    /\ UNCHANGED <<poolVars, claimVars, popVars, mainVars>>

\* pc after thread_function_condition.notify_all() and Main's move.
NotifyAll(label) ==
    pc' = [t \in Threads |-> IF t = Main THEN label
                             ELSE IF pc[t] = "parked" THEN "woken" ELSE pc[t]]

-----------------------------------------------------------------------------
(* Main: the calls a program makes, in the order the tests make them.      *)

\* setup_generational_evaluation: publishes the service under the lock.  With
\* eval_fitness_now the evaluation follows, otherwise when the owner asks.
Setup ==
    /\ At(Main, "ctor")
    /\ service' = TRUE
    /\ NotifyAll("unscored")
    /\ UNCHANGED <<arrived, cached, lifetimeOver, claimVars, popVars, mainVars>>

\* Mutated: the counter starts at the last index, not at the size.
EvaluateFitnessOffByOne ==
    /\ pc[Main] \in {"unscored", "scored"}
    /\ overall' = 0
    /\ evals' = [i \in Idx |-> 0]
    /\ evalLeft' = PopSize - 1
    /\ call' = "evaluate"
    /\ Goto(Main, "b0")
    /\ UNCHANGED <<poolVars, genLeft, seen, range, oldSum, slot, generation>>

\* evaluate_fitness_internal up to the service call.
EvaluateFitness ==
    /\ pc[Main] \in {"unscored", "scored"}
    /\ overall' = 0
    /\ evals' = [i \in Idx |-> 0]
    /\ evalLeft' = PopSize
    /\ call' = "evaluate"
    /\ Goto(Main, "b0")
    /\ UNCHANGED <<poolVars, genLeft, seen, range, oldSum, slot, generation>>

\* The rest of evaluate_fitness_internal: it moves every individual.
Sort ==
    /\ At(Main, "sort")
    /\ Goto(Main, "scored")
    /\ UNCHANGED <<poolVars, claimVars, popVars, mainVars>>

CreateNextGeneration ==
    /\ At(Main, "scored")
    /\ generation < MaxGen
    /\ genLeft' = PopSize
    /\ slot' = [i \in Idx |-> "stale"]
    /\ call' = "create"
    /\ Goto(Main, "b0")
    /\ UNCHANGED <<poolVars, evalLeft, seen, range, oldSum, overall, evals, generation>>

\* next_generation(); the caller evaluates the new population next.
NextGeneration ==
    /\ At(Main, "swap")
    /\ generation' = generation + 1
    /\ evals' = [i \in Idx |-> 0]
    /\ slot' = [i \in Idx |-> "stale"]
    /\ Goto(Main, "unscored")
    /\ UNCHANGED <<poolVars, claimVars, oldSum, overall, call>>

(* ~gp_program().                                                          *)

SetLifetimeOver ==
    /\ pc[Main] \in {"unscored", "scored"} \/ (DestroyUnused /\ At(Main, "ctor"))
    /\ lifetimeOver' = TRUE
    /\ Goto(Main, "dtorBarrier")
    /\ UNCHANGED <<arrived, service, cached, claimVars, popVars, mainVars>>

\* Mutated: the threads in the barrier are not told.
DestructorBarrierSilent ==
    /\ At(Main, "dtorBarrier")
    /\ Goto(Main, "dtorCond")
    /\ UNCHANGED <<poolVars, claimVars, popVars, mainVars>>

\* barrier.notify_all(): whoever waits finds the exit condition true.
DestructorBarrier ==
    /\ At(Main, "dtorBarrier")
    /\ arrived' = {}
    /\ pc' = [t \in Threads |-> IF t = Main THEN "dtorCond"
                                ELSE IF t \in arrived THEN After(t) ELSE pc[t]]
    /\ UNCHANGED <<service, cached, lifetimeOver, claimVars, popVars, mainVars>>

\* thread_function_condition.notify_all(), without the lock.
DestructorNotify ==
    /\ At(Main, "dtorCond")
    /\ NotifyAll("join")
    /\ UNCHANGED <<poolVars, claimVars, popVars, mainVars>>

Join ==
    /\ At(Main, "join")
    /\ \A t \in Workers : At(t, "done")
    /\ Goto(Main, "destroyed")
    /\ UNCHANGED <<poolVars, claimVars, popVars, mainVars>>

-----------------------------------------------------------------------------
(* multi_threaded_fitness_eval.                                            *)

\* Mutated: the last, smaller chunk is forgotten.
ChunkSizeNoMin(end) == EvalSize

ChunkSize(end) == IF end < EvalSize THEN end ELSE EvalSize

\* A thread is done with the first n individuals of what it holds.
Advance(t, n) == range' = [range EXCEPT ![t] = [b |-> @.b + n, e |-> @.e]]

EvalTest(t) ==
    /\ At(t, "evalTest")
    /\ Goto(t, IF evalLeft > 0 THEN "b1" ELSE "genTest")
    /\ UNCHANGED <<poolVars, claimVars, popVars, mainVars>>

\* Mutated: `>=` on an unsigned counter.
EvalLoopForever(t) ==
    /\ At(t, "evalLoop")
    /\ Goto(t, IF evalLeft >= 0 THEN "evalLoad" ELSE "b2")
    /\ UNCHANGED <<poolVars, claimVars, popVars, mainVars>>

EvalLoop(t) ==
    /\ At(t, "evalLoop")
    /\ Goto(t, IF evalLeft > 0 THEN "evalLoad" ELSE "b2")
    /\ UNCHANGED <<poolVars, claimVars, popVars, mainVars>>

EvalLoad(t) ==
    /\ At(t, "evalLoad")
    /\ seen' = [seen EXCEPT ![t] = evalLeft]
    /\ Goto(t, "evalCas")
    /\ UNCHANGED <<poolVars, evalLeft, genLeft, range, popVars, mainVars>>

\* Mutated: a plain store in place of the compare-exchange.
EvalClaimStore(t) ==
    /\ At(t, "evalCas")
    /\ LET begin == seen[t] - ChunkSize(seen[t]) IN
         /\ evalLeft' = begin
         /\ range' = [range EXCEPT ![t] = [b |-> begin, e |-> seen[t]]]
         /\ Goto(t, IF begin = seen[t] THEN "evalLoop" ELSE "evalRun")
    /\ UNCHANGED <<poolVars, genLeft, seen, popVars, mainVars>>

\* compare_exchange_weak took the chunk below the value last seen.
EvalClaim(t) ==
    /\ At(t, "evalCas")
    /\ evalLeft = seen[t]
    /\ LET begin == seen[t] - ChunkSize(seen[t]) IN
         /\ evalLeft' = begin
         /\ range' = [range EXCEPT ![t] = [b |-> begin, e |-> seen[t]]]
         /\ Goto(t, IF begin = seen[t] THEN "evalLoop" ELSE "evalRun")
    /\ UNCHANGED <<poolVars, genLeft, seen, popVars, mainVars>>

\* ... or failed and reloaded `end`.
EvalRetry(t) ==
    /\ At(t, "evalCas")
    /\ evalLeft # seen[t]
    /\ seen' = [seen EXCEPT ![t] = evalLeft]
    /\ UNCHANGED <<pc, poolVars, evalLeft, genLeft, range, popVars, mainVars>>

\* perform_fitness_function on one individual, then the load of old_overall.
EvalOne(t) ==
    /\ At(t, "evalRun")
    /\ evals' = [evals EXCEPT ![range[t].b] = @ + 1]
    /\ oldSum' = [oldSum EXCEPT ![t] = overall]
    /\ Goto(t, "sumCas")
    /\ UNCHANGED <<poolVars, claimVars, overall, slot, mainVars>>

\* Mutated: overall = overall + fitness, not atomic.
SumAddStore(t) ==
    /\ At(t, "sumCas")
    /\ overall' = oldSum[t] + 1
    /\ Advance(t, 1)
    /\ Goto(t, IF range[t].b + 1 < range[t].e THEN "evalRun" ELSE "evalLoop")
    /\ UNCHANGED <<poolVars, evalLeft, genLeft, seen, oldSum, evals, slot, mainVars>>

\* compare_exchange_weak on overall_fitness, then the next individual.
SumAdd(t) ==
    /\ At(t, "sumCas")
    /\ overall = oldSum[t]
    /\ overall' = oldSum[t] + 1
    /\ Advance(t, 1)
    /\ Goto(t, IF range[t].b + 1 < range[t].e THEN "evalRun" ELSE "evalLoop")
    /\ UNCHANGED <<poolVars, evalLeft, genLeft, seen, oldSum, evals, slot, mainVars>>

SumRetry(t) ==
    /\ At(t, "sumCas")
    /\ overall # oldSum[t]
    /\ oldSum' = [oldSum EXCEPT ![t] = overall]
    /\ UNCHANGED <<pc, poolVars, claimVars, overall, evals, slot, mainVars>>

-----------------------------------------------------------------------------
(* Breeding: the part of the service under `if (next_gen_left > 0)`.       *)

\* Mutated: without the barrier in front of the serial part.
GenTestNoBarrier(t) ==
    /\ At(t, "genTest")
    /\ Goto(t, IF genLeft = 0 THEN "bEnd" ELSE IF t = Main THEN "elitism" ELSE "b4")
    /\ UNCHANGED <<poolVars, claimVars, popVars, mainVars>>

GenTest(t) ==
    /\ At(t, "genTest")
    /\ Goto(t, IF genLeft > 0 THEN "b3" ELSE "bEnd")
    /\ UNCHANGED <<poolVars, claimVars, popVars, mainVars>>

\* id 0 alone: the elites fill the first slots and are taken off the counter.
Elitism ==
    /\ At(Main, "elitism")
    /\ slot' = [i \in Idx |-> IF i < Elites THEN "elite" ELSE slot[i]]
    /\ genLeft' = genLeft - Elites
    /\ Goto(Main, "b4")
    /\ UNCHANGED <<poolVars, evalLeft, seen, range, oldSum, overall, evals, mainVars>>

GenLoop(t) ==
    /\ At(t, "genLoop")
    /\ Goto(t, IF genLeft > 0 THEN "genLoad" ELSE "bEnd")
    /\ UNCHANGED <<poolVars, claimVars, popVars, mainVars>>

GenLoad(t) ==
    /\ At(t, "genLoad")
    /\ seen' = [seen EXCEPT ![t] = genLeft]
    /\ Goto(t, "genCas")
    /\ UNCHANGED <<poolVars, evalLeft, genLeft, range, popVars, mainVars>>

GenClaim(t) ==
    /\ At(t, "genCas")
    /\ genLeft = seen[t]
    /\ LET begin == seen[t] - ChunkSize(seen[t]) IN
         /\ genLeft' = begin
         /\ range' = [range EXCEPT ![t] = [b |-> begin, e |-> seen[t]]]
         /\ Goto(t, IF begin = seen[t] THEN "genLoop" ELSE "genRun")
    /\ UNCHANGED <<poolVars, evalLeft, seen, popVars, mainVars>>

GenRetry(t) ==
    /\ At(t, "genCas")
    /\ genLeft # seen[t]
    /\ seen' = [seen EXCEPT ![t] = genLeft]
    /\ UNCHANGED <<pc, poolVars, evalLeft, genLeft, range, popVars, mainVars>>

\* Mutated: c2 may lie outside the claim.
ChildrenUnbounded(t) ==
    {Elites + i : i \in {range[t].b, range[t].b + 1}}

\* The slots perform_selection is handed: c1, and c2 inside the claim.
Children(t) ==
    {Elites + i : i \in {j \in {range[t].b, range[t].b + 1} : j < range[t].e}}

\* perform_selection gave up after copying parents into its slots (crossover
\* failed too often); the caller tries the same slots again.
BreedFailed(t) ==
    /\ At(t, "genRun")
    /\ slot' = [i \in Idx |-> IF i \in Children(t) THEN "parent" ELSE slot[i]]
    /\ UNCHANGED <<pc, poolVars, claimVars, oldSum, overall, evals, mainVars>>

\* Mutated: the children land without the offset of the elites.
BreedNoOffset(t) ==
    /\ At(t, "genRun")
    /\ \E made \in {1, 2} :
         /\ range[t].b + made <= range[t].e
         /\ slot' = [i \in Idx |-> IF i \in range[t].b..(range[t].b + made - 1)
                                   THEN "child" ELSE slot[i]]
         /\ Advance(t, made)
         /\ Goto(t, IF range[t].b + made = range[t].e THEN "genLoop" ELSE "genRun")
    /\ UNCHANGED <<poolVars, evalLeft, genLeft, seen, oldSum, overall, evals, mainVars>>

\* perform_selection returned the number of children it made: two for a
\* crossover with a second slot, otherwise one.
Breed(t) ==
    /\ At(t, "genRun")
    /\ \E made \in {1, 2} :
         /\ range[t].b + made <= range[t].e
         /\ slot' = [i \in Idx |-> IF i \in (Elites + range[t].b)..(Elites + range[t].b + made - 1)
                                   THEN "child" ELSE slot[i]]
         /\ Advance(t, made)
         /\ Goto(t, IF range[t].b + made = range[t].e THEN "genLoop" ELSE "genRun")
    /\ UNCHANGED <<poolVars, evalLeft, genLeft, seen, oldSum, overall, evals, mainVars>>

-----------------------------------------------------------------------------
Barrier(t) == BarrierWait(t) \/ BarrierOpen(t) \/ BarrierExit(t)

Evaluation(t) ==
    \/ EvalTest(t) \/ EvalLoop(t) \/ EvalLoad(t) \/ EvalClaim(t)
    \/ EvalRetry(t) \/ EvalOne(t) \/ SumAdd(t) \/ SumRetry(t)

Breeding(t) ==
    \/ GenTest(t) \/ GenLoop(t) \/ GenLoad(t) \/ GenClaim(t)
    \/ GenRetry(t) \/ BreedFailed(t) \/ Breed(t)

WorkerStep(t) == WorkerTest(t) \/ WorkerLock(t) \/ WorkerWoken(t)

\* Calls the owner of the program chooses to make, and when.
OwnerCall ==
    \/ Setup \/ EvaluateFitness \/ CreateNextGeneration \/ NextGeneration
    \/ SetLifetimeOver

\* What Main does inside a call it has made.
MainStep ==
    \/ Sort \/ Elitism
    \/ DestructorBarrier \/ DestructorNotify \/ Join

\* The end of the run: the program object is gone.
Destroyed ==
    /\ At(Main, "destroyed")
    /\ UNCHANGED vars

Next ==
    \/ OwnerCall
    \/ MainStep
    \/ \E t \in Threads : Barrier(t) \/ Evaluation(t) \/ Breeding(t)
    \/ \E t \in Workers : WorkerStep(t) \/ SpuriousWake(t)
    \/ Destroyed

\* The operating system runs each runnable thread, and perform_selection,
\* which draws at random, succeeds at last.  No call of the owner is assumed
\* and no spurious wake-up.
Fairness ==
    /\ WF_vars(MainStep)
    /\ \A t \in Threads :
         WF_vars(Barrier(t)) /\ WF_vars(Evaluation(t)) /\ WF_vars(Breeding(t))
    /\ \A t \in Workers : WF_vars(WorkerStep(t))

Spec == Init /\ [][Next]_vars

FairSpec == Spec /\ Fairness

-----------------------------------------------------------------------------
(* Properties.                                                             *)

\* The variables hold what their C++ declarations allow; the counters never
\* leave 0..PopSize, so the unsigned subtractions never wrap.
TypeOK ==
    /\ pc \in [Threads -> MainSites \cup WorkerSites \cup ServiceSites]
    /\ pc[Main] \notin WorkerSites
    /\ \A t \in Workers : pc[t] \notin MainSites \cup {"elitism"}
    /\ arrived \subseteq Threads
    /\ service \in BOOLEAN
    /\ cached \in [Workers -> BOOLEAN]
    /\ lifetimeOver \in BOOLEAN
    /\ evalLeft \in 0..PopSize
    /\ genLeft \in 0..PopSize
    /\ seen \in [Threads -> 0..PopSize]
    /\ range \in [Threads -> [b : 0..PopSize, e : 0..PopSize]]
    /\ oldSum \in [Threads -> Nat]
    /\ overall \in Nat
    /\ evals \in [Idx -> Nat]
    /\ slot \in [Idx -> {"stale", "elite", "parent", "child"}]
    /\ call \in {"none", "evaluate", "create"}
    /\ generation \in Nat

\* The code between two barriers.  "bEnd" closes two of the segments.
OutsideSegment == MainSites \cup WorkerSites \cup {"b0"}
TestSegment == {"evalTest", "b1", "genTest", "b3", "bEnd"}
EvalSegment == EvalSites \cup {"b2"}
ElitismSegment == {"elitism", "b4"}
BreedSegment == BreedSites \cup {"bEnd"}
Segments == {OutsideSegment, TestSegment, EvalSegment, ElitismSegment, BreedSegment}

\* All threads are between the same two barriers, whatever branches they
\* took on counters that other threads are lowering: nobody scores while
\* another breeds, and while Main sorts, swaps or saves the populations
\* outside the service no worker is inside it (service body, program.h).
Lockstep ==
    ~lifetimeOver => \E S \in Segments : \A t \in Threads : pc[t] \in S

\* Two threads never hold the same individual at once, in scoring or breeding.
Holding(t) == pc[t] \in {"evalRun", "sumCas", "genRun"}
ClaimsDisjoint ==
    \A t, u \in Threads :
        t # u /\ Holding(t) /\ Holding(u) =>
            range[t].e <= range[u].b \/ range[u].e <= range[t].b

\* Main returns from evaluate_fitness only when every individual has been
\* scored, and no individual is ever scored twice in an evaluation.
EvaluatedExactlyOnce ==
    /\ \A i \in Idx : evals[i] <= 1
    /\ pc[Main] \in {"sort", "scored"} => \A i \in Idx : evals[i] = 1

\* ... and overall_fitness then counts each of them: no update was lost.
SumComplete == pc[Main] \in {"sort", "scored"} => overall = PopSize

\* create_next_generation returns only when each slot of the next population
\* holds an elite or a child, and none is still old or a parent's copy.
NextPopulationComplete ==
    pc[Main] = "swap" =>
        \A i \in Idx : slot[i] = IF i < Elites THEN "elite" ELSE "child"

\* A child or an elite once written is not overwritten before the swap.
ChildrenKept ==
    [][\A i \in Idx : /\ slot[i] \in {"elite", "child"}
                      /\ pc[Main] \notin {"scored", "swap"}
                      => slot'[i] = slot[i]]_vars

\* Every call of the service by Main returns.
ServiceReturns == pc[Main] = "b0" ~> pc[Main] \in {"sort", "swap"}

\* ~gp_program() returns: every worker leaves its loop and is joined.
DestructorReturns == lifetimeOver ~> pc[Main] = "destroyed"

\* What the service promises, with no thread in sight.
Evo == INSTANCE Evolution WITH
    phase <- CASE pc[Main] \in ServiceSites ->
                    IF call = "evaluate" THEN "scoring" ELSE "breeding"
               [] pc[Main] \in {"sort", "scored"} -> "scored"
               [] pc[Main] = "swap" -> "bred"
               [] pc[Main] \in DestructorSites -> "stopped"
               [] OTHER -> "unscored",
    scored <- {i \in Idx : evals[i] > 0},
    next <- [i \in Idx |-> IF slot[i] \in {"elite", "child"} THEN slot[i] ELSE "empty"],
    gen <- generation

\* The threads together implement one pass of scoring and one of breeding per
\* call, each individual handled once.
ImplementsEvolution == Evo!Spec

=============================================================================
