----------------------------- MODULE SingleThread -----------------------------
(***************************************************************************)
(* The service that setup_generational_evaluation installs when            *)
(* config.threads is 1 (include/blt/gp/program.h).  It has no barrier and  *)
(* no claims: whoever calls it scores the whole population and breeds the  *)
(* whole next one.                                                         *)
(*                                                                         *)
(* The constructor starts its workers from the default configuration,      *)
(* before the caller's is copied, so the workers of Scheduler exist here   *)
(* too.  The service is stored without the lock and nobody is notified.    *)
(***************************************************************************)
EXTENDS Integers

CONSTANTS
    Workers,          \* the threads the constructor started
    Main,             \* the thread that owns the gp_program
    PopSize,          \* config.population_size
    Elites,           \* config.elites
    MaxGen            \* bound on the number of generations the caller creates

ASSUME WorkersAssumption == Main \notin Workers
ASSUME SizesAssumption ==
    PopSize \in Nat \ {0} /\ Elites \in 0..PopSize /\ MaxGen \in Nat

VARIABLES
    pc,             \* where each thread is
    service,        \* thread_execution_service # nullptr
    cached,         \* worker-local execution_function # nullptr
    lifetimeOver,   \* thread_helper.lifetime_over
    evalLeft,       \* thread_helper.evaluation_left
    genLeft,        \* thread_helper.next_gen_left
    cursor,         \* per thread: the loop index of the service
    evals,          \* per slot of current_pop: evaluations in this round
    slot,           \* per slot of next_pop: what was last written to it
    call,           \* which of Main's functions called the service
    generation      \* current_generation

poolVars == <<service, cached, lifetimeOver>>
popVars == <<evals, slot>>
mainVars == <<call, generation>>
vars == <<pc, poolVars, evalLeft, genLeft, cursor, popVars, mainVars>>

Threads == Workers \cup {Main}
Idx == 0..(PopSize - 1)
ServiceSites == {"enter", "eval", "evalEnd", "gen", "elitism", "breed", "genEnd"}
DestructorSites == {"dtorCond", "join", "destroyed"}

At(t, label) == pc[t] = label
Goto(t, label) == pc' = [pc EXCEPT ![t] = label]

Init ==
    /\ pc = [t \in Threads |-> IF t = Main THEN "ctor" ELSE "loop"]
    /\ service = FALSE
    /\ cached = [t \in Workers |-> FALSE]
    /\ lifetimeOver = FALSE
    /\ evalLeft = 0
    /\ genLeft = 0
    /\ cursor = [t \in Threads |-> 0]
    /\ evals = [i \in Idx |-> 0]
    /\ slot = [i \in Idx |-> "stale"]
    /\ call = "none"
    /\ generation = 0

-----------------------------------------------------------------------------
(* The worker's loop.                                                      *)

WorkerTest(t) ==
    /\ At(t, "loop")
    /\ Goto(t, IF lifetimeOver THEN "done" ELSE IF cached[t] THEN "enter" ELSE "lock")
    /\ UNCHANGED <<poolVars, evalLeft, genLeft, cursor, popVars, mainVars>>

\* thread_function_control is held from the test of the service to the wait.
LockFree == \A t \in Workers : ~At(t, "waits")

WorkerLock(t) ==
    /\ At(t, "lock") /\ LockFree
    /\ cached' = [cached EXCEPT ![t] = service]
    /\ Goto(t, IF service THEN "enter" ELSE "waits")
    /\ UNCHANGED <<service, lifetimeOver, evalLeft, genLeft, cursor, popVars, mainVars>>

\* wait(lock) parks the worker and releases the lock.  Nothing that Main does
\* takes the lock, so the service and the notification may both have come since
\* the test.
WorkerWait(t) ==
    /\ At(t, "waits")
    /\ Goto(t, "parked")
    /\ UNCHANGED <<poolVars, evalLeft, genLeft, cursor, popVars, mainVars>>

\* A condition variable may wake a thread that nobody notified.
SpuriousWake(t) ==
    /\ At(t, "parked")
    /\ Goto(t, "woken")
    /\ UNCHANGED <<poolVars, evalLeft, genLeft, cursor, popVars, mainVars>>

WorkerWoken(t) ==
    /\ At(t, "woken") /\ LockFree
    /\ Goto(t, IF lifetimeOver THEN "done" ELSE "lock")
    /\ UNCHANGED <<poolVars, evalLeft, genLeft, cursor, popVars, mainVars>>

-----------------------------------------------------------------------------
(* Main.                                                                   *)

\* setup_generational_evaluation with config.threads == 1.
Setup ==
    /\ At(Main, "ctor")
    /\ service' = TRUE
    /\ Goto(Main, "unscored")
    /\ UNCHANGED <<cached, lifetimeOver, evalLeft, genLeft, cursor, popVars, mainVars>>

EvaluateFitness ==
    /\ pc[Main] \in {"unscored", "scored"}
    /\ evals' = [i \in Idx |-> 0]
    /\ evalLeft' = PopSize
    /\ call' = "evaluate"
    /\ Goto(Main, "enter")
    /\ UNCHANGED <<poolVars, genLeft, cursor, slot, generation>>

Sort ==
    /\ At(Main, "sort")
    /\ Goto(Main, "scored")
    /\ UNCHANGED <<poolVars, evalLeft, genLeft, cursor, popVars, mainVars>>

CreateNextGeneration ==
    /\ At(Main, "scored")
    /\ generation < MaxGen
    /\ genLeft' = PopSize
    /\ slot' = [i \in Idx |-> "stale"]
    /\ call' = "create"
    /\ Goto(Main, "enter")
    /\ UNCHANGED <<poolVars, evalLeft, cursor, evals, generation>>

NextGeneration ==
    /\ At(Main, "swap")
    /\ generation' = generation + 1
    /\ evals' = [i \in Idx |-> 0]
    /\ slot' = [i \in Idx |-> "stale"]
    /\ Goto(Main, "unscored")
    /\ UNCHANGED <<poolVars, evalLeft, genLeft, cursor, call>>

\* ~gp_program(); nobody is ever in the barrier.
SetLifetimeOver ==
    /\ pc[Main] \in {"unscored", "scored"}
    /\ lifetimeOver' = TRUE
    /\ Goto(Main, "dtorCond")
    /\ UNCHANGED <<service, cached, evalLeft, genLeft, cursor, popVars, mainVars>>

\* Mutated: the parked workers are not told.
DestructorNotifySilent ==
    /\ At(Main, "dtorCond")
    /\ Goto(Main, "join")
    /\ UNCHANGED <<poolVars, evalLeft, genLeft, cursor, popVars, mainVars>>

DestructorNotify ==
    /\ At(Main, "dtorCond")
    /\ pc' = [t \in Threads |-> IF t = Main THEN "join"
                                ELSE IF pc[t] = "parked" THEN "woken" ELSE pc[t]]
    /\ UNCHANGED <<poolVars, evalLeft, genLeft, cursor, popVars, mainVars>>

Join ==
    /\ At(Main, "join")
    /\ \A t \in Workers : At(t, "done")
    /\ Goto(Main, "destroyed")
    /\ UNCHANGED <<poolVars, evalLeft, genLeft, cursor, popVars, mainVars>>

-----------------------------------------------------------------------------
(* The service.                                                            *)

\* single_threaded_fitness_eval: `if (evaluation_left > 0)`.
Enter(t) ==
    /\ At(t, "enter")
    /\ cursor' = [cursor EXCEPT ![t] = 0]
    /\ Goto(t, IF evalLeft > 0 THEN "eval" ELSE "gen")
    /\ UNCHANGED <<poolVars, evalLeft, genLeft, popVars, mainVars>>

\* Mutated: the loop stops before the last individual.
EvalOneShort(t) ==
    /\ At(t, "eval")
    /\ evals' = [evals EXCEPT ![cursor[t]] = @ + 1]
    /\ cursor' = [cursor EXCEPT ![t] = @ + 1]
    /\ Goto(t, IF cursor[t] + 1 < PopSize - 1 THEN "eval" ELSE "evalEnd")
    /\ UNCHANGED <<poolVars, evalLeft, genLeft, slot, mainVars>>

\* perform_fitness_function(0, size) one individual at a time.
EvalOne(t) ==
    /\ At(t, "eval")
    /\ evals' = [evals EXCEPT ![cursor[t]] = @ + 1]
    /\ cursor' = [cursor EXCEPT ![t] = @ + 1]
    /\ Goto(t, IF cursor[t] + 1 < PopSize THEN "eval" ELSE "evalEnd")
    /\ UNCHANGED <<poolVars, evalLeft, genLeft, slot, mainVars>>

\* Mutated: the counter is not cleared.
EvalEndNoReset(t) ==
    /\ At(t, "evalEnd")
    /\ Goto(t, "gen")
    /\ UNCHANGED <<poolVars, evalLeft, genLeft, cursor, popVars, mainVars>>

EvalEnd(t) ==
    /\ At(t, "evalEnd")
    /\ evalLeft' = 0
    /\ Goto(t, "gen")
    /\ UNCHANGED <<poolVars, genLeft, cursor, popVars, mainVars>>

Leave(t) ==
    Goto(t, IF t # Main THEN "loop" ELSE IF call = "evaluate" THEN "sort" ELSE "swap")

GenSkip(t) ==
    /\ At(t, "gen")
    /\ genLeft = 0
    /\ Leave(t)
    /\ UNCHANGED <<poolVars, evalLeft, genLeft, cursor, popVars, mainVars>>

GenEnter(t) ==
    /\ At(t, "gen")
    /\ genLeft > 0
    /\ Goto(t, "elitism")
    /\ UNCHANGED <<poolVars, evalLeft, genLeft, cursor, popVars, mainVars>>

\* pre_process and perform_elitism; `start` is the number of elites.
Elitism(t) ==
    /\ At(t, "elitism")
    /\ slot' = [i \in Idx |-> IF i < Elites THEN "elite" ELSE slot[i]]
    /\ cursor' = [cursor EXCEPT ![t] = Elites]
    /\ Goto(t, IF Elites < PopSize THEN "breed" ELSE "genEnd")
    /\ UNCHANGED <<poolVars, evalLeft, genLeft, evals, mainVars>>

\* Mutated: one child is counted as two.
BreedSkips(t) ==
    /\ At(t, "breed")
    /\ \E made \in {1, 2} :
         /\ slot' = [i \in Idx |-> IF i = cursor[t] THEN "child" ELSE slot[i]]
         /\ cursor' = [cursor EXCEPT ![t] = @ + made]
         /\ Goto(t, IF cursor[t] + made < PopSize THEN "breed" ELSE "genEnd")
    /\ UNCHANGED <<poolVars, evalLeft, genLeft, evals, mainVars>>

\* Mutated: `start` does not advance past the children made.
BreedNoProgress(t) ==
    /\ At(t, "breed")
    /\ \E made \in {1, 2} :
         /\ cursor[t] + made <= PopSize
         /\ slot' = [i \in Idx |-> IF i \in cursor[t]..(cursor[t] + made - 1)
                                   THEN "child" ELSE slot[i]]
         /\ Goto(t, "breed")
    /\ UNCHANGED <<poolVars, evalLeft, genLeft, cursor, evals, mainVars>>

\* perform_selection; the second slot is offered only inside the population.
Breed(t) ==
    /\ At(t, "breed")
    /\ \E made \in {1, 2} :
         /\ cursor[t] + made <= PopSize
         /\ slot' = [i \in Idx |-> IF i \in cursor[t]..(cursor[t] + made - 1)
                                   THEN "child" ELSE slot[i]]
         /\ cursor' = [cursor EXCEPT ![t] = @ + made]
         /\ Goto(t, IF cursor[t] + made < PopSize THEN "breed" ELSE "genEnd")
    /\ UNCHANGED <<poolVars, evalLeft, genLeft, evals, mainVars>>

\* perform_selection returned 0: parents' copies are left in the slots.
BreedFailed(t) ==
    /\ At(t, "breed")
    /\ slot' = [i \in Idx |-> IF i \in {cursor[t], cursor[t] + 1} THEN "parent" ELSE slot[i]]
    /\ UNCHANGED <<pc, poolVars, evalLeft, genLeft, cursor, evals, mainVars>>

GenEnd(t) ==
    /\ At(t, "genEnd")
    /\ genLeft' = 0
    /\ Leave(t)
    /\ UNCHANGED <<poolVars, evalLeft, cursor, popVars, mainVars>>

-----------------------------------------------------------------------------
OwnerCall ==
    \/ Setup \/ EvaluateFitness \/ CreateNextGeneration \/ NextGeneration
    \/ SetLifetimeOver

MainStep == Sort \/ DestructorNotify \/ Join

Serve(t) ==
    \/ Enter(t) \/ EvalOne(t) \/ EvalEnd(t)
    \/ GenSkip(t) \/ GenEnter(t) \/ Elitism(t) \/ Breed(t) \/ BreedFailed(t) \/ GenEnd(t)

WorkerStep(t) == WorkerTest(t) \/ WorkerLock(t) \/ WorkerWait(t) \/ WorkerWoken(t)

\* The end of the run: the program object is gone.
Destroyed ==
    /\ At(Main, "destroyed")
    /\ UNCHANGED vars

Next ==
    \/ OwnerCall
    \/ MainStep
    \/ \E t \in Threads : Serve(t)
    \/ \E t \in Workers : WorkerStep(t) \/ SpuriousWake(t)
    \/ Destroyed

Spec == Init /\ [][Next]_vars

\* As in Scheduler: every thread is scheduled, perform_selection succeeds at
\* last, no call of the owner and no spurious wake-up is assumed.
FairSpec ==
    /\ Spec
    /\ WF_vars(MainStep)
    /\ \A t \in Threads : WF_vars(Serve(t))
    /\ \A t \in Workers : WF_vars(WorkerStep(t))

-----------------------------------------------------------------------------
(* Properties.                                                             *)

\* No worker has seen the service, and so none has ever been inside it.
Alone == \A t \in Workers : ~cached[t]

\* While Main serves alone, evaluate_fitness returns only when each individual
\* has been scored exactly once, though the loop has no claims.
AloneScoresOnce ==
    Alone => /\ \A i \in Idx : evals[i] <= 1
             /\ pc[Main] \in {"sort", "scored"} => \A i \in Idx : evals[i] = 1

\* ... and create_next_generation only when every slot holds an elite or a
\* child, none of them a copy left by an attempt that gave up.
AloneBreedsAll ==
    Alone /\ pc[Main] = "swap" =>
        \A i \in Idx : slot[i] = IF i < Elites THEN "elite" ELSE "child"

\* ... and create_next_generation never scores again what evaluate_fitness
\* scored: the counters tell the service which of its two jobs was asked for.
AloneScoresOnDemand ==
    [][Alone' /\ pc[Main] \in ServiceSites /\ call = "create" => evals' = evals]_vars

\* "single thread variant": no worker is ever inside the service.
OnlyMainServes == \A t \in Workers : pc[t] \notin ServiceSites

\* Every call of the service by Main returns, whoever else is in it.
ServiceReturns == pc[Main] = "enter" ~> pc[Main] \in {"sort", "swap"}

\* ~gp_program() returns although nobody was notified when the service was
\* stored: workers parked since the construction are woken and joined.  It need
\* not if a worker has tested the service before it was stored and has not come
\* to wait: the notification, sent without the lock, does not reach that worker.
DestructorReturns ==
    At(Main, "dtorCond") /\ LockFree ~> At(Main, "destroyed")

=============================================================================
