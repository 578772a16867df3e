--------------------------- MODULE SchedulerProofs ---------------------------
(***************************************************************************)
(* The inductive invariant of Scheduler and the proofs of its safety       *)
(* properties, for every number of threads and every population.  Then,    *)
(* from the same invariant: the thread pool implements Evolution, step by  *)
(* step; and overall_fitness counts every individual, as the               *)
(* compare-exchange loop of the scoring threads loses no update.           *)
(***************************************************************************)
EXTENDS Scheduler, FiniteSetTheorems, TLAPS

(* What the position of a thread says about the shared counters.           *)

Positions ==
    /\ \A t \in arrived : pc[t] \in BarrierSites
    /\ lifetimeOver <=> pc[Main] \in DestructorSites
    /\ lifetimeOver => \A t \in Workers :
         pc[t] \in WorkerSites \cup {"b0", "evalTest", "genTest", "bEnd"}
    /\ pc[Main] \in MainSites => evalLeft = 0 /\ genLeft = 0
    /\ pc[Main] \in ServiceSites => call # "none"
    /\ pc[Main] = "swap" => call = "create"

\* The counter that is positive tells which call is being served, and a
\* thread past a test of a counter has found what all others will find.
Counters ==
    /\ call # "evaluate" => evalLeft = 0
    /\ call # "create" => genLeft = 0
    /\ call = "evaluate" /\ pc[Main] \in {"b0", "evalTest", "b1"} => evalLeft = PopSize
    /\ call = "create" /\ pc[Main] \in {"b0", "evalTest", "genTest", "b3", "elitism"}
         => genLeft = PopSize
    /\ call = "create" /\ pc[Main] \in {"b4"} \cup BreedSegment
         => genLeft <= PopSize - Elites
    /\ \A t \in Threads :
         /\ pc[t] \in {"b1"} \cup EvalSegment => call = "evaluate"
         /\ pc[t] \in {"b3"} \cup ElitismSegment \cup BreedSites => call = "create"
         /\ pc[t] = "b1" => evalLeft = PopSize
         /\ pc[t] = "b3" => genLeft = PopSize
         /\ pc[t] \in {"b2", "genTest", "bEnd"} => evalLeft = 0
         /\ pc[t] = "bEnd" => genLeft = 0

\* A thread at work holds a non-empty range that the counter has left behind.
Ranges ==
    \A t \in Threads :
        /\ pc[t] \in {"evalRun", "sumCas"} =>
             evalLeft <= range[t].b /\ range[t].b < range[t].e
        /\ pc[t] = "genRun" =>
             /\ genLeft <= range[t].b /\ range[t].b < range[t].e
             /\ range[t].e <= PopSize - Elites

Control == TypeOK /\ Lockstep /\ Positions /\ Counters /\ Ranges

\* Thread t holds individual i, or the position i counted after the elites,
\* and has not scored it, or bred a child for it.
ToScore(t, i) ==
    \/ pc[t] = "evalRun" /\ range[t].b <= i /\ i < range[t].e
    \/ pc[t] = "sumCas" /\ range[t].b < i /\ i < range[t].e
ToBreed(t, i) == pc[t] = "genRun" /\ range[t].b <= i /\ i < range[t].e

ScorePending(i) == \E t \in Threads : ToScore(t, i)
ChildPending(i) == \E t \in Threads : ToBreed(t, i)

\* What is scored is exactly what was claimed and is no longer pending.
Scoring ==
    /\ \A i \in Idx : evals[i] <= 1
    /\ pc[Main] \in ServiceSites \cup {"sort", "scored", "swap"} =>
         \A i \in Idx : evals[i] = IF i < evalLeft \/ ScorePending(i) THEN 0 ELSE 1

\* Before the elites are placed the whole next population is stale; after, a
\* slot holds a child exactly when it was claimed and is no longer pending.
Slots ==
    /\ call = "create" /\ pc[Main] \in {"b0", "evalTest", "genTest", "b3", "elitism"} =>
         \A i \in Idx : slot[i] = "stale"
    /\ call = "create" /\ pc[Main] \in {"b4", "swap"} \cup BreedSegment =>
         \A i \in Idx :
            IF i < Elites THEN slot[i] = "elite"
            ELSE /\ slot[i] # "elite"
                 /\ slot[i] = "child" <=>
                      ~(i - Elites < genLeft \/ ChildPending(i - Elites))

\* The inductive invariant.
IInv == Control /\ ClaimsDisjoint /\ Scoring /\ Slots

-----------------------------------------------------------------------------
(* Proofs: control.  Every step keeps the threads in one segment and the   *)
(* counters in step with the positions.                                    *)

USE ThreadsAssumption, SizesAssumption
USE DEF MainSites, WorkerSites, ServiceSites, BarrierSites, EvalSites, BreedSites,
        DestructorSites, OutsideSegment, TestSegment, EvalSegment, ElitismSegment,
        BreedSegment, Workers, Idx

\* Where one thread is, all the others are near.
LEMMA Together ==
    ASSUME Lockstep, ~lifetimeOver, NEW t \in Threads, NEW u \in Threads
    PROVE  /\ pc[t] \in OutsideSegment => pc[u] \in OutsideSegment
           /\ pc[t] \in TestSegment \ {"bEnd"} => pc[u] \in TestSegment
           /\ pc[t] \in EvalSegment => pc[u] \in EvalSegment
           /\ pc[t] \in ElitismSegment => pc[u] \in ElitismSegment
           /\ pc[t] \in BreedSites => pc[u] \in BreedSegment
           /\ pc[t] = "bEnd" => pc[u] \in TestSegment \cup BreedSegment
BY DEF Lockstep, Segments

\* A thread that moves inside its segment keeps the others company.
LEMMA Stay ==
    ASSUME TypeOK, Lockstep, NEW t \in Threads, NEW label, Goto(t, label),
           lifetimeOver' = lifetimeOver,
           \/ pc[t] \in OutsideSegment /\ label \in OutsideSegment
           \/ pc[t] \in TestSegment \ {"bEnd"} /\ label \in TestSegment
           \/ pc[t] \in EvalSegment /\ label \in EvalSegment
           \/ pc[t] \in ElitismSegment /\ label \in ElitismSegment
           \/ pc[t] \in BreedSites /\ label \in BreedSegment
    PROVE  Lockstep'
<1> SUFFICES ASSUME ~lifetimeOver PROVE \E S \in Segments : \A u \in Threads : pc'[u] \in S
  BY DEF Lockstep
<1>1. pc' = [pc EXCEPT ![t] = label] /\ pc \in [Threads -> MainSites \cup WorkerSites \cup ServiceSites]
  BY DEF Goto, TypeOK
<1>2. CASE pc[t] \in OutsideSegment /\ label \in OutsideSegment
  <2>1. \A u \in Threads : pc'[u] \in OutsideSegment
    BY <1>1, <1>2, Together
  <2> QED BY <2>1 DEF Segments
<1>3. CASE pc[t] \in TestSegment \ {"bEnd"} /\ label \in TestSegment
  <2>1. \A u \in Threads : pc'[u] \in TestSegment
    BY <1>1, <1>3, Together
  <2> QED BY <2>1 DEF Segments
<1>4. CASE pc[t] \in EvalSegment /\ label \in EvalSegment
  <2>1. \A u \in Threads : pc'[u] \in EvalSegment
    BY <1>1, <1>4, Together
  <2> QED BY <2>1 DEF Segments
<1>5. CASE pc[t] \in ElitismSegment /\ label \in ElitismSegment
  <2>1. \A u \in Threads : pc'[u] \in ElitismSegment
    BY <1>1, <1>5, Together
  <2> QED BY <2>1 DEF Segments
<1>6. CASE pc[t] \in BreedSites /\ label \in BreedSegment
  <2>1. \A u \in Threads : pc'[u] \in BreedSegment
    BY <1>1, <1>6, Together
  <2> QED BY <2>1 DEF Segments
<1> QED BY <1>2, <1>3, <1>4, <1>5, <1>6

\* setup_generational_evaluation publishes the service while nobody serves.
LEMMA ControlSetup ==
    ASSUME Control, Setup
    PROVE  Control'
<1> USE DEF Setup, NotifyAll, Goto, At, poolVars, claimVars, popVars, mainVars
<1>0. ~lifetimeOver /\ \A u \in Threads : pc[u] \in OutsideSegment
  BY Together DEF Control, Positions
<1>1. TypeOK'
  BY <1>0 DEF Control, TypeOK
<1>2. Lockstep'
  BY <1>0 DEF Control, TypeOK, Lockstep, Segments
<1>3. Positions'
  BY <1>0 DEF Control, TypeOK, Positions
<1>4. Counters'
  BY <1>0 DEF Control, TypeOK, Positions, Counters
<1>5. Ranges'
  BY <1>0 DEF Control, TypeOK, Ranges
<1> QED BY <1>1, <1>2, <1>3, <1>4, <1>5 DEF Control

\* The owner enters the service with the whole population to score.
LEMMA ControlEvaluateFitness ==
    ASSUME Control, EvaluateFitness
    PROVE  Control'
<1> USE DEF EvaluateFitness, Goto, At, poolVars, claimVars, popVars, mainVars
<1>0. ~lifetimeOver /\ \A u \in Threads : pc[u] \in OutsideSegment
  BY Together DEF Control, Positions
<1>1. TypeOK'
  BY <1>0 DEF Control, TypeOK
<1>2. Lockstep'
  BY Stay DEF Control, TypeOK
<1>3. Positions'
  BY <1>0 DEF Control, TypeOK, Positions
<1>4. Counters'
  BY <1>0 DEF Control, TypeOK, Positions, Counters
<1>5. Ranges'
  BY <1>0 DEF Control, TypeOK, Ranges
<1> QED BY <1>1, <1>2, <1>3, <1>4, <1>5 DEF Control

\* The owner enters the service with the whole next population to fill.
LEMMA ControlCreateNextGeneration ==
    ASSUME Control, CreateNextGeneration
    PROVE  Control'
<1> USE DEF CreateNextGeneration, Goto, At, poolVars, claimVars, popVars, mainVars
<1>0. ~lifetimeOver /\ \A u \in Threads : pc[u] \in OutsideSegment
  BY Together DEF Control, Positions
<1>1. TypeOK'
  BY <1>0 DEF Control, TypeOK
<1>2. Lockstep'
  BY Stay DEF Control, TypeOK
<1>3. Positions'
  BY <1>0 DEF Control, TypeOK, Positions
<1>4. Counters'
  BY <1>0 DEF Control, TypeOK, Positions, Counters
<1>5. Ranges'
  BY <1>0 DEF Control, TypeOK, Ranges
<1> QED BY <1>1, <1>2, <1>3, <1>4, <1>5 DEF Control

\* The swap happens while nobody serves.
LEMMA ControlNextGeneration ==
    ASSUME Control, NextGeneration
    PROVE  Control'
<1> USE DEF NextGeneration, Goto, At, poolVars, claimVars, popVars, mainVars
<1>1. TypeOK'
  BY DEF Control, TypeOK
<1>2. Lockstep'
  BY Stay DEF Control, TypeOK
<1>3. Positions'
  BY DEF Control, TypeOK, Positions
<1>4. Counters'
  BY DEF Control, TypeOK, Positions, Counters
<1>5. Ranges'
  BY DEF Control, TypeOK, Ranges
<1> QED BY <1>1, <1>2, <1>3, <1>4, <1>5 DEF Control

\* The destructor begins while nobody serves.
LEMMA ControlSetLifetimeOver ==
    ASSUME Control, SetLifetimeOver
    PROVE  Control'
<1> USE DEF SetLifetimeOver, Goto, At, poolVars, claimVars, popVars, mainVars
<1>0. ~lifetimeOver /\ \A u \in Threads : pc[u] \in OutsideSegment
  BY Together DEF Control, Positions
<1>1. TypeOK'
  BY <1>0 DEF Control, TypeOK
<1>2. Lockstep'
  BY DEF Control, TypeOK, Lockstep
<1>3. Positions'
  BY <1>0 DEF Control, TypeOK, Positions
<1>4. Counters'
  BY <1>0 DEF Control, TypeOK, Positions, Counters
<1>5. Ranges'
  BY <1>0 DEF Control, TypeOK, Ranges
<1> QED BY <1>1, <1>2, <1>3, <1>4, <1>5 DEF Control

\* The sort happens while nobody serves.
LEMMA ControlSort ==
    ASSUME Control, Sort
    PROVE  Control'
<1> USE DEF Sort, Goto, At, poolVars, claimVars, popVars, mainVars
<1>1. TypeOK'
  BY DEF Control, TypeOK
<1>2. Lockstep'
  BY Stay DEF Control, TypeOK
<1>3. Positions'
  BY DEF Control, TypeOK, Positions
<1>4. Counters'
  BY DEF Control, TypeOK, Positions, Counters
<1>5. Ranges'
  BY DEF Control, TypeOK, Ranges
<1> QED BY <1>1, <1>2, <1>3, <1>4, <1>5 DEF Control

\* Thread 0 takes the elites off the counter while the others wait.
LEMMA ControlElitism ==
    ASSUME Control, Elitism
    PROVE  Control'
<1> USE DEF Elitism, Goto, At, poolVars, claimVars, popVars, mainVars
<1>0. ~lifetimeOver /\ \A u \in Threads : pc[u] \in ElitismSegment
  BY Together DEF Control, Positions
<1>1. TypeOK'
  BY <1>0 DEF Control, TypeOK, Counters, Positions
<1>2. Lockstep'
  BY Stay DEF Control, TypeOK
<1>3. Positions'
  BY <1>0 DEF Control, TypeOK, Positions
<1>4. Counters'
  BY <1>0 DEF Control, TypeOK, Positions, Counters
<1>5. Ranges'
  BY <1>0 DEF Control, TypeOK, Ranges
<1> QED BY <1>1, <1>2, <1>3, <1>4, <1>5 DEF Control

\* The destructor opens the barrier.
LEMMA ControlDestructorBarrier ==
    ASSUME Control, DestructorBarrier
    PROVE  Control'
<1> USE DEF DestructorBarrier, After, Goto, At, poolVars, claimVars, popVars, mainVars
<1>1. TypeOK'
  BY DEF Control, TypeOK, Positions
<1>2. Lockstep'
  BY DEF Control, TypeOK, Positions, Lockstep
<1>3. Positions'
  BY DEF Control, TypeOK, Positions
<1>4. Counters'
  BY DEF Control, TypeOK, Positions, Counters
<1>5. Ranges'
  BY DEF Control, TypeOK, Positions, Ranges
<1> QED BY <1>1, <1>2, <1>3, <1>4, <1>5 DEF Control

\* The destructor wakes the parked workers.
LEMMA ControlDestructorNotify ==
    ASSUME Control, DestructorNotify
    PROVE  Control'
<1> USE DEF DestructorNotify, NotifyAll, Goto, At, poolVars, claimVars, popVars, mainVars
<1>1. TypeOK'
  BY DEF Control, TypeOK
<1>2. Lockstep'
  BY DEF Control, TypeOK, Positions, Lockstep
<1>3. Positions'
  BY DEF Control, TypeOK, Positions
<1>4. Counters'
  BY DEF Control, TypeOK, Positions, Counters
<1>5. Ranges'
  BY DEF Control, TypeOK, Ranges
<1> QED BY <1>1, <1>2, <1>3, <1>4, <1>5 DEF Control

\* The destructor joins the workers.
LEMMA ControlJoin ==
    ASSUME Control, Join
    PROVE  Control'
<1> USE DEF Join, Goto, At, poolVars, claimVars, popVars, mainVars
<1>1. TypeOK'
  BY DEF Control, TypeOK
<1>2. Lockstep'
  BY DEF Control, TypeOK, Positions, Lockstep
<1>3. Positions'
  BY DEF Control, TypeOK, Positions
<1>4. Counters'
  BY DEF Control, TypeOK, Positions, Counters
<1>5. Ranges'
  BY DEF Control, TypeOK, Ranges
<1> QED BY <1>1, <1>2, <1>3, <1>4, <1>5 DEF Control

\* A thread that arrives at a barrier stays in its segment.
LEMMA ControlBarrierWait ==
    ASSUME Control, NEW t \in Threads, BarrierWait(t)
    PROVE  Control'
<1> USE DEF BarrierWait, Goto, At, poolVars, claimVars, popVars, mainVars
<1>1. TypeOK'
  BY DEF Control, TypeOK
<1>2. Lockstep'
  BY DEF Control, Lockstep
<1>3. Positions'
  BY DEF Control, TypeOK, Positions
<1>4. Counters'
  BY DEF Control, TypeOK, Positions, Counters
<1>5. Ranges'
  BY DEF Control, TypeOK, Ranges
<1> QED BY <1>1, <1>2, <1>3, <1>4, <1>5 DEF Control

\* A worker tests the end of its loop.
LEMMA ControlWorkerTest ==
    ASSUME Control, NEW t \in Workers, WorkerTest(t)
    PROVE  Control'
<1> USE DEF WorkerTest, Goto, At, poolVars, claimVars, popVars, mainVars
<1>1. TypeOK'
  BY DEF Control, TypeOK
<1>2. Lockstep'
  BY Stay DEF Control, TypeOK
<1>3. Positions'
  BY DEF Control, TypeOK, Positions
<1>4. Counters'
  BY DEF Control, TypeOK, Positions, Counters
<1>5. Ranges'
  BY DEF Control, TypeOK, Ranges
<1> QED BY <1>1, <1>2, <1>3, <1>4, <1>5 DEF Control

\* A worker wakes up and looks again.
LEMMA ControlWorkerWoken ==
    ASSUME Control, NEW t \in Workers, WorkerWoken(t)
    PROVE  Control'
<1> USE DEF WorkerWoken, Goto, At, poolVars, claimVars, popVars, mainVars
<1>1. TypeOK'
  BY DEF Control, TypeOK
<1>2. Lockstep'
  BY Stay DEF Control, TypeOK
<1>3. Positions'
  BY DEF Control, TypeOK, Positions
<1>4. Counters'
  BY DEF Control, TypeOK, Positions, Counters
<1>5. Ranges'
  BY DEF Control, TypeOK, Ranges
<1> QED BY <1>1, <1>2, <1>3, <1>4, <1>5 DEF Control

\* A worker wakes up for no reason.
LEMMA ControlSpuriousWake ==
    ASSUME Control, NEW t \in Workers, SpuriousWake(t)
    PROVE  Control'
<1> USE DEF SpuriousWake, Goto, At, poolVars, claimVars, popVars, mainVars
<1>1. TypeOK'
  BY DEF Control, TypeOK
<1>2. Lockstep'
  BY Stay DEF Control, TypeOK
<1>3. Positions'
  BY DEF Control, TypeOK, Positions
<1>4. Counters'
  BY DEF Control, TypeOK, Positions, Counters
<1>5. Ranges'
  BY DEF Control, TypeOK, Ranges
<1> QED BY <1>1, <1>2, <1>3, <1>4, <1>5 DEF Control

\* All threads find the same answer to whether there is something to score.
LEMMA ControlEvalTest ==
    ASSUME Control, NEW t \in Threads, EvalTest(t)
    PROVE  Control'
<1> USE DEF EvalTest, Goto, At, poolVars, claimVars, popVars, mainVars
<1>0. ~lifetimeOver => pc[Main] \in TestSegment
  BY Together DEF Control
<1>1. TypeOK'
  BY <1>0 DEF Control, TypeOK
<1>2. Lockstep'
  BY Stay DEF Control, TypeOK
<1>3. Positions'
  BY <1>0 DEF Control, TypeOK, Positions
<1>4. Counters'
  BY <1>0, SMTT(20) DEF Control, TypeOK, Positions, Counters
<1>5. Ranges'
  BY <1>0 DEF Control, TypeOK, Ranges
<1> QED BY <1>1, <1>2, <1>3, <1>4, <1>5 DEF Control

\* A thread leaves the scoring loop at zero only.
LEMMA ControlEvalLoop ==
    ASSUME Control, NEW t \in Threads, EvalLoop(t)
    PROVE  Control'
<1> USE DEF EvalLoop, Goto, At, poolVars, claimVars, popVars, mainVars
<1>1. TypeOK'
  BY DEF Control, TypeOK
<1>2. Lockstep'
  BY Stay DEF Control, TypeOK
<1>3. Positions'
  BY DEF Control, TypeOK, Positions
<1>4. Counters'
  BY DEF Control, TypeOK, Positions, Counters
<1>5. Ranges'
  BY DEF Control, TypeOK, Ranges
<1> QED BY <1>1, <1>2, <1>3, <1>4, <1>5 DEF Control

\* A load of evaluation_left.
LEMMA ControlEvalLoad ==
    ASSUME Control, NEW t \in Threads, EvalLoad(t)
    PROVE  Control'
<1> USE DEF EvalLoad, Goto, At, poolVars, claimVars, popVars, mainVars
<1>1. TypeOK'
  BY DEF Control, TypeOK
<1>2. Lockstep'
  BY Stay DEF Control, TypeOK
<1>3. Positions'
  BY DEF Control, TypeOK, Positions
<1>4. Counters'
  BY DEF Control, TypeOK, Positions, Counters
<1>5. Ranges'
  BY DEF Control, TypeOK, Ranges
<1> QED BY <1>1, <1>2, <1>3, <1>4, <1>5 DEF Control

\* A failed claim of individuals.
LEMMA ControlEvalRetry ==
    ASSUME Control, NEW t \in Threads, EvalRetry(t)
    PROVE  Control'
<1> USE DEF EvalRetry, Goto, At, poolVars, claimVars, popVars, mainVars
<1>1. TypeOK'
  BY DEF Control, TypeOK
<1>2. Lockstep'
  BY DEF Control, Lockstep
<1>3. Positions'
  BY DEF Control, TypeOK, Positions
<1>4. Counters'
  BY DEF Control, TypeOK, Positions, Counters
<1>5. Ranges'
  BY DEF Control, TypeOK, Ranges
<1> QED BY <1>1, <1>2, <1>3, <1>4, <1>5 DEF Control

\* Scoring an individual.
LEMMA ControlEvalOne ==
    ASSUME Control, NEW t \in Threads, EvalOne(t)
    PROVE  Control'
<1> USE DEF EvalOne, Goto, At, poolVars, claimVars, popVars, mainVars
<1>1. TypeOK'
  <2>1. range[t].b \in Idx /\ range \in [Threads -> [b : 0..PopSize, e : 0..PopSize]]
    BY DEF Control, TypeOK, Ranges
  <2>2. evals' \in [Idx -> Nat]
    BY <2>1 DEF Control, TypeOK
  <2> QED BY <2>2 DEF Control, TypeOK
<1>2. Lockstep'
  BY Stay DEF Control, TypeOK
<1>3. Positions'
  BY DEF Control, TypeOK, Positions
<1>4. Counters'
  BY DEF Control, TypeOK, Positions, Counters
<1>5. Ranges'
  BY DEF Control, TypeOK, Ranges
<1> QED BY <1>1, <1>2, <1>3, <1>4, <1>5 DEF Control

\* A failed addition.
LEMMA ControlSumRetry ==
    ASSUME Control, NEW t \in Threads, SumRetry(t)
    PROVE  Control'
<1> USE DEF SumRetry, Goto, At, poolVars, claimVars, popVars, mainVars
<1>1. TypeOK'
  BY DEF Control, TypeOK
<1>2. Lockstep'
  BY DEF Control, Lockstep
<1>3. Positions'
  BY DEF Control, TypeOK, Positions
<1>4. Counters'
  BY DEF Control, TypeOK, Positions, Counters
<1>5. Ranges'
  BY DEF Control, TypeOK, Ranges
<1> QED BY <1>1, <1>2, <1>3, <1>4, <1>5 DEF Control

\* All threads find the same answer to whether there is something to breed.
LEMMA ControlGenTest ==
    ASSUME Control, NEW t \in Threads, GenTest(t)
    PROVE  Control'
<1> USE DEF GenTest, Goto, At, poolVars, claimVars, popVars, mainVars
<1>0. ~lifetimeOver => pc[Main] \in TestSegment
  BY Together DEF Control
<1>1. TypeOK'
  BY <1>0 DEF Control, TypeOK
<1>2. Lockstep'
  BY Stay DEF Control, TypeOK
<1>3. Positions'
  BY <1>0 DEF Control, TypeOK, Positions
<1>4. Counters'
  BY <1>0, SMTT(20) DEF Control, TypeOK, Positions, Counters
<1>5. Ranges'
  BY <1>0 DEF Control, TypeOK, Ranges
<1> QED BY <1>1, <1>2, <1>3, <1>4, <1>5 DEF Control

\* A thread leaves the breeding loop at zero only.
LEMMA ControlGenLoop ==
    ASSUME Control, NEW t \in Threads, GenLoop(t)
    PROVE  Control'
<1> USE DEF GenLoop, Goto, At, poolVars, claimVars, popVars, mainVars
<1>1. TypeOK'
  BY DEF Control, TypeOK
<1>2. Lockstep'
  BY Stay DEF Control, TypeOK
<1>3. Positions'
  BY DEF Control, TypeOK, Positions
<1>4. Counters'
  BY DEF Control, TypeOK, Positions, Counters
<1>5. Ranges'
  BY DEF Control, TypeOK, Ranges
<1> QED BY <1>1, <1>2, <1>3, <1>4, <1>5 DEF Control

\* A load of next_gen_left.
LEMMA ControlGenLoad ==
    ASSUME Control, NEW t \in Threads, GenLoad(t)
    PROVE  Control'
<1> USE DEF GenLoad, Goto, At, poolVars, claimVars, popVars, mainVars
<1>1. TypeOK'
  BY DEF Control, TypeOK
<1>2. Lockstep'
  BY Stay DEF Control, TypeOK
<1>3. Positions'
  BY DEF Control, TypeOK, Positions
<1>4. Counters'
  BY DEF Control, TypeOK, Positions, Counters
<1>5. Ranges'
  BY DEF Control, TypeOK, Ranges
<1> QED BY <1>1, <1>2, <1>3, <1>4, <1>5 DEF Control

\* A failed claim of slots.
LEMMA ControlGenRetry ==
    ASSUME Control, NEW t \in Threads, GenRetry(t)
    PROVE  Control'
<1> USE DEF GenRetry, Goto, At, poolVars, claimVars, popVars, mainVars
<1>1. TypeOK'
  BY DEF Control, TypeOK
<1>2. Lockstep'
  BY DEF Control, Lockstep
<1>3. Positions'
  BY DEF Control, TypeOK, Positions
<1>4. Counters'
  BY DEF Control, TypeOK, Positions, Counters
<1>5. Ranges'
  BY DEF Control, TypeOK, Ranges
<1> QED BY <1>1, <1>2, <1>3, <1>4, <1>5 DEF Control

\* An attempt without a child.
LEMMA ControlBreedFailed ==
    ASSUME Control, NEW t \in Threads, BreedFailed(t)
    PROVE  Control'
<1> USE DEF BreedFailed, Children, Goto, At, poolVars, claimVars, popVars, mainVars
<1>1. TypeOK'
  BY DEF Control, TypeOK
<1>2. Lockstep'
  BY DEF Control, Lockstep
<1>3. Positions'
  BY DEF Control, TypeOK, Positions
<1>4. Counters'
  BY DEF Control, TypeOK, Positions, Counters
<1>5. Ranges'
  BY DEF Control, TypeOK, Ranges
<1> QED BY <1>1, <1>2, <1>3, <1>4, <1>5 DEF Control

\* A released thread leaves a barrier only when the destructor runs.
LEMMA ControlBarrierExit ==
    ASSUME Control, NEW t \in Threads, BarrierExit(t)
    PROVE  Control'
<1> USE DEF BarrierExit, After, Goto, At, poolVars, claimVars, popVars, mainVars
<1>1. TypeOK'
  BY SMTT(20) DEF Control, TypeOK, Positions
<1>2. Lockstep'
  BY DEF Control, TypeOK, Positions, Lockstep
<1>3. Positions'
  BY DEF Control, TypeOK, Positions
<1>4. Counters'
  BY SMTT(20) DEF Control, TypeOK, Positions, Counters
<1>5. Ranges'
  BY DEF Control, TypeOK, Positions, Ranges
<1> QED BY <1>1, <1>2, <1>3, <1>4, <1>5 DEF Control

\* A chunk is never larger than what is left.
LEMMA Chunk == ASSUME NEW n \in 0..PopSize PROVE ChunkSize(n) \in 0..n /\ n - ChunkSize(n) \in 0..n
BY DEF ChunkSize

\* What a new range of one thread changes.
LEMMA SetRange ==
    ASSUME TypeOK, NEW t \in Threads, NEW from \in 0..PopSize, NEW to \in 0..PopSize,
           range' = [range EXCEPT ![t] = [b |-> from, e |-> to]]
    PROVE  /\ range' \in [Threads -> [b : 0..PopSize, e : 0..PopSize]]
           /\ range'[t].b = from /\ range'[t].e = to
           /\ \A u \in Threads \ {t} : range'[u] = range[u]
<1>1. range \in [Threads -> [b : 0..PopSize, e : 0..PopSize]]
  BY DEF TypeOK
<1>2. [b |-> from, e |-> to] \in [b : 0..PopSize, e : 0..PopSize]
  OBVIOUS
<1> QED BY <1>1, <1>2

\* The ends of every range are numbers.
LEMMA RangeType ==
    ASSUME TypeOK, NEW t \in Threads
    PROVE  range[t].b \in 0..PopSize /\ range[t].e \in 0..PopSize
BY DEF TypeOK

\* What a move of one thread changes.
LEMMA Move ==
    ASSUME TypeOK, NEW t \in Threads, NEW label, Goto(t, label)
    PROVE  pc'[t] = label /\ \A u \in Threads \ {t} : pc'[u] = pc[u]
BY DEF TypeOK, Goto

\* The last arrival moves every thread that waited into the next segment.
LEMMA ControlBarrierOpen ==
    ASSUME Control, NEW t \in Threads, BarrierOpen(t)
    PROVE  Control'
<1> USE DEF BarrierOpen, After, At, claimVars, popVars, mainVars
<1>1. /\ ~lifetimeOver /\ arrived' = {} /\ UNCHANGED <<lifetimeOver, evalLeft, genLeft, call, range>>
      /\ \A u \in Threads : pc[u] \in BarrierSites
  BY DEF Control, Positions
<1>2. \A u \in Threads : pc[u] = pc[Main]
  <2> TAKE u \in Threads
  <2>1. CASE pc[Main] \in {"b0", "b2", "b4"}
    BY <1>1, <2>1, Together DEF Control
  <2>2. CASE pc[Main] \in {"b1", "b3", "bEnd"}
    BY <1>1, <2>2, Together DEF Control, Counters
  <2> QED BY <1>1, <2>1, <2>2
<1>3. TypeOK'
  BY SMTT(20) DEF Control, TypeOK
<1>4. \A u \in Threads : pc'[u] = After(u)
  OBVIOUS
<1>5. \/ pc[Main] = "b0" /\ \A u \in Threads : pc'[u] = "evalTest"
      \/ pc[Main] = "b1" /\ \A u \in Threads : pc'[u] = "evalLoop"
      \/ pc[Main] = "b2" /\ \A u \in Threads : pc'[u] = "genTest"
      \/ pc[Main] = "b3" /\ pc'[Main] = "elitism" /\ \A u \in Workers : pc'[u] = "b4"
      \/ pc[Main] = "b4" /\ \A u \in Threads : pc'[u] = "genLoop"
      \/ /\ pc[Main] = "bEnd" /\ \A u \in Workers : pc'[u] = "loop"
         /\ pc'[Main] = IF call = "evaluate" THEN "sort" ELSE "swap"
  <2>1. CASE pc[Main] \in {"b0", "b1", "b2", "b4"}
    BY <1>2, <1>4, <2>1
  <2>2. CASE pc[Main] = "b3"
    BY <1>2, <1>4, <2>2
  <2>3. CASE pc[Main] = "bEnd"
    BY <1>2, <1>4, <2>3
  <2> QED BY <1>1, <2>1, <2>2, <2>3
<1>6. Lockstep'
  BY <1>5 DEF Lockstep, Segments
<1> HIDE DEF BarrierOpen, After
<1>7. Positions'
  <2>1. pc[Main] = "bEnd" => evalLeft = 0 /\ genLeft = 0
    BY DEF Control, Counters
  <2>2. call # "none"
    BY <1>1 DEF Control, Positions
  <2>3. /\ pc'[Main] \in {"sort", "swap"} => evalLeft = 0 /\ genLeft = 0
        /\ pc'[Main] = "swap" => call # "evaluate"
        /\ pc'[Main] \in ServiceSites \cup {"sort", "swap"}
    BY <1>5, <2>1
  <2>4. call \in {"none", "evaluate", "create"}
    BY DEF Control, TypeOK
  <2> QED BY <1>1, <2>2, <2>3, <2>4 DEF Control, Positions
<1>8. Counters'
  BY <1>1, <1>2, <1>5, ZenonT(40) DEF Control, TypeOK, Positions, Counters
<1>9. Ranges'
  BY <1>1, <1>5 DEF Ranges
<1> QED BY <1>3, <1>6, <1>7, <1>8, <1>9 DEF Control

\* A claim of individuals is one that the counter has just left behind.
LEMMA ControlEvalClaim ==
    ASSUME Control, NEW t \in Threads, EvalClaim(t)
    PROVE  Control'
<1> DEFINE begin == seen[t] - ChunkSize(seen[t])
<1>1. /\ pc[t] = "evalCas" /\ evalLeft = seen[t] /\ evalLeft' = begin
      /\ range' = [range EXCEPT ![t] = [b |-> begin, e |-> evalLeft]]
      /\ Goto(t, IF begin = evalLeft THEN "evalLoop" ELSE "evalRun")
      /\ UNCHANGED <<arrived, service, cached, lifetimeOver, genLeft, seen,
                     oldSum, overall, evals, slot, call, generation>>
  BY DEF EvalClaim, At, poolVars, popVars, mainVars
<1>2. begin \in 0..PopSize /\ begin <= evalLeft /\ evalLeft \in 0..PopSize
  <2>1. seen[t] \in 0..PopSize
    BY DEF Control, TypeOK
  <2>2. begin \in 0..seen[t]
    BY <2>1, Chunk
  <2> QED BY <1>1, <2>1, <2>2
<1> HIDE DEF begin
<1>3. TypeOK'
  <2>1. range' \in [Threads -> [b : 0..PopSize, e : 0..PopSize]]
    BY <1>1, <1>2, SetRange DEF Control
  <2> QED BY <1>1, <1>2, <2>1 DEF Control, TypeOK, Goto
<1>4. Lockstep'
  BY <1>1, Stay DEF Control
<1>5. ~lifetimeOver /\ call = "evaluate" /\ \A u \in Threads : pc[u] \in EvalSegment
  BY <1>1, Together DEF Control, TypeOK, Positions, Counters
<1>6. /\ \A u \in Threads : pc'[u] \in EvalSegment
      /\ \A u \in Threads \ {t} : pc'[u] = pc[u] /\ range'[u] = range[u]
      /\ \/ pc'[t] = "evalLoop"
         \/ pc'[t] = "evalRun" /\ begin < evalLeft
      /\ range'[t].b = begin /\ range'[t].e = evalLeft
  <2>1. /\ \A u \in Threads \ {t} : range'[u] = range[u]
        /\ range'[t].b = begin /\ range'[t].e = evalLeft
    BY <1>1, <1>2, SetRange DEF Control
  <2>2. \A u \in Threads \ {t} : pc'[u] = pc[u]
    BY <1>1, Move DEF Control
  <2>3. pc'[t] = IF begin = evalLeft THEN "evalLoop" ELSE "evalRun"
    BY <1>1, Move DEF Control
  <2>5. \A u \in Threads : pc'[u] \in EvalSegment
    BY <1>5, <2>2, <2>3
  <2>6. begin = evalLeft \/ begin < evalLeft
    BY <1>2
  <2> QED BY <2>1, <2>2, <2>3, <2>5, <2>6
<1>7. Positions'
  BY <1>1, <1>5, <1>6 DEF Control, TypeOK, Positions, Goto
<1>8. Counters'
  BY <1>1, <1>2, <1>5, <1>6 DEF Control, Counters
<1>9. Ranges'
  <2>1. \A u \in Threads \ {t} :
           /\ pc'[u] \in {"evalRun", "sumCas"} =>
                evalLeft' <= range'[u].b /\ range'[u].b < range'[u].e
           /\ pc'[u] = "genRun" =>
                /\ genLeft' <= range'[u].b /\ range'[u].b < range'[u].e
                /\ range'[u].e <= PopSize - Elites
    BY <1>1, <1>2, <1>6, RangeType DEF Control, Ranges
  <2>3. /\ pc'[t] \in {"evalRun", "sumCas"} =>
             evalLeft' <= range'[t].b /\ range'[t].b < range'[t].e
        /\ pc'[t] = "genRun" =>
             /\ genLeft' <= range'[t].b /\ range'[t].b < range'[t].e
             /\ range'[t].e <= PopSize - Elites
    BY <1>1, <1>2, <1>6 DEF Control, TypeOK
  <2> QED BY <2>1, <2>3 DEF Ranges
<1> QED BY <1>3, <1>4, <1>7, <1>8, <1>9 DEF Control

\* A claim of slots is one that the counter has just left behind.
LEMMA ControlGenClaim ==
    ASSUME Control, NEW t \in Threads, GenClaim(t)
    PROVE  Control'
<1> DEFINE begin == seen[t] - ChunkSize(seen[t])
<1>1. /\ pc[t] = "genCas" /\ genLeft = seen[t] /\ genLeft' = begin
      /\ range' = [range EXCEPT ![t] = [b |-> begin, e |-> genLeft]]
      /\ Goto(t, IF begin = genLeft THEN "genLoop" ELSE "genRun")
      /\ UNCHANGED <<arrived, service, cached, lifetimeOver, evalLeft, seen,
                     oldSum, overall, evals, slot, call, generation>>
  BY DEF GenClaim, At, poolVars, popVars, mainVars
<1>2. begin \in 0..PopSize /\ begin <= genLeft /\ genLeft \in 0..PopSize
  <2>1. seen[t] \in 0..PopSize
    BY DEF Control, TypeOK
  <2>2. begin \in 0..seen[t]
    BY <2>1, Chunk
  <2> QED BY <1>1, <2>1, <2>2
<1> HIDE DEF begin
<1>3. TypeOK'
  <2>1. range' \in [Threads -> [b : 0..PopSize, e : 0..PopSize]]
    BY <1>1, <1>2, SetRange DEF Control
  <2> QED BY <1>1, <1>2, <2>1 DEF Control, TypeOK, Goto
<1>4. Lockstep'
  BY <1>1, Stay DEF Control
<1>5. ~lifetimeOver /\ call = "create" /\ \A u \in Threads : pc[u] \in BreedSegment
  BY <1>1, Together DEF Control, TypeOK, Positions, Counters
<1>6. /\ \A u \in Threads : pc'[u] \in BreedSegment
      /\ \A u \in Threads \ {t} : pc'[u] = pc[u] /\ range'[u] = range[u]
      /\ \/ pc'[t] = "genLoop"
         \/ pc'[t] = "genRun" /\ begin < genLeft
      /\ range'[t].b = begin /\ range'[t].e = genLeft
      /\ genLeft <= PopSize - Elites
  <2>1. /\ \A u \in Threads \ {t} : range'[u] = range[u]
        /\ range'[t].b = begin /\ range'[t].e = genLeft
    BY <1>1, <1>2, SetRange DEF Control
  <2>2. \A u \in Threads \ {t} : pc'[u] = pc[u]
    BY <1>1, Move DEF Control
  <2>3. pc'[t] = IF begin = genLeft THEN "genLoop" ELSE "genRun"
    BY <1>1, Move DEF Control
  <2>4. genLeft <= PopSize - Elites
    BY <1>5 DEF Control, Counters
  <2>5. \A u \in Threads : pc'[u] \in BreedSegment
    BY <1>5, <2>2, <2>3
  <2>6. begin = genLeft \/ begin < genLeft
    BY <1>2
  <2> QED BY <2>1, <2>2, <2>3, <2>5, <2>6, <2>4
<1>7. Positions'
  BY <1>1, <1>5, <1>6 DEF Control, TypeOK, Positions, Goto
<1>8. Counters'
  BY <1>1, <1>2, <1>5, <1>6 DEF Control, Counters
<1>9. Ranges'
  <2>1. \A u \in Threads \ {t} :
           /\ pc'[u] \in {"evalRun", "sumCas"} =>
                evalLeft' <= range'[u].b /\ range'[u].b < range'[u].e
           /\ pc'[u] = "genRun" =>
                /\ genLeft' <= range'[u].b /\ range'[u].b < range'[u].e
                /\ range'[u].e <= PopSize - Elites
    BY <1>1, <1>2, <1>6, RangeType DEF Control, Ranges
  <2>3. /\ pc'[t] \in {"evalRun", "sumCas"} =>
             evalLeft' <= range'[t].b /\ range'[t].b < range'[t].e
        /\ pc'[t] = "genRun" =>
             /\ genLeft' <= range'[t].b /\ range'[t].b < range'[t].e
             /\ range'[t].e <= PopSize - Elites
    BY <1>1, <1>2, <1>6 DEF Control, TypeOK
  <2> QED BY <2>1, <2>3 DEF Ranges
<1> QED BY <1>3, <1>4, <1>7, <1>8, <1>9 DEF Control

\* Adding a fitness moves on inside the claim or ends it.
LEMMA ControlSumAdd ==
    ASSUME Control, NEW t \in Threads, SumAdd(t)
    PROVE  Control'
<1>1. /\ pc[t] = "sumCas" /\ overall = oldSum[t] /\ overall' = oldSum[t] + 1
      /\ Advance(t, 1)
      /\ Goto(t, IF range[t].b + 1 < range[t].e THEN "evalRun" ELSE "evalLoop")
      /\ UNCHANGED <<arrived, service, cached, lifetimeOver, evalLeft, genLeft, seen,
                     oldSum, evals, slot, call, generation>>
  BY DEF SumAdd, At, poolVars, mainVars
<1>2. /\ range[t] \in [b : 0..PopSize, e : 0..PopSize]
      /\ evalLeft <= range[t].b /\ range[t].b < range[t].e
  BY <1>1 DEF Control, TypeOK, Ranges
<1>3. range' = [range EXCEPT ![t] = [b |-> range[t].b + 1, e |-> range[t].e]]
  BY <1>1 DEF Advance
<1>a. /\ range' \in [Threads -> [b : 0..PopSize, e : 0..PopSize]]
      /\ range'[t].b = range[t].b + 1 /\ range'[t].e = range[t].e
      /\ \A u \in Threads \ {t} : range'[u] = range[u]
  <2>1. range[t].b + 1 \in 0..PopSize /\ range[t].e \in 0..PopSize
    BY <1>2
  <2> QED BY <1>3, <2>1, SetRange DEF Control
<1>b. /\ \A u \in Threads \ {t} : pc'[u] = pc[u]
      /\ pc'[t] = IF range[t].b + 1 < range[t].e THEN "evalRun" ELSE "evalLoop"
  BY <1>1, Move DEF Control
<1>4. TypeOK'
  <2>1. overall' \in Nat
    <3>1. overall \in Nat /\ overall' = overall + 1
      BY <1>1 DEF Control, TypeOK
    <3> QED BY <3>1
  <2> QED BY <1>1, <1>a, <2>1 DEF Control, TypeOK, Goto
<1>5. Lockstep'
  BY <1>1, Stay DEF Control
<1>6. ~lifetimeOver /\ call = "evaluate" /\ \A u \in Threads : pc[u] \in EvalSegment
  BY <1>1, Together DEF Control, TypeOK, Positions, Counters
<1>7. /\ \A u \in Threads : pc'[u] \in EvalSegment
      /\ \A u \in Threads \ {t} : pc'[u] = pc[u] /\ range'[u] = range[u]
      /\ \/ pc'[t] = "evalLoop"
         \/ pc'[t] = "evalRun" /\ range[t].b + 1 < range[t].e
      /\ range'[t].b = range[t].b + 1 /\ range'[t].e = range[t].e
  <2>1. pc'[t] \in {"evalLoop", "evalRun"}
    BY <1>b
  <2>2. \A u \in Threads : pc'[u] \in EvalSegment
    BY <1>b, <1>6, <2>1
  <2> QED BY <1>a, <1>b, <2>1, <2>2
<1>8. Positions'
  BY <1>1, <1>6, <1>7 DEF Control, TypeOK, Positions, Goto
<1>9. Counters'
  BY <1>1, <1>6, <1>7 DEF Control, TypeOK, Counters
<1>10. Ranges'
  <2>1. \A u \in Threads \ {t} :
           /\ pc'[u] \in {"evalRun", "sumCas"} =>
                evalLeft' <= range'[u].b /\ range'[u].b < range'[u].e
           /\ pc'[u] = "genRun" =>
                /\ genLeft' <= range'[u].b /\ range'[u].b < range'[u].e
                /\ range'[u].e <= PopSize - Elites
    BY <1>1, <1>7 DEF Control, Ranges
  <2>2. range'[t].b \in 0..PopSize /\ range'[t].e \in 0..PopSize
    BY <1>a
  <2>3. /\ pc'[t] \in {"evalRun", "sumCas"} =>
             evalLeft' <= range'[t].b /\ range'[t].b < range'[t].e
        /\ pc'[t] = "genRun" =>
             /\ genLeft' <= range'[t].b /\ range'[t].b < range'[t].e
             /\ range'[t].e <= PopSize - Elites
    <3>1. evalLeft \in 0..PopSize /\ range[t].b \in 0..PopSize /\ range[t].e \in 0..PopSize
      BY RangeType DEF Control, TypeOK
    <3> QED BY <1>1, <1>2, <1>7, <3>1
  <2> QED BY <2>1, <2>3 DEF Ranges
<1> QED BY <1>4, <1>5, <1>8, <1>9, <1>10 DEF Control

\* Breeding moves on inside the claim or ends it.
LEMMA ControlBreed ==
    ASSUME Control, NEW t \in Threads, Breed(t)
    PROVE  Control'
<1>1. PICK made \in {1, 2} :
        /\ range[t].b + made <= range[t].e
        /\ slot' = [i \in Idx |-> IF i \in (Elites + range[t].b)..(Elites + range[t].b + made - 1)
                                  THEN "child" ELSE slot[i]]
        /\ Advance(t, made)
        /\ Goto(t, IF range[t].b + made = range[t].e THEN "genLoop" ELSE "genRun")
  BY DEF Breed
<1>2. /\ pc[t] = "genRun"
      /\ UNCHANGED <<arrived, service, cached, lifetimeOver, evalLeft, genLeft, seen,
                     oldSum, overall, evals, call, generation>>
  BY DEF Breed, At, poolVars, mainVars
<1>3. /\ range[t] \in [b : 0..PopSize, e : 0..PopSize]
      /\ genLeft <= range[t].b /\ range[t].b < range[t].e /\ range[t].e <= PopSize - Elites
  BY <1>2 DEF Control, TypeOK, Ranges
<1>4. range' = [range EXCEPT ![t] = [b |-> range[t].b + made, e |-> range[t].e]]
  BY <1>1 DEF Advance
<1>a. /\ range' \in [Threads -> [b : 0..PopSize, e : 0..PopSize]]
      /\ range'[t].b = range[t].b + made /\ range'[t].e = range[t].e
      /\ \A u \in Threads \ {t} : range'[u] = range[u]
  <2>1. range[t].b + made \in 0..PopSize /\ range[t].e \in 0..PopSize
    BY <1>1, <1>3
  <2> QED BY <1>4, <2>1, SetRange DEF Control
<1>b. /\ \A u \in Threads \ {t} : pc'[u] = pc[u]
      /\ pc'[t] = IF range[t].b + made = range[t].e THEN "genLoop" ELSE "genRun"
  BY <1>1, Move DEF Control
<1>5. TypeOK'
  <2>1. slot' \in [Idx -> {"stale", "elite", "parent", "child"}]
    BY <1>1 DEF Control, TypeOK
  <2> QED BY <1>1, <1>2, <1>a, <2>1 DEF Control, TypeOK, Goto
<1>6. Lockstep'
  BY <1>1, <1>2, Stay DEF Control
<1>7. ~lifetimeOver /\ call = "create" /\ \A u \in Threads : pc[u] \in BreedSegment
  BY <1>2, Together DEF Control, TypeOK, Positions, Counters
<1>8. /\ \A u \in Threads : pc'[u] \in BreedSegment
      /\ \A u \in Threads \ {t} : pc'[u] = pc[u] /\ range'[u] = range[u]
      /\ \/ pc'[t] = "genLoop"
         \/ pc'[t] = "genRun" /\ range[t].b + made < range[t].e
      /\ range'[t].b = range[t].b + made /\ range'[t].e = range[t].e
  <2>1. range[t].b + made = range[t].e \/ range[t].b + made < range[t].e
    BY <1>1, <1>3
  <2>2. pc'[t] \in {"genLoop", "genRun"}
    BY <1>b
  <2>3. \A u \in Threads : pc'[u] \in BreedSegment
    BY <1>b, <1>7, <2>2
  <2> QED BY <1>a, <1>b, <2>1, <2>2, <2>3
<1>9. Positions'
  BY <1>2, <1>7, <1>8, <1>1 DEF Control, TypeOK, Positions, Goto
<1>10. Counters'
  BY <1>2, <1>7, <1>8 DEF Control, TypeOK, Counters
<1>11. Ranges'
  <2>1. \A u \in Threads \ {t} :
           /\ pc'[u] \in {"evalRun", "sumCas"} =>
                evalLeft' <= range'[u].b /\ range'[u].b < range'[u].e
           /\ pc'[u] = "genRun" =>
                /\ genLeft' <= range'[u].b /\ range'[u].b < range'[u].e
                /\ range'[u].e <= PopSize - Elites
    BY <1>2, <1>8 DEF Control, Ranges
  <2>2. range'[t].b \in 0..PopSize /\ range'[t].e \in 0..PopSize
    BY <1>a
  <2>3. /\ pc'[t] \in {"evalRun", "sumCas"} =>
             evalLeft' <= range'[t].b /\ range'[t].b < range'[t].e
        /\ pc'[t] = "genRun" =>
             /\ genLeft' <= range'[t].b /\ range'[t].b < range'[t].e
             /\ range'[t].e <= PopSize - Elites
    <3>1. genLeft \in 0..PopSize /\ range[t].b \in 0..PopSize /\ range[t].e \in 0..PopSize
      BY RangeType DEF Control, TypeOK
    <3> QED BY <1>2, <1>3, <1>8, <3>1
  <2> QED BY <2>1, <2>3 DEF Ranges
<1> QED BY <1>5, <1>6, <1>9, <1>10, <1>11 DEF Control

\* A worker looks for the service under the lock.
LEMMA ControlWorkerLock ==
    ASSUME Control, NEW t \in Workers, WorkerLock(t)
    PROVE  Control'
<1>1. /\ At(t, "lock")
      /\ UNCHANGED <<arrived, service, lifetimeOver, claimVars, popVars, mainVars>>
      /\ \/ cached' = [cached EXCEPT ![t] = TRUE] /\ Goto(t, "b0")
         \/ cached' = cached /\ Goto(t, "parked")
  BY DEF WorkerLock
<1> USE DEF At, Goto, claimVars, popVars, mainVars
<1>2. TypeOK'
  <2>1. CASE Goto(t, "b0") /\ cached' = [cached EXCEPT ![t] = TRUE]
    BY <1>1, <2>1 DEF Control, TypeOK
  <2>2. CASE Goto(t, "parked") /\ cached' = cached
    BY <1>1, <2>2 DEF Control, TypeOK
  <2> QED BY <1>1, <2>1, <2>2
<1>3. Lockstep'
  BY <1>1, Stay DEF Control
<1>4. Positions'
  BY <1>1, ZenonT(40) DEF Control, TypeOK, Positions
<1>5. Counters'
  <2>1. CASE Goto(t, "b0")
    BY <1>1, <2>1 DEF Control, TypeOK, Counters
  <2>2. CASE Goto(t, "parked")
    BY <1>1, <2>2 DEF Control, TypeOK, Counters
  <2> QED BY <1>1, <2>1, <2>2
<1>6. Ranges'
  BY <1>1 DEF Control, TypeOK, Ranges
<1> QED BY <1>2, <1>3, <1>4, <1>5, <1>6 DEF Control

\* The control part holds at the start ...
LEMMA ControlInit == Init => Control
<1> SUFFICES ASSUME Init PROVE Control
  OBVIOUS
<1> USE DEF Init
<1>1. TypeOK
  <2>1. /\ pc \in [Threads -> MainSites \cup WorkerSites \cup ServiceSites]
        /\ pc[Main] \notin WorkerSites
        /\ \A t \in Workers : pc[t] \notin MainSites \cup {"elitism"}
    OBVIOUS
  <2>2. range \in [Threads -> [b : 0..PopSize, e : 0..PopSize]]
    OBVIOUS
  <2>3. slot \in [Idx -> {"stale", "elite", "parent", "child"}] /\ evals \in [Idx -> Nat]
    OBVIOUS
  <2>4. /\ seen \in [Threads -> 0..PopSize] /\ oldSum \in [Threads -> Nat]
        /\ cached \in [Workers -> BOOLEAN]
    OBVIOUS
  <2> QED BY <2>1, <2>2, <2>3, <2>4 DEF TypeOK
<1>2. Lockstep
  BY DEF Lockstep, Segments
<1>3. Positions /\ Counters /\ Ranges
  BY DEF Positions, Counters, Ranges
<1> QED BY <1>1, <1>2, <1>3 DEF Control

\* ... when nothing changes ...
LEMMA ControlStutter == ASSUME Control, UNCHANGED vars PROVE Control'
BY DEF Control, TypeOK, Lockstep, Positions, Counters, Ranges, vars, poolVars, claimVars,
       popVars, mainVars

\* ... and after every step.
LEMMA ControlStep == ASSUME Control, [Next]_vars PROVE Control'
<1>1. CASE OwnerCall
  BY <1>1, ControlSetup, ControlEvaluateFitness, ControlCreateNextGeneration,
     ControlNextGeneration, ControlSetLifetimeOver DEF OwnerCall
<1>2. CASE MainStep
  BY <1>2, ControlSort, ControlElitism, ControlDestructorBarrier,
     ControlDestructorNotify, ControlJoin DEF MainStep
<1>3. ASSUME NEW t \in Threads, Barrier(t) PROVE Control'
  BY <1>3, ControlBarrierWait, ControlBarrierOpen, ControlBarrierExit DEF Barrier
<1>4. ASSUME NEW t \in Threads, Evaluation(t) PROVE Control'
  BY <1>4, ControlEvalTest, ControlEvalLoop, ControlEvalLoad, ControlEvalClaim,
     ControlEvalRetry, ControlEvalOne, ControlSumAdd, ControlSumRetry DEF Evaluation
<1>5. ASSUME NEW t \in Threads, Breeding(t) PROVE Control'
  BY <1>5, ControlGenTest, ControlGenLoop, ControlGenLoad, ControlGenClaim,
     ControlGenRetry, ControlBreedFailed, ControlBreed DEF Breeding
<1>6. ASSUME NEW t \in Workers, WorkerStep(t) \/ SpuriousWake(t) PROVE Control'
  BY <1>6, ControlWorkerTest, ControlWorkerLock, ControlWorkerWoken, ControlSpuriousWake
     DEF WorkerStep
<1>7. CASE Destroyed
  BY <1>7, ControlStutter DEF Destroyed
<1>8. CASE UNCHANGED vars
  BY <1>8, ControlStutter
<1> QED BY <1>1, <1>2, <1>3, <1>4, <1>5, <1>6, <1>7, <1>8 DEF Next

\* The threads execute the service in lockstep, and no counter wraps.
THEOREM ControlInvariant == Spec => []Control
<1>1. Init => Control
  BY ControlInit
<1>2. Control /\ [Next]_vars => Control'
  BY ControlStep
<1> QED BY <1>1, <1>2, PTL DEF Spec

\* The variables keep their types; in particular no counter of the service wraps.
THEOREM TypeCorrect == Spec => []TypeOK
<1>1. Control => TypeOK
  BY DEF Control
<1> QED BY <1>1, ControlInvariant, PTL

\* The barriers of the service keep all threads in the same segment of it.
THEOREM LockstepHolds == Spec => []Lockstep
<1>1. Control => Lockstep
  BY DEF Control
<1> QED BY <1>1, ControlInvariant, PTL

-----------------------------------------------------------------------------
(* Proofs: claims.                                                         *)

\* No thread takes, works on or gives back a claim.
Quiet ==
    \A u \in Threads :
        Holding(u) \/ Holding(u)' => pc'[u] = pc[u] /\ range'[u] = range[u]

\* The steps that touch a claim.
Claiming(t) == EvalClaim(t) \/ EvalOne(t) \/ SumAdd(t) \/ GenClaim(t) \/ Breed(t)

\* All other steps leave every claim alone.
LEMMA QuietStep ==
    ASSUME Control, [Next]_vars, \A t \in Threads : ~Claiming(t)
    PROVE  Quiet
<1> USE DEF Goto, At, poolVars, claimVars, popVars, mainVars, Quiet, Holding
<1>0. pc \in [Threads -> MainSites \cup WorkerSites \cup ServiceSites]
  BY DEF Control, TypeOK
<1>1. CASE OwnerCall
  BY <1>0, <1>1 DEF OwnerCall, Setup, EvaluateFitness, CreateNextGeneration,
     NextGeneration, SetLifetimeOver, NotifyAll
<1>2. CASE MainStep
  <2>1. CASE Sort \/ Elitism \/ DestructorNotify \/ Join
    BY <1>0, <2>1 DEF Sort, Elitism, DestructorNotify, Join, NotifyAll
  <2>2. CASE DestructorBarrier
    BY <1>0, <2>2 DEF DestructorBarrier, After, Control, Positions
  <2> QED BY <1>2, <2>1, <2>2 DEF MainStep
<1>3. ASSUME NEW t \in Threads, Barrier(t) PROVE Quiet
  <2>1. CASE BarrierWait(t)
    BY <1>0, <2>1 DEF BarrierWait
  <2>2. CASE BarrierOpen(t)
    <3>1. \A u \in Threads : pc[u] \in BarrierSites /\ pc'[u] = After(u)
      BY <2>2 DEF BarrierOpen, Control, Positions
    <3>2. \A u \in Threads : After(u) \notin {"evalRun", "sumCas", "genRun"}
      BY DEF After
    <3> QED BY <3>1, <3>2
  <2>3. CASE BarrierExit(t)
    BY <1>0, <2>3 DEF BarrierExit, After
  <2> QED BY <1>3, <2>1, <2>2, <2>3 DEF Barrier
<1>4. ASSUME NEW t \in Threads, Evaluation(t) PROVE Quiet
  BY <1>0, <1>4 DEF Evaluation, Claiming, EvalTest, EvalLoop, EvalLoad, EvalRetry, SumRetry
<1>5. ASSUME NEW t \in Threads, Breeding(t) PROVE Quiet
  BY <1>0, <1>5 DEF Breeding, Claiming, GenTest, GenLoop, GenLoad, GenRetry, BreedFailed
<1>6. ASSUME NEW t \in Workers, WorkerStep(t) \/ SpuriousWake(t) PROVE Quiet
  BY <1>0, <1>6 DEF WorkerStep, SpuriousWake, WorkerTest, WorkerLock, WorkerWoken
<1>7. CASE Destroyed \/ UNCHANGED vars
  BY <1>7 DEF Destroyed, vars
<1> QED BY <1>1, <1>2, <1>3, <1>4, <1>5, <1>6, <1>7 DEF Next

\* Claims stay disjoint when none changes.
LEMMA DisjointQuiet == ASSUME ClaimsDisjoint, Quiet PROVE ClaimsDisjoint'
BY DEF ClaimsDisjoint, Quiet, Holding

\* One thread takes a range below all others', or shrinks its own.
LEMMA DisjointClaiming ==
    ASSUME Control, Control', ClaimsDisjoint, NEW t \in Threads, Claiming(t)
    PROVE  ClaimsDisjoint'
<1> USE DEF Goto, At
<1>1. \A u \in Threads \ {t} : pc'[u] = pc[u] /\ range'[u] = range[u]
  <2>1. CASE EvalClaim(t) \/ GenClaim(t)
    BY <2>1, ZenonT(40) DEF EvalClaim, GenClaim, Control, TypeOK
  <2>2. CASE EvalOne(t)
    BY <2>2 DEF EvalOne, claimVars, Control, TypeOK
  <2>3. CASE SumAdd(t)
    BY <2>3 DEF SumAdd, Advance, Control, TypeOK
  <2>4. CASE Breed(t)
    BY <2>4 DEF Breed, Advance, Control, TypeOK
  <2> QED BY <2>1, <2>2, <2>3, <2>4 DEF Claiming
<1>2. \/ Holding(t)' => /\ Holding(t) /\ range[t].b <= range'[t].b
                        /\ range'[t].e = range[t].e
      \/ \A u \in Threads \ {t} : Holding(u) => range'[t].e <= range[u].b
  <2>r. \A u \in Threads : range[u].b \in 0..PopSize /\ range[u].e \in 0..PopSize
    BY RangeType DEF Control
  <2>1. CASE EvalClaim(t)
    <3>1. ~lifetimeOver /\ \A u \in Threads : pc[u] \in EvalSegment
      BY <2>1, Together DEF EvalClaim, Control, TypeOK, Positions
    <3>2. range'[t].e = evalLeft
      BY <2>1 DEF EvalClaim, Control, TypeOK
    <3> QED BY <3>1, <3>2 DEF Holding, Control, Ranges
  <2>2. CASE GenClaim(t)
    <3>1. ~lifetimeOver /\ \A u \in Threads : pc[u] \in BreedSegment
      BY <2>2, Together DEF GenClaim, Control, TypeOK, Positions
    <3>2. range'[t].e = genLeft
      BY <2>2 DEF GenClaim, Control, TypeOK
    <3> QED BY <3>1, <3>2 DEF Holding, Control, Ranges
  <2>3. CASE EvalOne(t)
    BY <2>3, <2>r DEF EvalOne, Holding, claimVars
  <2>4. CASE SumAdd(t)
    <3>1. range'[t].b = range[t].b + 1 /\ range'[t].e = range[t].e /\ Holding(t)
      BY <2>4 DEF SumAdd, Advance, Control, TypeOK, Holding
    <3> QED BY <3>1, <2>r
  <2>5. CASE Breed(t)
    <3>1. PICK made \in {1, 2} : Advance(t, made)
      BY <2>5 DEF Breed
    <3>2. range'[t].b = range[t].b + made /\ range'[t].e = range[t].e /\ Holding(t)
      BY <2>5, <3>1 DEF Breed, Advance, Control, TypeOK, Holding
    <3> QED BY <3>2, <2>r
  <2> QED BY <2>1, <2>2, <2>3, <2>4, <2>5 DEF Claiming
<1>3. \A u \in Threads \ {t} : Holding(u)' => Holding(u)
  BY <1>1 DEF Holding
<1>4. \A u \in Threads : /\ range[u].b \in 0..PopSize /\ range[u].e \in 0..PopSize
                         /\ range'[u].b \in 0..PopSize /\ range'[u].e \in 0..PopSize
  BY DEF Control, TypeOK
<1> SUFFICES ASSUME NEW u \in Threads, NEW v \in Threads, u # v, Holding(u)', Holding(v)'
             PROVE  range'[u].e <= range'[v].b \/ range'[v].e <= range'[u].b
  BY DEF ClaimsDisjoint
<1>5. CASE u # t /\ v # t
  BY <1>1, <1>3, <1>5 DEF ClaimsDisjoint
<1>6. ASSUME NEW w \in Threads \ {t}, Holding(w)', Holding(t)'
      PROVE  range'[w].e <= range'[t].b \/ range'[t].e <= range'[w].b
  BY <1>1, <1>2, <1>3, <1>4, <1>6 DEF ClaimsDisjoint
<1> QED BY <1>5, <1>6

-----------------------------------------------------------------------------
(* Proofs: scoring.                                                        *)

\* What is pending stays so when no claim changes.
LEMMA PendingQuiet ==
    ASSUME Quiet, NEW i \in Int
    PROVE  /\ ScorePending(i)' <=> ScorePending(i)
           /\ ChildPending(i)' <=> ChildPending(i)
<1>1. \A u \in Threads :
        pc[u] \in {"evalRun", "sumCas", "genRun"} \/ pc'[u] \in {"evalRun", "sumCas", "genRun"}
          => pc'[u] = pc[u] /\ range'[u] = range[u]
  BY DEF Quiet, Holding
<1>2. ScorePending(i)' <=> ScorePending(i)
  BY <1>1 DEF ScorePending, ToScore
<1>3. ChildPending(i)' <=> ChildPending(i)
  BY <1>1 DEF ChildPending, ToBreed
<1> QED BY <1>2, <1>3

\* Outside the evaluation nothing is pending.
LEMMA NothingPending ==
    ASSUME Lockstep, ~lifetimeOver, NEW i \in Int
    PROVE  /\ pc[Main] \notin EvalSegment => ~ScorePending(i)
           /\ pc[Main] \notin BreedSegment => ~ChildPending(i)
BY Together DEF ScorePending, ChildPending, ToScore, ToBreed

Scored == ServiceSites \cup {"sort", "scored", "swap"}

\* Scoring depends only on the scores, the counter and what is pending.
LEMMA ScoringSame ==
    ASSUME Control, Scoring, evals' = evals, evalLeft' = evalLeft,
           \A i \in Idx : ScorePending(i)' <=> ScorePending(i),
           pc'[Main] \in Scored => pc[Main] \in Scored
    PROVE  Scoring'
BY DEF Scoring, Scored

\* Every step preserves the account of what is scored.
LEMMA ScoringStep ==
    ASSUME Control, Control', ClaimsDisjoint, Scoring, [Next]_vars
    PROVE  Scoring'
<1> USE DEF Goto, At, poolVars, claimVars, popVars, mainVars
<1>t. /\ pc \in [Threads -> MainSites \cup WorkerSites \cup ServiceSites]
      /\ \A u \in Threads : range[u].b \in 0..PopSize /\ range[u].e \in 0..PopSize
      /\ evals \in [Idx -> Nat] /\ evalLeft \in 0..PopSize
  BY RangeType DEF Control, TypeOK
<1>1. CASE EvaluateFitness
  <2>1. ~lifetimeOver' /\ pc'[Main] = "b0"
    BY <1>t, <1>1 DEF EvaluateFitness, Control, Positions
  <2>2. \A i \in Idx : ~ScorePending(i)'
    <3>1. ~lifetimeOver /\ pc[Main] \in {"unscored", "scored"}
      BY <1>1 DEF EvaluateFitness, Control, Positions
    <3>2. \A u \in Threads : pc[u] \in OutsideSegment
      BY <3>1, Together DEF Control
    <3>3. \A u \in Threads : pc'[u] \in OutsideSegment
      BY <1>t, <1>1, <3>2 DEF EvaluateFitness
    <3> QED BY <3>3 DEF ScorePending, ToScore
  <2> QED BY <1>1, <2>2 DEF EvaluateFitness, Scoring
<1>2. CASE NextGeneration
  <2>1. pc'[Main] = "unscored"
    BY <1>t, <1>2 DEF NextGeneration
  <2> QED BY <1>2, <2>1 DEF NextGeneration, Scoring
<1>3. ASSUME NEW t \in Threads, EvalClaim(t) PROVE Scoring'
  <2>1. /\ pc[t] = "evalCas" /\ evalLeft' \in 0..evalLeft /\ evals' = evals
        /\ range'[t].b = evalLeft' /\ range'[t].e = evalLeft
        /\ pc'[t] = IF evalLeft' = evalLeft THEN "evalLoop" ELSE "evalRun"
        /\ \A u \in Threads \ {t} : pc'[u] = pc[u] /\ range'[u] = range[u]
    BY <1>t, <1>3, Chunk DEF EvalClaim, Control, TypeOK
  <2>2. \A i \in Idx : i < evalLeft \/ ScorePending(i) <=> i < evalLeft' \/ ScorePending(i)'
    <3> SUFFICES ASSUME NEW i \in Idx
                 PROVE  i < evalLeft \/ ScorePending(i) <=> i < evalLeft' \/ ScorePending(i)'
      OBVIOUS
    <3>1. \A u \in Threads \ {t} : ToScore(u, i)' <=> ToScore(u, i)
      BY <2>1 DEF ToScore
    <3>2. ~ToScore(t, i) /\ (ToScore(t, i)' <=> evalLeft' <= i /\ i < evalLeft)
      BY <1>t, <2>1 DEF ToScore
    <3> QED BY <1>t, <2>1, <3>1, <3>2 DEF ScorePending
  <2>3. pc'[Main] \in Scored => pc[Main] \in Scored
    BY <2>1 DEF Scored
  <2> QED BY <2>1, <2>2, <2>3 DEF Scoring, Scored
<1>4. ASSUME NEW t \in Threads, EvalOne(t) PROVE Scoring'
  <2>1. /\ pc[t] = "evalRun" /\ pc'[t] = "sumCas" /\ evalLeft' = evalLeft /\ range' = range
        /\ evals' = [evals EXCEPT ![range[t].b] = evals[range[t].b] + 1]
        /\ \A u \in Threads \ {t} : pc'[u] = pc[u]
    BY <1>t, <1>4 DEF EvalOne
  <2>2. range[t].b \in Idx /\ evalLeft <= range[t].b /\ range[t].b < range[t].e
    BY <1>t, <2>1 DEF Control, Ranges
  <2>3. ScorePending(range[t].b) /\ ~ScorePending(range[t].b)'
    <3>1. ScorePending(range[t].b)
      BY <1>t, <2>1, <2>2 DEF ScorePending, ToScore
    <3>2. ASSUME NEW u \in Threads \ {t}, pc[u] \in {"evalRun", "sumCas"}
          PROVE  range[u].e <= range[t].b \/ range[t].e <= range[u].b
      BY <2>1, <3>2 DEF ClaimsDisjoint, Holding
    <3>3. \A u \in Threads \ {t} : ~ToScore(u, range[t].b)'
      <4> SUFFICES ASSUME NEW u \in Threads \ {t}, ToScore(u, range[t].b)'
                   PROVE  FALSE
        OBVIOUS
      <4>1. /\ pc[u] \in {"evalRun", "sumCas"}
            /\ range[u].b <= range[t].b /\ range[t].b < range[u].e
        BY <1>t, <2>1 DEF ToScore
      <4>2. range[u].e <= range[t].b \/ range[t].e <= range[u].b
        BY <3>2, <4>1
      <4> QED BY <1>t, <2>2, <4>1, <4>2
    <3>4. ~ToScore(t, range[t].b)'
      BY <1>t, <2>1 DEF ToScore
    <3> QED BY <2>1, <3>1, <3>3, <3>4 DEF ScorePending
  <2>4. \A i \in Idx \ {range[t].b} : ScorePending(i) <=> ScorePending(i)'
    <3> SUFFICES ASSUME NEW i \in Idx \ {range[t].b}
                 PROVE  ScorePending(i) <=> ScorePending(i)'
      OBVIOUS
    <3>1. \A u \in Threads : ToScore(u, i)' <=> ToScore(u, i)
      BY <1>t, <2>1 DEF ToScore
    <3> QED BY <3>1 DEF ScorePending
  <2>5. ~lifetimeOver /\ pc[Main] \in EvalSegment
    BY <2>1, Together DEF Control, TypeOK, Positions
  <2>6. evals[range[t].b] = 0
    BY <2>2, <2>3, <2>5 DEF Scoring
  <2>7. \A i \in Idx : evals'[i] = IF i = range[t].b THEN 1 ELSE evals[i]
    BY <1>t, <2>1, <2>2, <2>6
  <2> QED BY <1>t, <2>1, <2>2, <2>3, <2>4, <2>5, <2>7 DEF Scoring
<1>5. ASSUME NEW t \in Threads, SumAdd(t) PROVE Scoring'
  <2>1. /\ pc[t] = "sumCas" /\ evalLeft' = evalLeft /\ evals' = evals
        /\ range'[t].b = range[t].b + 1 /\ range'[t].e = range[t].e
        /\ pc'[t] = IF range[t].b + 1 < range[t].e THEN "evalRun" ELSE "evalLoop"
        /\ \A u \in Threads \ {t} : pc'[u] = pc[u] /\ range'[u] = range[u]
    BY <1>t, <1>5 DEF SumAdd, Advance, Control, TypeOK
  <2>2. \A i \in Idx : ScorePending(i) <=> ScorePending(i)'
    <3> SUFFICES ASSUME NEW i \in Idx
                 PROVE  ScorePending(i) <=> ScorePending(i)'
      OBVIOUS
    <3>1. \A u \in Threads \ {t} : ToScore(u, i)' <=> ToScore(u, i)
      BY <2>1 DEF ToScore
    <3>2. ToScore(t, i)' <=> ToScore(t, i)
      BY <1>t, <2>1, SMTT(20) DEF ToScore
    <3> QED BY <3>1, <3>2 DEF ScorePending
  <2>3. pc'[Main] \in Scored => pc[Main] \in Scored
    BY <2>1 DEF Scored
  <2> QED BY <2>1, <2>2, <2>3, ScoringSame
<1>6. ASSUME NEW t \in Threads, GenClaim(t) \/ Breed(t) PROVE Scoring'
  <2>1. /\ pc[t] \in {"genCas", "genRun"} /\ evalLeft' = evalLeft /\ evals' = evals
        /\ pc'[t] \in {"genRun", "genLoop"}
        /\ \A u \in Threads \ {t} : pc'[u] = pc[u] /\ range'[u] = range[u]
    <3>1. CASE GenClaim(t)
      BY <1>t, <3>1 DEF GenClaim, Control, TypeOK
    <3>2. CASE Breed(t)
      BY <1>t, <3>2 DEF Breed, Advance, Control, TypeOK
    <3> QED BY <1>6, <3>1, <3>2
  <2>2. \A i \in Idx : ScorePending(i) <=> ScorePending(i)'
    BY <2>1 DEF ScorePending, ToScore
  <2>3. pc'[Main] \in Scored => pc[Main] \in Scored
    BY <2>1 DEF Scored
  <2> QED BY <2>1, <2>2, <2>3, ScoringSame
<1>7. CASE /\ \A t \in Threads : ~Claiming(t)
           /\ ~EvaluateFitness /\ ~NextGeneration
  <2>1. Quiet
    BY <1>7, QuietStep
  <2>2. evals' = evals /\ evalLeft' = evalLeft /\ (pc'[Main] \in Scored => pc[Main] \in Scored)
    <3>1. CASE OwnerCall
      BY <1>t, <1>7, <3>1 DEF OwnerCall, Setup, CreateNextGeneration, SetLifetimeOver, NotifyAll, Scored
    <3>2. CASE MainStep
      BY <1>t, <3>2 DEF MainStep, Sort, Elitism, DestructorBarrier, DestructorNotify, Join,
         NotifyAll, Scored
    <3>3. ASSUME NEW t \in Threads, Barrier(t) PROVE <2>2
      BY <1>t, <3>3 DEF Barrier, BarrierWait, BarrierOpen, BarrierExit, After, Scored, Control, Positions
    <3>4. ASSUME NEW t \in Threads, Evaluation(t) PROVE <2>2
      BY <1>t, <1>7, <3>4 DEF Evaluation, Claiming, EvalTest, EvalLoop, EvalLoad, EvalRetry,
         SumRetry, Scored
    <3>5. ASSUME NEW t \in Threads, Breeding(t) PROVE <2>2
      BY <1>t, <1>7, <3>5 DEF Breeding, Claiming, GenTest, GenLoop, GenLoad, GenRetry,
         BreedFailed, Scored
    <3>6. ASSUME NEW t \in Workers, WorkerStep(t) \/ SpuriousWake(t) PROVE <2>2
      BY <1>t, <3>6 DEF WorkerStep, SpuriousWake, WorkerTest, WorkerLock, WorkerWoken, Scored
    <3>7. CASE Destroyed \/ UNCHANGED vars
      BY <3>7 DEF Destroyed, vars
    <3> QED BY <3>1, <3>2, <3>3, <3>4, <3>5, <3>6, <3>7 DEF Next
  <2> QED BY <2>1, <2>2, PendingQuiet, ScoringSame
<1> QED BY <1>1, <1>2, <1>3, <1>4, <1>5, <1>6, <1>7 DEF Claiming

-----------------------------------------------------------------------------
(* Proofs: the next population.                                            *)

Unplaced == {"b0", "evalTest", "genTest", "b3", "elitism"}
Placed == {"b4", "swap"} \cup BreedSegment

\* Slots depends only on the slots, the counter and what is pending.
LEMMA SlotsSame ==
    ASSUME Slots, slot' = slot, genLeft' = genLeft, call' = call,
           \A i \in Int : ChildPending(i)' <=> ChildPending(i),
           call = "create" /\ pc'[Main] \in Unplaced => pc[Main] \in Unplaced,
           call = "create" /\ pc'[Main] \in Placed => pc[Main] \in Placed
    PROVE  Slots'
<1>1. call' = "create" /\ pc'[Main] \in Unplaced => \A i \in Idx : slot'[i] = "stale"
  BY DEF Slots, Unplaced
<1>2. call' = "create" /\ pc'[Main] \in Placed =>
        \A i \in Idx :
            IF i < Elites THEN slot'[i] = "elite"
            ELSE /\ slot'[i] # "elite"
                 /\ slot'[i] = "child" <=>
                      ~(i - Elites < genLeft' \/ ChildPending(i - Elites)')
  BY DEF Slots, Placed
<1> QED BY <1>1, <1>2 DEF Slots, Unplaced, Placed

\* Every step preserves the account of what is bred.
LEMMA SlotsStep ==
    ASSUME Control, Control', ClaimsDisjoint, Slots, [Next]_vars
    PROVE  Slots'
<1> USE DEF Goto, At, poolVars, claimVars, popVars, mainVars
<1>t. /\ pc \in [Threads -> MainSites \cup WorkerSites \cup ServiceSites]
      /\ \A u \in Threads : range[u].b \in 0..PopSize /\ range[u].e \in 0..PopSize
      /\ slot \in [Idx -> {"stale", "elite", "parent", "child"}] /\ genLeft \in 0..PopSize
  BY RangeType DEF Control, TypeOK
\* Steps that start, leave or abandon a generation say nothing of the slots.
<1>1. CASE EvaluateFitness \/ NextGeneration \/ SetLifetimeOver \/ Setup
  <2>1. call' # "create" \/ pc'[Main] \in {"unscored", "dtorBarrier"}
    BY <1>t, <1>1 DEF EvaluateFitness, NextGeneration, SetLifetimeOver, Setup, NotifyAll
  <2> QED BY <2>1 DEF Slots
<1>2. CASE CreateNextGeneration
  <2>1. pc'[Main] = "b0" /\ slot' = [i \in Idx |-> "stale"]
    BY <1>t, <1>2 DEF CreateNextGeneration
  <2> QED BY <2>1 DEF Slots
<1>3. CASE Elitism
  <2>1. /\ pc[Main] = "elitism" /\ pc'[Main] = "b4" /\ ~lifetimeOver /\ ~lifetimeOver'
        /\ call = "create" /\ genLeft = PopSize /\ genLeft' = PopSize - Elites
        /\ slot' = [i \in Idx |-> IF i < Elites THEN "elite" ELSE slot[i]]
    BY <1>t, <1>3 DEF Elitism, Control, Positions, Counters
  <2>2. \A i \in Int : ~ChildPending(i)'
    <3>1. \A u \in Threads : pc[u] \in ElitismSegment
      BY <2>1, Together DEF Control
    <3>2. \A u \in Threads : pc'[u] \in ElitismSegment
      BY <1>t, <1>3, <3>1 DEF Elitism
    <3> QED BY <3>2 DEF ChildPending, ToBreed
  <2>3. \A i \in Idx : slot[i] = "stale"
    BY <2>1 DEF Slots
  <2>4. \A i \in Idx : i < Elites \/ i - Elites < genLeft'
    BY <2>1
  <2>5. \A i \in Idx : IF i < Elites THEN slot'[i] = "elite" ELSE slot'[i] = "stale"
    BY <2>1, <2>3
  <2> QED BY <2>1, <2>2, <2>4, <2>5 DEF Slots
<1>4. ASSUME NEW t \in Threads, GenClaim(t) PROVE Slots'
  <2>1. /\ pc[t] = "genCas" /\ genLeft' \in 0..genLeft /\ slot' = slot /\ call' = call
        /\ range'[t].b = genLeft' /\ range'[t].e = genLeft
        /\ pc'[t] = IF genLeft' = genLeft THEN "genLoop" ELSE "genRun"
        /\ \A u \in Threads \ {t} : pc'[u] = pc[u] /\ range'[u] = range[u]
    BY <1>t, <1>4, Chunk DEF GenClaim, Control, TypeOK
  <2>2. \A i \in Nat : i < genLeft \/ ChildPending(i) <=> i < genLeft' \/ ChildPending(i)'
    <3> SUFFICES ASSUME NEW i \in Nat
                 PROVE  i < genLeft \/ ChildPending(i) <=> i < genLeft' \/ ChildPending(i)'
      OBVIOUS
    <3>1. \A u \in Threads \ {t} : ToBreed(u, i)' <=> ToBreed(u, i)
      BY <2>1 DEF ToBreed
    <3>2. ~ToBreed(t, i) /\ (ToBreed(t, i)' <=> genLeft' <= i /\ i < genLeft)
      BY <1>t, <2>1 DEF ToBreed
    <3> QED BY <1>t, <2>1, <3>1, <3>2 DEF ChildPending
  <2>3. pc[Main] \in Placed /\ pc'[Main] \notin Unplaced
    <3>1. ~lifetimeOver
      BY <2>1 DEF Control, TypeOK, Positions
    <3>2. pc[Main] \in BreedSegment
      BY <2>1, <3>1, Together DEF Control
    <3>3. pc'[Main] \in BreedSegment
      BY <2>1, <3>2
    <3> QED BY <3>2, <3>3 DEF Placed, Unplaced
  <2>4. \A i \in Idx : i < Elites \/ i - Elites \in Nat
    OBVIOUS
  <2> QED BY <2>1, <2>2, <2>3, <2>4 DEF Slots, Placed, Unplaced
<1>5. ASSUME NEW t \in Threads, Breed(t) PROVE Slots'
  <2>1. PICK made \in {1, 2} :
          /\ range[t].b + made <= range[t].e
          /\ slot' = [i \in Idx |-> IF i \in (Elites + range[t].b)..(Elites + range[t].b + made - 1)
                                    THEN "child" ELSE slot[i]]
          /\ Advance(t, made)
          /\ Goto(t, IF range[t].b + made = range[t].e THEN "genLoop" ELSE "genRun")
    BY <1>5 DEF Breed
  <2>2. /\ pc[t] = "genRun" /\ genLeft' = genLeft /\ call' = call
        /\ range'[t].b = range[t].b + made /\ range'[t].e = range[t].e
        /\ pc'[t] = IF range[t].b + made = range[t].e THEN "genLoop" ELSE "genRun"
        /\ \A u \in Threads \ {t} : pc'[u] = pc[u] /\ range'[u] = range[u]
    BY <1>t, <1>5, <2>1 DEF Breed, Advance, Control, TypeOK
  <2>3. genLeft <= range[t].b /\ range[t].e <= PopSize - Elites
    BY <2>2 DEF Control, Ranges
  <2>4. pc[Main] \in Placed /\ pc'[Main] \notin Unplaced /\ call = "create"
    <3>1. ~lifetimeOver
      BY <2>2 DEF Control, TypeOK, Positions
    <3>2. pc[Main] \in BreedSegment
      BY <2>2, <3>1, Together DEF Control
    <3>3. pc'[Main] \in BreedSegment
      BY <2>2, <3>2
    <3>4. call = "create"
      BY <2>2 DEF Control, Counters
    <3> QED BY <3>2, <3>3, <3>4 DEF Placed, Unplaced
  <2> DEFINE new == range[t].b .. (range[t].b + made - 1)
  <2>5. \A i \in Nat : ChildPending(i)' <=> ChildPending(i) /\ i \notin new
    <3> SUFFICES ASSUME NEW i \in Nat
                 PROVE  ChildPending(i)' <=> ChildPending(i) /\ i \notin new
      OBVIOUS
    <3>1. \A u \in Threads \ {t} : ToBreed(u, i)' <=> ToBreed(u, i)
      BY <2>2 DEF ToBreed
    <3>2. ToBreed(t, i)' <=> ToBreed(t, i) /\ i \notin new
      BY <1>t, <2>1, <2>2 DEF ToBreed
    <3>3. ToBreed(t, i) => \A u \in Threads \ {t} : ~ToBreed(u, i)
      <4> SUFFICES ASSUME NEW u \in Threads \ {t}, ToBreed(t, i), ToBreed(u, i)
                   PROVE  FALSE
        OBVIOUS
      <4>1. range[u].e <= range[t].b \/ range[t].e <= range[u].b
        BY DEF ClaimsDisjoint, Holding, ToBreed
      <4> QED BY <1>t, <4>1 DEF ToBreed
    <3>4. i \in new => ToBreed(t, i)
      BY <1>t, <2>1, <2>2 DEF ToBreed
    <3> QED BY <3>1, <3>2, <3>3, <3>4 DEF ChildPending
  <2>6. \A i \in new : i \in Nat /\ ~(i < genLeft)
    BY <1>t, <2>1, <2>3
  <2>7. \A i \in Idx : i < Elites \/ i - Elites \in Nat
    OBVIOUS
  <2>8. \A i \in Idx :
          slot'[i] = IF i >= Elites /\ i - Elites \in new THEN "child" ELSE slot[i]
    <3>1. range[t].b \in Nat
      BY <1>t
    <3>2. \A i \in Idx :
            i \in (Elites + range[t].b)..(Elites + range[t].b + made - 1)
              <=> i >= Elites /\ i - Elites \in new
      BY <3>1
    <3>3. \A i \in Idx :
            slot'[i] = IF i \in (Elites + range[t].b)..(Elites + range[t].b + made - 1)
                       THEN "child" ELSE slot[i]
      BY <2>1
    <3> HIDE DEF new
    <3> QED BY <3>2, <3>3
  <2> HIDE DEF new
  <2>9. \A i \in Idx :
            IF i < Elites THEN slot'[i] = "elite"
            ELSE /\ slot'[i] # "elite"
                 /\ slot'[i] = "child" <=>
                      ~(i - Elites < genLeft' \/ ChildPending(i - Elites)')
    <3> SUFFICES ASSUME NEW i \in Idx
                 PROVE  IF i < Elites THEN slot'[i] = "elite"
                        ELSE /\ slot'[i] # "elite"
                             /\ slot'[i] = "child" <=>
                                  ~(i - Elites < genLeft' \/ ChildPending(i - Elites)')
      OBVIOUS
    <3>1. IF i < Elites THEN slot[i] = "elite"
          ELSE /\ slot[i] # "elite"
               /\ slot[i] = "child" <=> ~(i - Elites < genLeft \/ ChildPending(i - Elites))
      BY <2>4 DEF Slots, Placed
    <3>2. CASE i < Elites
      BY <2>8, <3>1, <3>2
    <3>3. CASE ~(i < Elites)
      BY <2>2, <2>5, <2>6, <2>7, <2>8, <3>1, <3>3
    <3> QED BY <3>2, <3>3
  <2> QED BY <2>4, <2>9 DEF Slots, Unplaced
<1>6. ASSUME NEW t \in Threads, BreedFailed(t) PROVE Slots'
  <2>1. /\ pc[t] = "genRun" /\ pc' = pc /\ range' = range /\ genLeft' = genLeft /\ call' = call
        /\ slot' = [i \in Idx |-> IF i \in Children(t) THEN "parent" ELSE slot[i]]
    BY <1>6 DEF BreedFailed
  <2>2. \A i \in Int : ChildPending(i)' <=> ChildPending(i)
    BY <2>1 DEF ChildPending, ToBreed
  <2>3. \A i \in Idx : i \in Children(t) => i >= Elites /\ ChildPending(i - Elites)
    <3> SUFFICES ASSUME NEW i \in Idx, i \in Children(t)
                 PROVE  i >= Elites /\ ChildPending(i - Elites)
      OBVIOUS
    <3>1. PICK j \in {range[t].b, range[t].b + 1} : j < range[t].e /\ i = Elites + j
      BY DEF Children
    <3>2. range[t].b <= j /\ i - Elites = j /\ i >= Elites
      BY <1>t, <3>1
    <3> QED BY <2>1, <3>1, <3>2 DEF ChildPending, ToBreed
  <2>4. pc[Main] \in Placed /\ pc'[Main] \notin Unplaced /\ call = "create"
    <3>1. ~lifetimeOver
      BY <2>1 DEF Control, TypeOK, Positions
    <3>2. pc[Main] \in BreedSegment
      BY <2>1, <3>1, Together DEF Control
    <3>3. pc'[Main] \in BreedSegment
      BY <2>1, <3>2
    <3>4. call = "create"
      BY <2>1 DEF Control, Counters
    <3> QED BY <3>2, <3>3, <3>4 DEF Placed, Unplaced
  <2>5. \A i \in Idx : IF i < Elites THEN slot[i] = "elite"
          ELSE /\ slot[i] # "elite"
               /\ slot[i] = "child" <=> ~(i - Elites < genLeft \/ ChildPending(i - Elites))
    BY <2>4 DEF Slots, Placed
  <2> QED BY <2>1, <2>2, <2>3, <2>4, <2>5 DEF Slots, Unplaced
<1>7. ASSUME NEW t \in Threads, EvalClaim(t) \/ EvalOne(t) \/ SumAdd(t) PROVE Slots'
  <2>1. /\ pc[t] \in EvalSites /\ pc'[t] \in EvalSites /\ slot' = slot /\ genLeft' = genLeft
        /\ call' = call /\ pc'[t] # "genRun"
        /\ \A u \in Threads \ {t} : pc'[u] = pc[u] /\ range'[u] = range[u]
    <3>1. CASE EvalClaim(t)
      BY <1>t, <3>1 DEF EvalClaim, Control, TypeOK
    <3>2. CASE EvalOne(t)
      BY <1>t, <3>2 DEF EvalOne
    <3>3. CASE SumAdd(t)
      BY <1>t, <3>3 DEF SumAdd, Advance, Control, TypeOK
    <3> QED BY <1>7, <3>1, <3>2, <3>3
  <2>2. call # "create"
    BY <2>1 DEF Control, Counters
  <2> QED BY <2>1, <2>2 DEF Slots
<1>8. CASE /\ \A t \in Threads : ~Claiming(t) /\ ~BreedFailed(t)
           /\ ~(EvaluateFitness \/ NextGeneration \/ SetLifetimeOver \/ Setup)
           /\ ~CreateNextGeneration /\ ~Elitism
  <2>1. Quiet
    BY <1>8, QuietStep
  <2>2. /\ slot' = slot /\ genLeft' = genLeft /\ call' = call
        /\ call = "create" /\ pc'[Main] \in Unplaced => pc[Main] \in Unplaced
        /\ call = "create" /\ pc'[Main] \in Placed => pc[Main] \in Placed
    <3> USE DEF Unplaced, Placed
    <3>1. ~OwnerCall
      BY <1>8 DEF OwnerCall
    <3>2. CASE MainStep
      BY <1>t, <1>8, <3>2 DEF MainStep, Sort, DestructorBarrier, DestructorNotify, Join, NotifyAll
    <3>3. ASSUME NEW t \in Threads, Barrier(t) PROVE <2>2
      <4>1. slot' = slot /\ genLeft' = genLeft /\ call' = call
        BY <3>3 DEF Barrier, BarrierWait, BarrierOpen, BarrierExit
      <4>2. CASE pc'[Main] = pc[Main]
        BY <4>1, <4>2
      <4>3. CASE pc'[Main] # pc[Main]
        <5>1. pc[Main] \in BarrierSites /\ pc'[Main] = After(Main)
          BY <1>t, <3>3, <4>3 DEF Barrier, BarrierWait, BarrierOpen, BarrierExit, Control, Positions
        <5>2. call = "create" => pc[Main] \notin {"b1", "b2"}
          BY DEF Control, Counters
        <5> QED BY <4>1, <5>1, <5>2 DEF After
      <4> QED BY <4>2, <4>3
    <3>4. ASSUME NEW t \in Threads, Evaluation(t) PROVE <2>2
      BY <1>t, <1>8, <3>4 DEF Evaluation, Claiming, EvalTest, EvalLoop, EvalLoad, EvalRetry, SumRetry
    <3>5. ASSUME NEW t \in Threads, Breeding(t) PROVE <2>2
      BY <1>t, <1>8, <3>5 DEF Breeding, Claiming, GenTest, GenLoop, GenLoad, GenRetry,
         Control, Counters
    <3>6. ASSUME NEW t \in Workers, WorkerStep(t) \/ SpuriousWake(t) PROVE <2>2
      BY <1>t, <3>6 DEF WorkerStep, SpuriousWake, WorkerTest, WorkerLock, WorkerWoken
    <3>7. CASE Destroyed \/ UNCHANGED vars
      BY <3>7 DEF Destroyed, vars
    <3> QED BY <3>1, <3>2, <3>3, <3>4, <3>5, <3>6, <3>7 DEF Next
  <2> QED BY <2>1, <2>2, PendingQuiet, SlotsSame
<1> QED BY <1>1, <1>2, <1>3, <1>4, <1>5, <1>6, <1>7, <1>8 DEF Claiming

-----------------------------------------------------------------------------
(* Proofs: the theorems.                                                   *)

\* The inductive invariant holds at the start ...
LEMMA IInvInit == Init => IInv
<1> SUFFICES ASSUME Init PROVE IInv
  OBVIOUS
<1>1. Control
  BY ControlInit
<1>2. ClaimsDisjoint /\ Scoring /\ Slots
  BY DEF Init, ClaimsDisjoint, Holding, Scoring, Slots
<1> QED BY <1>1, <1>2 DEF IInv

\* ... and every step preserves it.
LEMMA IInvStep == ASSUME IInv, [Next]_vars PROVE IInv'
<1>1. Control /\ Control' /\ ClaimsDisjoint /\ Scoring /\ Slots
  BY ControlStep DEF IInv
<1>2. ClaimsDisjoint'
  <2>1. CASE \E t \in Threads : Claiming(t)
    BY <1>1, <2>1, DisjointClaiming
  <2>2. CASE \A t \in Threads : ~Claiming(t)
    BY <1>1, <2>2, QuietStep, DisjointQuiet
  <2> QED BY <2>1, <2>2
<1>3. Scoring' /\ Slots'
  BY <1>1, ScoringStep, SlotsStep
<1> QED BY <1>1, <1>2, <1>3 DEF IInv

\* The inductive invariant holds of every behaviour of the thread pool.
THEOREM IInvHolds == Spec => []IInv
<1>1. Init => IInv
  BY IInvInit
<1>2. IInv /\ [Next]_vars => IInv'
  BY IInvStep
<1> QED BY <1>1, <1>2, PTL DEF Spec

\* Two threads never hold the same individual at the same time.
THEOREM ClaimsAreDisjoint == Spec => []ClaimsDisjoint
<1>1. IInv => ClaimsDisjoint
  BY DEF IInv
<1> QED BY <1>1, IInvHolds, PTL

\* What the owner finds when its calls return.
LEMMA CallsComplete ==
    ASSUME IInv
    PROVE  EvaluatedExactlyOnce /\ NextPopulationComplete
<1>1. EvaluatedExactlyOnce
  <2>1. CASE pc[Main] \in {"sort", "scored"}
    <3>1. ~lifetimeOver /\ evalLeft = 0
      BY <2>1 DEF IInv, Control, Positions
    <3>2. \A i \in Idx : ~ScorePending(i)
      BY <2>1, <3>1, NothingPending DEF IInv, Control
    <3> QED BY <2>1, <3>1, <3>2 DEF IInv, Scoring, EvaluatedExactlyOnce
  <2>2. CASE pc[Main] \notin {"sort", "scored"}
    BY <2>2 DEF IInv, Scoring, EvaluatedExactlyOnce
  <2> QED BY <2>1, <2>2
<1>2. NextPopulationComplete
  <2> SUFFICES ASSUME pc[Main] = "swap"
               PROVE  \A i \in Idx : slot[i] = IF i < Elites THEN "elite" ELSE "child"
    BY DEF NextPopulationComplete
  <2>1. ~lifetimeOver /\ genLeft = 0
    BY DEF IInv, Control, Positions
  <2>2. \A i \in Int : ~ChildPending(i)
    BY <2>1, NothingPending DEF IInv, Control
  <2>3. call = "create"
    BY DEF IInv, Control, Positions
  <2> QED BY <2>1, <2>2, <2>3 DEF IInv, Slots
<1> QED BY <1>1, <1>2

\* evaluate_fitness scores every individual, and each exactly once.
THEOREM ScoredExactlyOnce == Spec => []EvaluatedExactlyOnce
BY CallsComplete, IInvHolds, PTL

\* create_next_generation fills every slot: elites first, then children.
THEOREM NextPopulationIsComplete == Spec => []NextPopulationComplete
BY CallsComplete, IInvHolds, PTL

-----------------------------------------------------------------------------
(* Proofs: who writes the next population while a generation is bred.      *)

\* Outside create_next_generation the next population holds nothing.
Fresh ==
    call # "create" \/ pc[Main] \in {"ctor", "unscored", "sort", "scored"} =>
        \A i \in Idx : slot[i] = "stale"

\* What the positions, ranges and counters can be.
LEMMA Types ==
    ASSUME IInv
    PROVE  /\ pc \in [Threads -> MainSites \cup WorkerSites \cup ServiceSites]
           /\ \A t \in Threads : range[t].b \in 0..PopSize /\ range[t].e \in 0..PopSize
           /\ slot \in [Idx -> {"stale", "elite", "parent", "child"}]
           /\ evals \in [Idx -> Nat]
           /\ call \in {"none", "evaluate", "create"}
           /\ pc[Main] \notin WorkerSites
BY RangeType DEF IInv, Control, TypeOK

\* A thread that breeds does so while Main is in create_next_generation and
\* the elites are placed; its slots lie behind them and hold no child yet.
LEMMA BreedingAt ==
    ASSUME IInv, NEW t \in Threads, pc[t] = "genRun"
    PROVE  /\ pc[Main] \in BreedSegment /\ call = "create"
           /\ \A k \in Idx : k < Elites => slot[k] = "elite"
           /\ \A j \in Int : range[t].b <= j /\ j < range[t].e =>
                /\ Elites + j \in Idx
                /\ slot[Elites + j] \in {"stale", "parent"}
<1>1. ~lifetimeOver
  BY DEF IInv, Control, Positions, TypeOK
<1>2. pc[Main] \in BreedSegment
  BY <1>1, Together DEF IInv, Control
<1>3. call = "create"
  BY DEF IInv, Control, Counters
<1>4. \A i \in Idx :
        IF i < Elites THEN slot[i] = "elite"
        ELSE /\ slot[i] # "elite"
             /\ slot[i] = "child" <=> ~(i - Elites < genLeft \/ ChildPending(i - Elites))
  BY <1>2, <1>3 DEF IInv, Slots
<1>5. ASSUME NEW j \in Int, range[t].b <= j, j < range[t].e
      PROVE  Elites + j \in Idx /\ slot[Elites + j] \in {"stale", "parent"}
  <2>1. range[t].e <= PopSize - Elites /\ range[t].b \in Nat
    BY Types DEF IInv, Control, Ranges
  <2>2. Elites + j \in Idx /\ (Elites + j) - Elites = j /\ ~(Elites + j < Elites)
    BY <1>5, <2>1, Types
  <2>3. ChildPending(j)
    BY <1>5 DEF ChildPending, ToBreed
  <2>4. slot[Elites + j] # "elite" /\ slot[Elites + j] # "child"
    BY <1>4, <2>2, <2>3
  <2> QED BY <2>2, <2>4, Types
<1> QED BY <1>2, <1>3, <1>4, <1>5

\* The steps that write to the next population, or end a call.
Writing ==
    \/ CreateNextGeneration \/ NextGeneration \/ Elitism
    \/ \E t \in Threads : Breed(t) \/ BreedFailed(t)

\* Only these steps write slots.
LEMMA SlotsUnwritten ==
    ASSUME [Next]_vars, ~Writing
    PROVE  slot' = slot
<1> USE DEF poolVars, claimVars, popVars, mainVars, Writing
<1>1. CASE OwnerCall
  BY <1>1 DEF OwnerCall, Setup, EvaluateFitness, SetLifetimeOver
<1>2. CASE MainStep
  BY <1>2 DEF MainStep, Sort, DestructorBarrier, DestructorNotify, Join
<1>3. ASSUME NEW t \in Threads, Barrier(t) \/ Evaluation(t) \/ Breeding(t)
      PROVE  slot' = slot
  <2>1. CASE Barrier(t)
    BY <2>1 DEF Barrier, BarrierWait, BarrierOpen, BarrierExit
  <2>2. CASE Evaluation(t)
    BY <2>2 DEF Evaluation, EvalTest, EvalLoop, EvalLoad, EvalClaim, EvalRetry, EvalOne,
       SumAdd, SumRetry
  <2>3. CASE Breeding(t)
    BY <2>3 DEF Breeding, GenTest, GenLoop, GenLoad, GenClaim, GenRetry
  <2> QED BY <1>3, <2>1, <2>2, <2>3
<1>4. ASSUME NEW t \in Workers, WorkerStep(t) \/ SpuriousWake(t) PROVE slot' = slot
  BY <1>4 DEF WorkerStep, WorkerTest, WorkerLock, WorkerWoken, SpuriousWake
<1>5. CASE Destroyed \/ UNCHANGED vars
  BY <1>5 DEF Destroyed, vars
<1> QED BY <1>1, <1>2, <1>3, <1>4, <1>5 DEF Next

\* What Breed and BreedFailed do to a slot, if it is one they hold.
LEMMA BreedWrites ==
    ASSUME IInv, NEW t \in Threads, Breed(t)
    PROVE  \E made \in {1, 2} :
             /\ range[t].b + made <= range[t].e
             /\ slot' = [i \in Idx |-> IF i \in {Elites + range[t].b, Elites + range[t].b + made - 1}
                                       THEN "child" ELSE slot[i]]
<1>1. PICK made \in {1, 2} :
        /\ range[t].b + made <= range[t].e
        /\ slot' = [i \in Idx |-> IF i \in (Elites + range[t].b)..(Elites + range[t].b + made - 1)
                                  THEN "child" ELSE slot[i]]
  BY DEF Breed
<1>2. \A i \in Idx : i \in (Elites + range[t].b)..(Elites + range[t].b + made - 1)
                       <=> i \in {Elites + range[t].b, Elites + range[t].b + made - 1}
  <2>1. Elites + range[t].b \in Int
    BY Types
  <2>2. CASE made = 1
    BY <2>1, <2>2
  <2>3. CASE made = 2
    BY <2>1, <2>3
  <2> QED BY <2>2, <2>3
<1>3. WITNESS made \in {1, 2}
<1> QED BY <1>1, <1>2

\* A failed crossover writes a parent over its slots and nothing else.
LEMMA FailedWrites ==
    ASSUME IInv, NEW t \in Threads, BreedFailed(t)
    PROVE  \A i \in Idx : \/ slot'[i] = slot[i]
                          \/ slot[i] \in {"stale", "parent"} /\ slot'[i] = "parent"
<1>1. pc[t] = "genRun" /\ slot' = [i \in Idx |-> IF i \in Children(t) THEN "parent" ELSE slot[i]]
  BY DEF BreedFailed, At
<1>2. ASSUME NEW i \in Idx, i \in Children(t) PROVE slot[i] \in {"stale", "parent"}
  <2>1. PICK j \in {range[t].b, range[t].b + 1} : j < range[t].e /\ i = Elites + j
    BY <1>2 DEF Children
  <2>2. j \in Int /\ range[t].b <= j
    BY <2>1, Types, SMTT(20)
  <2> QED BY <1>1, <2>1, <2>2, BreedingAt
<1> QED BY <1>1, <1>2

\* A child or an elite stays as it is until the swap.
LEMMA KeptStep ==
    ASSUME IInv, [Next]_vars, NEW i \in Idx,
           slot[i] \in {"elite", "child"}, pc[Main] \notin {"scored", "swap"}
    PROVE  slot'[i] = slot[i]
<1>1. CASE ~Writing
  BY <1>1, SlotsUnwritten
<1>2. CASE CreateNextGeneration \/ NextGeneration
  BY <1>2 DEF CreateNextGeneration, NextGeneration, At
<1>3. CASE Elitism
  <2>1. slot[i] = "stale"
    BY <1>3 DEF Elitism, At, IInv, Control, Counters, Slots
  <2> QED BY <2>1
<1>4. ASSUME NEW t \in Threads, Breed(t) PROVE slot'[i] = slot[i]
  <2>1. PICK made \in {1, 2} :
          /\ range[t].b + made <= range[t].e
          /\ slot' = [k \in Idx |-> IF k \in {Elites + range[t].b, Elites + range[t].b + made - 1}
                                    THEN "child" ELSE slot[k]]
    BY <1>4, BreedWrites
  <2>2. /\ range[t].b \in Int /\ range[t].b + made - 1 \in Int
        /\ range[t].b <= range[t].b + made - 1 /\ range[t].b + made - 1 < range[t].e
        /\ range[t].b < range[t].e
        /\ Elites + range[t].b + made - 1 = Elites + (range[t].b + made - 1)
    <3>1. range[t].b \in Int /\ range[t].e \in Int /\ Elites \in Int
      BY Types
    <3>2. CASE made = 1
      BY <2>1, <3>1, <3>2, SMTT(20)
    <3>3. CASE made = 2
      BY <2>1, <3>1, <3>3, SMTT(20)
    <3> QED BY <3>2, <3>3
  <2>3. pc[t] = "genRun"
    BY <1>4 DEF Breed, At
  <2>4. \A j \in Int : range[t].b <= j /\ j < range[t].e =>
          slot[Elites + j] \in {"stale", "parent"}
    BY <2>3, BreedingAt
  <2>5. i # Elites + range[t].b
    BY <2>2, <2>4
  <2>6. i # Elites + (range[t].b + made - 1)
    BY <2>2, <2>4
  <2> QED BY <2>1, <2>2, <2>5, <2>6
<1>5. ASSUME NEW t \in Threads, BreedFailed(t) PROVE slot'[i] = slot[i]
  BY <1>5, FailedWrites
<1> QED BY <1>1, <1>2, <1>3, <1>4, <1>5 DEF Writing

\* No thread overwrites a child or an elite of the population in the making.
THEOREM ChildrenAreKept == Spec => ChildrenKept
<1> DEFINE Kept == \A i \in Idx : /\ slot[i] \in {"elite", "child"}
                                  /\ pc[Main] \notin {"scored", "swap"}
                                  => slot'[i] = slot[i]
<1>1. ASSUME IInv, [Next]_vars PROVE [Kept]_vars
  BY <1>1, KeptStep
<1>2. []IInv /\ [][Next]_vars => [][Kept]_vars
  BY <1>1, PTL
<1> QED BY <1>2, IInvHolds, PTL DEF Spec, ChildrenKept

-----------------------------------------------------------------------------
(* The refinement: what the threads do between two calls of the owner is,  *)
(* slot by slot, one pass of scoring or of breeding.                       *)

Phase ==
    CASE pc[Main] \in ServiceSites ->
            IF call = "evaluate" THEN "scoring" ELSE "breeding"
      [] pc[Main] \in {"sort", "scored"} -> "scored"
      [] pc[Main] = "swap" -> "bred"
      [] pc[Main] \in DestructorSites -> "stopped"
      [] OTHER -> "unscored"
Evaluated == {i \in Idx : evals[i] > 0}
Bred == [i \in Idx |-> IF slot[i] \in {"elite", "child"} THEN slot[i] ELSE "empty"]

\* The actions of Evolution, in the terms of the thread pool.
LEMMA InTheseTerms ==
    /\ Evo!Init <=> /\ Phase = "unscored" /\ Evaluated = {}
                    /\ Bred = [i \in Idx |-> "empty"] /\ generation = 0
    /\ Evo!StartScoring <=> /\ Phase \in {"unscored", "scored"} /\ Phase' = "scoring"
                            /\ Evaluated' = {} /\ Bred' = Bred /\ generation' = generation
    /\ \A i \in Idx : Evo!Score(i) <=>
            /\ Phase = "scoring" /\ i \notin Evaluated /\ Evaluated' = Evaluated \cup {i}
            /\ Phase' = Phase /\ Bred' = Bred /\ generation' = generation
    /\ Evo!EndScoring <=> /\ Phase = "scoring" /\ Evaluated = Idx /\ Phase' = "scored"
                          /\ Evaluated' = Evaluated /\ Bred' = Bred /\ generation' = generation
    /\ Evo!StartBreeding <=> /\ Phase = "scored" /\ generation < MaxGen /\ Phase' = "breeding"
                             /\ Evaluated' = Evaluated /\ Bred' = Bred
                             /\ generation' = generation
    /\ Evo!KeepElites <=> /\ Phase = "breeding" /\ Bred = [i \in Idx |-> "empty"]
                          /\ Bred' = [i \in Idx |-> IF i < Elites THEN "elite" ELSE "empty"]
                          /\ Phase' = Phase /\ Evaluated' = Evaluated
                          /\ generation' = generation
    /\ \A i, j \in Idx : Evo!Birth(i, j) <=>
            /\ Phase = "breeding" /\ j \in {i, i + 1}
            /\ \A k \in Idx : k < Elites => Bred[k] = "elite"
            /\ \A k \in {i, j} : k >= Elites /\ Bred[k] = "empty"
            /\ Bred' = [Bred EXCEPT ![i] = "child", ![j] = "child"]
            /\ Phase' = Phase /\ Evaluated' = Evaluated /\ generation' = generation
    /\ Evo!EndBreeding <=> /\ Phase = "breeding" /\ Phase' = "bred"
                           /\ \A i \in Idx : Bred[i] = IF i < Elites THEN "elite" ELSE "child"
                           /\ Evaluated' = Evaluated /\ Bred' = Bred
                           /\ generation' = generation
    /\ Evo!Move <=> /\ Phase = "bred" /\ Phase' = "unscored" /\ generation' = generation + 1
                    /\ Evaluated' = {} /\ Bred' = [i \in Idx |-> "empty"]
    /\ Evo!Stop <=> /\ Phase \in {"unscored", "scored"} /\ Phase' = "stopped"
                    /\ Evaluated' = Evaluated /\ Bred' = Bred /\ generation' = generation
    /\ UNCHANGED Evo!vars <=> /\ Phase' = Phase /\ Evaluated' = Evaluated /\ Bred' = Bred
                              /\ generation' = generation
<1> USE DEF Phase, Evaluated, Bred, Evo!Idx, Evo!Empty, Evo!vars
<1>1. Evo!Init <=> /\ Phase = "unscored" /\ Evaluated = {}
                   /\ Bred = [i \in Idx |-> "empty"] /\ generation = 0
  BY DEF Evo!Init
<1>2. Evo!StartScoring <=> /\ Phase \in {"unscored", "scored"} /\ Phase' = "scoring"
                           /\ Evaluated' = {} /\ Bred' = Bred /\ generation' = generation
  BY DEF Evo!StartScoring
<1>3. \A i \in Idx : Evo!Score(i) <=>
            /\ Phase = "scoring" /\ i \notin Evaluated /\ Evaluated' = Evaluated \cup {i}
            /\ Phase' = Phase /\ Bred' = Bred /\ generation' = generation
  BY DEF Evo!Score
<1> QED BY <1>1, <1>2, <1>3 DEF Evo!EndScoring, Evo!StartBreeding, Evo!KeepElites, Evo!Birth,
           Evo!EndBreeding, Evo!Move, Evo!Stop

\* The phase, from where the owner is.
LEMMA PhaseOf ==
    /\ pc[Main] \in ServiceSites => Phase = IF call = "evaluate" THEN "scoring" ELSE "breeding"
    /\ pc[Main] \in {"sort", "scored"} => Phase = "scored"
    /\ pc[Main] = "swap" => Phase = "bred"
    /\ pc[Main] \in DestructorSites => Phase = "stopped"
    /\ pc[Main] \in {"ctor", "unscored"} => Phase = "unscored"
    /\ pc'[Main] \in ServiceSites => Phase' = IF call' = "evaluate" THEN "scoring" ELSE "breeding"
    /\ pc'[Main] \in {"sort", "scored"} => Phase' = "scored"
    /\ pc'[Main] = "swap" => Phase' = "bred"
    /\ pc'[Main] \in DestructorSites => Phase' = "stopped"
    /\ pc'[Main] \in {"ctor", "unscored"} => Phase' = "unscored"
BY DEF Phase

\* Where a step that is not one of the owner's calls may bring Main.
LEMMA MainMoves ==
    ASSUME IInv, [Next]_vars, ~OwnerCall
    PROVE  /\ call' = call /\ generation' = generation
           /\ \/ pc'[Main] = pc[Main]
              \/ pc[Main] \in ServiceSites /\ pc'[Main] \in ServiceSites
              \/ pc[Main] \in DestructorSites /\ pc'[Main] \in DestructorSites
              \/ pc[Main] = "sort" /\ pc'[Main] = "scored"
              \/ /\ pc[Main] = "bEnd" /\ slot' = slot /\ evals' = evals
                 /\ pc'[Main] = IF call = "evaluate" THEN "sort" ELSE "swap"
<1> USE DEF Goto, At, poolVars, claimVars, popVars, mainVars
<1>0. pc \in [Threads -> MainSites \cup WorkerSites \cup ServiceSites]
  BY Types
<1> DEFINE Moves ==
      \/ pc'[Main] = pc[Main]
      \/ pc[Main] \in ServiceSites /\ pc'[Main] \in ServiceSites
      \/ pc[Main] \in DestructorSites /\ pc'[Main] \in DestructorSites
      \/ pc[Main] = "sort" /\ pc'[Main] = "scored"
      \/ /\ pc[Main] = "bEnd" /\ slot' = slot /\ evals' = evals
         /\ pc'[Main] = IF call = "evaluate" THEN "sort" ELSE "swap"
<1> DEFINE Goal == call' = call /\ generation' = generation /\ Moves
<1>1. ASSUME MainStep PROVE Goal
  BY <1>0, <1>1 DEF MainStep, Sort, Elitism, DestructorBarrier, DestructorNotify, Join, NotifyAll
<1>2. ASSUME NEW t \in Threads, Barrier(t) PROVE Goal
  <2>1. CASE BarrierWait(t)
    BY <2>1 DEF BarrierWait
  <2>2. CASE BarrierOpen(t)
    <3>1. Main \in arrived \cup {t} /\ pc[Main] \in BarrierSites /\ pc'[Main] = After(Main)
      BY <2>2 DEF BarrierOpen, IInv, Control, Positions
    <3>2. pc[Main] # "bEnd" => pc'[Main] \in ServiceSites
      BY <3>1 DEF After
    <3>3. pc[Main] = "bEnd" => pc'[Main] = IF call = "evaluate" THEN "sort" ELSE "swap"
      BY <3>1 DEF After
    <3>4. call' = call /\ generation' = generation /\ slot' = slot /\ evals' = evals
      BY <2>2 DEF BarrierOpen
    <3> QED BY <3>1, <3>2, <3>3, <3>4
  <2>3. CASE BarrierExit(t)
    <3>1. t # Main
      BY <2>3 DEF BarrierExit, IInv, Control, Positions
    <3> QED BY <1>0, <2>3, <3>1 DEF BarrierExit
  <2> QED BY <1>2, <2>1, <2>2, <2>3 DEF Barrier
<1>3. ASSUME NEW t \in Threads, Evaluation(t) PROVE Goal
  BY <1>0, <1>3 DEF Evaluation, EvalTest, EvalLoop, EvalLoad, EvalClaim, EvalRetry, EvalOne,
     SumAdd, SumRetry
<1>4. ASSUME NEW t \in Threads, Breeding(t) PROVE Goal
  BY <1>0, <1>4 DEF Breeding, GenTest, GenLoop, GenLoad, GenClaim, GenRetry, Breed, BreedFailed
<1>5. ASSUME NEW t \in Workers, WorkerStep(t) \/ SpuriousWake(t) PROVE Goal
  BY <1>0, <1>5 DEF WorkerStep, WorkerTest, WorkerLock, WorkerWoken, SpuriousWake
<1>6. ASSUME Destroyed \/ UNCHANGED vars PROVE Goal
  BY <1>6 DEF Destroyed, vars
<1> HIDE DEF Goal
<1>7. Goal
  BY <1>1, <1>2, <1>3, <1>4, <1>5, <1>6 DEF Next
<1> QED BY <1>7 DEF Goal

\* Only scoring and the owner's calls write scores.
LEMMA EvalsUnwritten ==
    ASSUME [Next]_vars, ~OwnerCall, \A t \in Threads : ~EvalOne(t)
    PROVE  evals' = evals
<1> USE DEF poolVars, claimVars, popVars, mainVars
<1>1. CASE MainStep
  BY <1>1 DEF MainStep, Sort, Elitism, DestructorBarrier, DestructorNotify, Join
<1>2. ASSUME NEW t \in Threads, Barrier(t) \/ Evaluation(t) \/ Breeding(t)
      PROVE  evals' = evals
  <2>1. CASE Barrier(t)
    BY <2>1 DEF Barrier, BarrierWait, BarrierOpen, BarrierExit
  <2>2. CASE Evaluation(t)
    BY <2>2 DEF Evaluation, EvalTest, EvalLoop, EvalLoad, EvalClaim, EvalRetry, SumAdd, SumRetry
  <2>3. CASE Breeding(t)
    BY <2>3 DEF Breeding, GenTest, GenLoop, GenLoad, GenClaim, GenRetry, Breed, BreedFailed
  <2> QED BY <1>2, <2>1, <2>2, <2>3
<1>3. ASSUME NEW t \in Workers, WorkerStep(t) \/ SpuriousWake(t) PROVE evals' = evals
  BY <1>3 DEF WorkerStep, WorkerTest, WorkerLock, WorkerWoken, SpuriousWake
<1>4. CASE Destroyed \/ UNCHANGED vars
  BY <1>4 DEF Destroyed, vars
<1> QED BY <1>1, <1>2, <1>3, <1>4 DEF Next

\* Whatever the threads do, the next population stays empty until it is asked for.
LEMMA FreshStep ==
    ASSUME IInv, Fresh, [Next]_vars
    PROVE  Fresh'
<1> USE DEF Goto, At, poolVars, claimVars, popVars, mainVars
<1>0. pc \in [Threads -> MainSites \cup WorkerSites \cup ServiceSites]
  BY Types
<1>1. CASE OwnerCall
  <2>1. CASE Setup \/ EvaluateFitness
    BY <1>0, <2>1 DEF Setup, NotifyAll, EvaluateFitness, Fresh
  <2>2. CASE CreateNextGeneration \/ NextGeneration
    BY <2>2 DEF CreateNextGeneration, NextGeneration, Fresh
  <2>3. CASE SetLifetimeOver
    BY <1>0, <2>3 DEF SetLifetimeOver, Fresh
  <2> QED BY <1>1, <2>1, <2>2, <2>3 DEF OwnerCall
<1>2. CASE ~OwnerCall
  <2> SUFFICES ASSUME call' # "create" \/ pc'[Main] \in {"ctor", "unscored", "sort", "scored"}
               PROVE  \A i \in Idx : slot'[i] = "stale"
    BY DEF Fresh
  <2>1. call # "create" \/ pc[Main] \in {"ctor", "unscored", "sort", "scored"}
    BY <1>2, MainMoves
  <2>2. \A i \in Idx : slot[i] = "stale"
    BY <2>1 DEF Fresh
  <2>3. ~Elitism
    BY <2>1 DEF Elitism, IInv, Control, Counters
  <2>4. ASSUME NEW t \in Threads PROVE ~Breed(t) /\ ~BreedFailed(t)
    BY <2>1, BreedingAt DEF Breed, BreedFailed
  <2>5. slot' = slot
    BY <1>2, <2>3, <2>4, SlotsUnwritten DEF Writing, OwnerCall
  <2> QED BY <2>2, <2>5
<1> QED BY <1>1, <1>2

-----------------------------------------------------------------------------
(* Each step of the thread pool is a step of Evolution, or none.           *)

Stutter == Phase' = Phase /\ Evaluated' = Evaluated /\ Bred' = Bred /\ generation' = generation

\* The owner's calls are steps of Evolution.
LEMMA OwnerCallMaps ==
    ASSUME IInv, Fresh, OwnerCall
    PROVE  Evo!StartScoring \/ Evo!StartBreeding \/ Evo!Move \/ Evo!Stop \/ Stutter
<1> USE DEF Goto, At, poolVars, claimVars, popVars, mainVars
<1>0. pc \in [Threads -> MainSites \cup WorkerSites \cup ServiceSites]
  BY Types
<1>1. CASE Setup
  <2>1. pc[Main] = "ctor" /\ pc'[Main] = "unscored"
    BY <1>0, <1>1 DEF Setup, NotifyAll
  <2>2. Phase' = Phase
    BY <2>1, PhaseOf
  <2> QED BY <1>1, <2>2 DEF Setup, Stutter, Evaluated, Bred
<1>2. CASE EvaluateFitness
  <2>1. pc[Main] \in {"unscored", "scored"} /\ pc'[Main] = "b0" /\ call' = "evaluate"
    BY <1>0, <1>2 DEF EvaluateFitness
  <2>2. Phase \in {"unscored", "scored"} /\ Phase' = "scoring"
    BY <2>1, PhaseOf
  <2>3. Evaluated' = {} /\ Bred' = Bred /\ generation' = generation
    BY <1>2 DEF EvaluateFitness, Evaluated, Bred
  <2> QED BY <2>2, <2>3, InTheseTerms
<1>3. CASE CreateNextGeneration
  <2>1. pc[Main] = "scored" /\ pc'[Main] = "b0" /\ call' = "create" /\ generation < MaxGen
    BY <1>0, <1>3 DEF CreateNextGeneration
  <2>2. Phase = "scored" /\ Phase' = "breeding"
    BY <2>1, PhaseOf
  <2>3. Bred' = Bred
    BY <1>3, <2>1 DEF CreateNextGeneration, Fresh, Bred
  <2>4. Evaluated' = Evaluated /\ generation' = generation
    BY <1>3 DEF CreateNextGeneration, Evaluated
  <2> QED BY <2>1, <2>2, <2>3, <2>4, InTheseTerms
<1>4. CASE NextGeneration
  <2>1. pc[Main] = "swap" /\ pc'[Main] = "unscored"
    BY <1>0, <1>4 DEF NextGeneration
  <2>2. Phase = "bred" /\ Phase' = "unscored"
    BY <2>1, PhaseOf
  <2>3. Evaluated' = {} /\ generation' = generation + 1
    BY <1>4 DEF NextGeneration, Evaluated
  <2>4. Bred' = [i \in Idx |-> "empty"]
    BY <1>4 DEF NextGeneration, Bred
  <2> QED BY <2>2, <2>3, <2>4, InTheseTerms
<1>5. CASE SetLifetimeOver
  <2>1. pc[Main] \in {"ctor", "unscored", "scored"} /\ pc'[Main] = "dtorBarrier"
    BY <1>0, <1>5 DEF SetLifetimeOver
  <2>2. Phase \in {"unscored", "scored"} /\ Phase' = "stopped"
    BY <2>1, PhaseOf
  <2>3. Evaluated' = Evaluated /\ Bred' = Bred /\ generation' = generation
    BY <1>5 DEF SetLifetimeOver, Evaluated, Bred
  <2> QED BY <2>2, <2>3, InTheseTerms
<1> QED BY <1>1, <1>2, <1>3, <1>4, <1>5 DEF OwnerCall

\* The score of an individual is counted where it is written.
LEMMA EvalOneMaps ==
    ASSUME IInv, NEW t \in Threads, EvalOne(t)
    PROVE  \E i \in Idx : Evo!Score(i)
<1>0. pc \in [Threads -> MainSites \cup WorkerSites \cup ServiceSites]
  BY Types
<1>1. /\ pc[t] = "evalRun" /\ evals' = [evals EXCEPT ![range[t].b] = evals[range[t].b] + 1]
      /\ pc' = [pc EXCEPT ![t] = "sumCas"] /\ slot' = slot
      /\ call' = call /\ generation' = generation
  BY DEF EvalOne, At, Goto, poolVars, claimVars, mainVars
<1>2. pc[Main] \in EvalSegment /\ call = "evaluate"
  <2>1. ~lifetimeOver
    BY <1>1 DEF IInv, Control, Positions, TypeOK
  <2> QED BY <1>1, <2>1, Together DEF IInv, Control, Counters
<1>3. Phase = "scoring" /\ Phase' = "scoring"
  <2>1. pc[Main] \in ServiceSites /\ pc'[Main] \in ServiceSites /\ call = "evaluate"
    BY <1>0, <1>1, <1>2
  <2> QED BY <1>1, <2>1, PhaseOf
<1>4. range[t].b \in Idx /\ ScorePending(range[t].b)
  <2>1. range[t].b < range[t].e /\ range[t].b \in 0..PopSize /\ range[t].e \in 0..PopSize
    BY <1>1, Types DEF IInv, Control, Ranges
  <2> QED BY <1>1, <2>1 DEF ScorePending, ToScore
<1>5. evals[range[t].b] = 0
  BY <1>2, <1>4 DEF IInv, Scoring
<1>6. range[t].b \notin Evaluated
  BY <1>5 DEF Evaluated
<1>7. Evaluated' = Evaluated \cup {range[t].b}
  <2>1. \A i \in Idx : evals'[i] = IF i = range[t].b THEN 1 ELSE evals[i]
    BY <1>1, <1>4, <1>5, Types
  <2> QED BY <1>4, <2>1 DEF Evaluated
<1>8. Bred' = Bred
  BY <1>1 DEF Bred
<1> QED BY <1>1, <1>3, <1>4, <1>6, <1>7, <1>8, InTheseTerms

\* So is elitism.
LEMMA ElitismMaps ==
    ASSUME IInv, Elitism
    PROVE  Evo!KeepElites
<1>0. pc \in [Threads -> MainSites \cup WorkerSites \cup ServiceSites]
  BY Types
<1>1. /\ pc[Main] = "elitism" /\ pc' = [pc EXCEPT ![Main] = "b4"]
      /\ slot' = [i \in Idx |-> IF i < Elites THEN "elite" ELSE slot[i]]
      /\ evals' = evals /\ call' = call /\ generation' = generation
  BY DEF Elitism, At, Goto, poolVars, mainVars
<1>2. call = "create"
  BY <1>1 DEF IInv, Control, Counters
<1>3. \A i \in Idx : slot[i] = "stale"
  BY <1>1, <1>2 DEF IInv, Slots
<1>4. Phase = "breeding" /\ Phase' = "breeding"
  BY <1>0, <1>1, <1>2, PhaseOf
<1>5. Bred = [i \in Idx |-> "empty"]
  BY <1>3 DEF Bred
<1>6. Bred' = [i \in Idx |-> IF i < Elites THEN "elite" ELSE "empty"]
  BY <1>1, <1>3 DEF Bred
<1>7. Evaluated' = Evaluated
  BY <1>1 DEF Evaluated
<1> QED BY <1>1, <1>4, <1>5, <1>6, <1>7, InTheseTerms

\* One child, or two, in slots that hold none.
LEMMA BreedMaps ==
    ASSUME IInv, NEW t \in Threads, Breed(t)
    PROVE  \E i, j \in Idx : Evo!Birth(i, j)
<1>0. pc \in [Threads -> MainSites \cup WorkerSites \cup ServiceSites]
  BY Types
<1>1. /\ pc[t] = "genRun" /\ evals' = evals /\ call' = call /\ generation' = generation
      /\ \E label \in BreedSites : pc' = [pc EXCEPT ![t] = label]
  BY DEF Breed, At, Goto, poolVars, mainVars
<1>2. PICK made \in {1, 2} :
        /\ range[t].b + made <= range[t].e
        /\ slot' = [k \in Idx |-> IF k \in {Elites + range[t].b, Elites + range[t].b + made - 1}
                                  THEN "child" ELSE slot[k]]
  BY BreedWrites
<1>i. PICK i \in {Elites + range[t].b} : TRUE
  OBVIOUS
<1>j. PICK j \in {Elites + range[t].b + made - 1} : TRUE
  OBVIOUS
<1>3. /\ pc[Main] \in BreedSegment /\ call = "create"
      /\ \A k \in Idx : k < Elites => slot[k] = "elite"
      /\ \A k \in Int : range[t].b <= k /\ k < range[t].e =>
           Elites + k \in Idx /\ slot[Elites + k] \in {"stale", "parent"}
  BY <1>1, BreedingAt
<1>4. /\ i \in Idx /\ j \in Idx /\ j \in {i, i + 1} /\ i >= Elites /\ j >= Elites
      /\ slot[i] \in {"stale", "parent"} /\ slot[j] \in {"stale", "parent"}
  <2>1. range[t].b \in Nat /\ range[t].e \in Int /\ Elites \in Nat
    BY Types
  <2>2. CASE made = 1
    <3>1. j = i /\ i = Elites + range[t].b /\ range[t].b <= range[t].b /\ range[t].b < range[t].e /\ range[t].b \in Int
      BY <1>2, <1>i, <1>j, <2>1, <2>2
    <3>2. i \in Idx /\ slot[i] \in {"stale", "parent"}
      BY <1>3, <3>1
    <3> QED BY <2>1, <3>1, <3>2
  <2>3. CASE made = 2
    <3>0. j = Elites + (range[t].b + 1) /\ i = Elites + range[t].b
      BY <1>i, <1>j, <2>1, <2>3
    <3>1. /\ range[t].b <= range[t].b /\ range[t].b < range[t].e /\ range[t].b \in Int
          /\ range[t].b <= range[t].b + 1 /\ range[t].b + 1 < range[t].e
          /\ range[t].b + 1 \in Int
      <4>1. range[t].b + 2 <= range[t].e
        BY <1>2, <2>3
      <4> QED BY <2>1, <4>1
    <3>2. i \in Idx /\ slot[i] \in {"stale", "parent"}
      BY <1>3, <3>0, <3>1
    <3>3. j \in Idx /\ slot[j] \in {"stale", "parent"}
      BY <1>3, <3>0, <3>1
    <3>4. i >= Elites /\ j >= Elites /\ j = i + 1
      BY <2>1, <3>0
    <3> QED BY <3>2, <3>3, <3>4
  <2> QED BY <2>2, <2>3
<1>5. slot' = [k \in Idx |-> IF k \in {i, j} THEN "child" ELSE slot[k]]
  BY <1>2, <1>i, <1>j
<1>6. Phase = "breeding" /\ Phase' = "breeding"
  <2>1. pc[Main] \in ServiceSites /\ pc'[Main] \in ServiceSites
    BY <1>0, <1>1, <1>3
  <2> QED BY <1>1, <1>3, <2>1, PhaseOf
<1>7. \A k \in Idx : k < Elites => Bred[k] = "elite"
  BY <1>3 DEF Bred
<1>8. Bred[i] = "empty" /\ Bred[j] = "empty"
  BY <1>4 DEF Bred
<1>9. Bred' = [Bred EXCEPT ![i] = "child", ![j] = "child"]
  BY <1>4, <1>5 DEF Bred
<1>10. Evaluated' = Evaluated
  BY <1>1 DEF Evaluated
<1>11. \A k \in {i, j} : k >= Elites /\ Bred[k] = "empty"
  BY <1>4, <1>8
<1>12. Evo!Birth(i, j)
  BY <1>1, <1>4, <1>6, <1>7, <1>9, <1>10, <1>11, InTheseTerms
<1> QED BY <1>4, <1>12

\* What a failed attempt leaves in its slots is neither elite nor child.
LEMMA BreedFailedMaps ==
    ASSUME IInv, NEW t \in Threads, BreedFailed(t)
    PROVE  Stutter
<1>1. pc' = pc /\ call' = call /\ evals' = evals /\ generation' = generation
  BY DEF BreedFailed, poolVars, mainVars
<1>2. Phase' = Phase /\ Evaluated' = Evaluated
  BY <1>1 DEF Phase, Evaluated
<1>3. \A i \in Idx : \/ slot'[i] = slot[i]
                     \/ slot[i] \in {"stale", "parent"} /\ slot'[i] = "parent"
  BY FailedWrites
<1>4. Bred' = Bred
  BY <1>3 DEF Bred
<1> QED BY <1>1, <1>2, <1>4 DEF Stutter

\* The same after a step.
LEMMA CallsCompleteNext == IInv' => EvaluatedExactlyOnce' /\ NextPopulationComplete'
<1>1. IInv => EvaluatedExactlyOnce /\ NextPopulationComplete
  BY CallsComplete
<1> QED BY <1>1, PTL

\* Main comes out of the service when the pass is complete.
LEMMA LeaveMaps ==
    ASSUME IInv, IInv', pc[Main] = "bEnd", slot' = slot, evals' = evals, call' = call,
           generation' = generation,
           pc'[Main] = IF call = "evaluate" THEN "sort" ELSE "swap"
    PROVE  Evo!EndScoring \/ Evo!EndBreeding
<1>1. Evaluated' = Evaluated /\ Bred' = Bred
  BY DEF Evaluated, Bred
<1>2. EvaluatedExactlyOnce' /\ NextPopulationComplete'
  BY CallsCompleteNext
<1>3. CASE call = "evaluate"
  <2>1. pc'[Main] = "sort" /\ \A i \in Idx : evals[i] = 1
    BY <1>2, <1>3 DEF EvaluatedExactlyOnce
  <2>2. Evaluated = Idx
    BY <2>1 DEF Evaluated
  <2>3. Phase = "scoring" /\ Phase' = "scored"
    BY <1>3, <2>1, PhaseOf
  <2> QED BY <1>1, <2>2, <2>3, InTheseTerms
<1>4. CASE call # "evaluate"
  <2>1. pc'[Main] = "swap" /\ \A i \in Idx : slot[i] = IF i < Elites THEN "elite" ELSE "child"
    BY <1>2, <1>4 DEF NextPopulationComplete
  <2>2. \A i \in Idx : Bred[i] = IF i < Elites THEN "elite" ELSE "child"
    BY <2>1 DEF Bred
  <2>3. Phase = "breeding" /\ Phase' = "bred"
    BY <1>4, <2>1, PhaseOf
  <2> QED BY <1>1, <2>2, <2>3, InTheseTerms
<1> QED BY <1>3, <1>4

\* Every step of the pool is a step of Evolution or leaves it alone.
LEMMA StepMaps ==
    ASSUME IInv, IInv', Fresh, [Next]_vars
    PROVE  Evo!Next \/ Stutter
<1>1. CASE OwnerCall
  BY <1>1, OwnerCallMaps DEF Evo!Next
<1>2. ASSUME NEW t \in Threads, EvalOne(t) PROVE Evo!Next
  BY <1>2, EvalOneMaps DEF Evo!Next, Evo!Idx
<1>3. CASE Elitism
  BY <1>3, ElitismMaps DEF Evo!Next
<1>4. ASSUME NEW t \in Threads, Breed(t) PROVE Evo!Next
  BY <1>4, BreedMaps DEF Evo!Next, Evo!Idx
<1>5. ASSUME NEW t \in Threads, BreedFailed(t) PROVE Stutter
  BY <1>5, BreedFailedMaps
<1>6. CASE /\ ~OwnerCall /\ ~Elitism
           /\ \A t \in Threads : ~EvalOne(t) /\ ~Breed(t) /\ ~BreedFailed(t)
  <2>1. slot' = slot /\ evals' = evals
    BY <1>6, SlotsUnwritten, EvalsUnwritten DEF Writing, OwnerCall
  <2>2. Evaluated' = Evaluated /\ Bred' = Bred
    BY <2>1 DEF Evaluated, Bred
  <2>3. call' = call /\ generation' = generation
    BY <1>6, MainMoves
  <2>4. CASE pc'[Main] = pc[Main]
    BY <2>2, <2>3, <2>4 DEF Phase, Stutter
  <2>5. CASE pc[Main] \in ServiceSites /\ pc'[Main] \in ServiceSites
    BY <2>2, <2>3, <2>5, PhaseOf DEF Stutter
  <2>6. CASE pc[Main] \in DestructorSites /\ pc'[Main] \in DestructorSites
    BY <2>2, <2>3, <2>6, PhaseOf DEF Stutter
  <2>7. CASE pc[Main] = "sort" /\ pc'[Main] = "scored"
    BY <2>2, <2>3, <2>7, PhaseOf DEF Stutter
  <2>8. CASE pc[Main] = "bEnd" /\ pc'[Main] = IF call = "evaluate" THEN "sort" ELSE "swap"
    BY <2>1, <2>3, <2>8, LeaveMaps DEF Evo!Next
  <2> QED BY <1>6, <2>4, <2>5, <2>6, <2>7, <2>8, MainMoves
<1> QED BY <1>1, <1>2, <1>3, <1>4, <1>5, <1>6

\* The threads together implement one pass of scoring and one of breeding per
\* call of the owner, each individual handled once.
THEOREM PoolImplementsEvolution == Spec => ImplementsEvolution
<1>1. Init => Fresh /\ Evo!Init
  <2> SUFFICES ASSUME Init PROVE Fresh /\ Evo!Init
    OBVIOUS
  <2>1. pc[Main] = "ctor" /\ generation = 0 /\ \A i \in Idx : evals[i] = 0 /\ slot[i] = "stale"
    BY DEF Init
  <2>2. Phase = "unscored"
    BY <2>1, PhaseOf
  <2>3. Evaluated = {} /\ Bred = [i \in Idx |-> "empty"]
    BY <2>1 DEF Evaluated, Bred
  <2> QED BY <2>1, <2>2, <2>3, InTheseTerms DEF Fresh
<1>2. IInv /\ Fresh /\ [Next]_vars => Fresh'
  BY FreshStep
<1>3. IInv /\ IInv' /\ Fresh /\ [Next]_vars => [Evo!Next]_(Evo!vars)
  BY StepMaps, InTheseTerms DEF Stutter
<1> QED BY <1>1, <1>2, <1>3, IInvHolds, PTL DEF Spec, Evo!Spec, ImplementsEvolution

-----------------------------------------------------------------------------
(* The sum of all fitness.                                                 *)

\* Individual i is scored and its fitness not yet part of overall_fitness.
Unsummed(i) == \E t \in Threads : pc[t] = "sumCas" /\ range[t].b = i
Summed == {i \in Idx : evals[i] = 1 /\ ~Unsummed(i)}

\* From the owner's entry into evaluate_fitness to the swap, the sum counts
\* the individuals scored, but for those that a thread is about to add.
Sum == pc[Main] \in Scored => overall = Cardinality(Summed)

\* What is in the sum can be counted.
LEMMA SummedFinite == IsFiniteSet(Summed)
<1>1. IsFiniteSet(Idx)
  BY FS_Interval
<1> QED BY <1>1, FS_Subset DEF Summed

\* Steps that leave the sum, the scores and the summing threads alone.
LEMMA SumSame ==
    ASSUME Sum, overall' = overall, evals' = evals,
           pc'[Main] \in Scored => pc[Main] \in Scored,
           \A t \in Threads : pc[t] = "sumCas" \/ pc'[t] = "sumCas" =>
               pc'[t] = pc[t] /\ range'[t] = range[t]
    PROVE  Sum'
<1>1. \A i \in Idx : Unsummed(i)' <=> Unsummed(i)
  BY DEF Unsummed
<1>2. Summed' = Summed
  BY <1>1 DEF Summed
<1> QED BY <1>2 DEF Sum

\* Only the owner's calls and successful additions write the sum.
LEMMA SumUnwritten ==
    ASSUME [Next]_vars, ~OwnerCall, \A t \in Threads : ~SumAdd(t)
    PROVE  overall' = overall
<1> USE DEF poolVars, claimVars, popVars, mainVars
<1>1. CASE MainStep
  BY <1>1 DEF MainStep, Sort, Elitism, DestructorBarrier, DestructorNotify, Join
<1>2. ASSUME NEW t \in Threads, Barrier(t) \/ Evaluation(t) \/ Breeding(t)
      PROVE  overall' = overall
  <2>1. CASE Barrier(t)
    BY <2>1 DEF Barrier, BarrierWait, BarrierOpen, BarrierExit
  <2>2. CASE Evaluation(t)
    BY <2>2 DEF Evaluation, EvalTest, EvalLoop, EvalLoad, EvalClaim, EvalRetry, EvalOne, SumRetry
  <2>3. CASE Breeding(t)
    BY <2>3 DEF Breeding, GenTest, GenLoop, GenLoad, GenClaim, GenRetry, Breed, BreedFailed
  <2> QED BY <1>2, <2>1, <2>2, <2>3
<1>3. ASSUME NEW t \in Workers, WorkerStep(t) \/ SpuriousWake(t) PROVE overall' = overall
  BY <1>3 DEF WorkerStep, WorkerTest, WorkerLock, WorkerWoken, SpuriousWake
<1>4. CASE Destroyed \/ UNCHANGED vars
  BY <1>4 DEF Destroyed, vars
<1> QED BY <1>1, <1>2, <1>3, <1>4 DEF Next

\* The owner's calls keep Sum.
LEMMA OwnerCallSum ==
    ASSUME IInv, Sum, OwnerCall
    PROVE  Sum'
<1> USE DEF Goto, At, poolVars, claimVars, popVars, mainVars
<1>0. pc \in [Threads -> MainSites \cup WorkerSites \cup ServiceSites]
  BY Types
<1>1. CASE EvaluateFitness
  <2>1. overall' = 0 /\ \A i \in Idx : evals'[i] = 0
    BY <1>1 DEF EvaluateFitness
  <2>2. Summed' = {}
    BY <2>1 DEF Summed
  <2> QED BY <2>1, <2>2, FS_EmptySet DEF Sum
<1>2. CASE CreateNextGeneration
  <2>1. /\ overall' = overall /\ evals' = evals /\ range' = range
        /\ pc[Main] = "scored" /\ pc' = [pc EXCEPT ![Main] = "b0"]
    BY <1>2 DEF CreateNextGeneration
  <2> QED BY <1>0, <2>1, SumSame DEF Scored
<1>3. CASE Setup \/ NextGeneration \/ SetLifetimeOver
  <2>1. pc'[Main] \in {"unscored", "dtorBarrier"}
    BY <1>0, <1>3 DEF Setup, NotifyAll, NextGeneration, SetLifetimeOver
  <2> QED BY <2>1 DEF Sum, Scored
<1> QED BY <1>1, <1>2, <1>3 DEF OwnerCall

\* Where a scoring thread is, Main is scoring too.
LEMMA MainScores ==
    ASSUME IInv, NEW t \in Threads, pc[t] \in EvalSites
    PROVE  pc[Main] \in EvalSegment
<1>1. ~lifetimeOver
  BY DEF IInv, Control, Positions, TypeOK
<1> QED BY <1>1, Together DEF IInv, Control

\* A score that is written is not in the sum yet.
LEMMA EvalOneSum ==
    ASSUME IInv, Sum, NEW t \in Threads, EvalOne(t)
    PROVE  Sum'
<1>0. pc \in [Threads -> MainSites \cup WorkerSites \cup ServiceSites]
  BY Types
<1>1. /\ pc[t] = "evalRun" /\ evals' = [evals EXCEPT ![range[t].b] = evals[range[t].b] + 1]
      /\ pc' = [pc EXCEPT ![t] = "sumCas"] /\ range' = range /\ overall' = overall
  BY DEF EvalOne, At, Goto, claimVars
<1>2. pc[Main] \in EvalSegment
  BY <1>1, MainScores
<1>3. range[t].b \in Idx /\ ScorePending(range[t].b)
  <2>1. range[t].b < range[t].e /\ range[t].b \in 0..PopSize /\ range[t].e \in 0..PopSize
    BY <1>1, Types DEF IInv, Control, Ranges
  <2> QED BY <1>1, <2>1 DEF ScorePending, ToScore
<1>4. evals[range[t].b] = 0
  BY <1>2, <1>3 DEF IInv, Scoring
<1>5. Unsummed(range[t].b)'
  BY <1>0, <1>1 DEF Unsummed
<1>6. \A i \in Idx : i # range[t].b => (Unsummed(i)' <=> Unsummed(i)) /\ evals'[i] = evals[i]
  BY <1>0, <1>1, Types DEF Unsummed
<1>7. Summed' = Summed
  <2>1. \A i \in Idx : i \in Summed' <=> i \in Summed
    BY <1>1, <1>4, <1>5, <1>6 DEF Summed, Unsummed
  <2> QED BY <2>1 DEF Summed
<1> QED BY <1>1, <1>2, <1>7 DEF Sum, Scored

\* The compare-exchange that succeeds adds one score that was missing.
LEMMA SumAddSum ==
    ASSUME IInv, Sum, NEW t \in Threads, SumAdd(t)
    PROVE  Sum'
<1>0. /\ pc \in [Threads -> MainSites \cup WorkerSites \cup ServiceSites]
      /\ range \in [Threads -> [b : 0..PopSize, e : 0..PopSize]]
  BY DEF IInv, Control, TypeOK
<1>1. /\ pc[t] = "sumCas" /\ evals' = evals /\ overall' = overall + 1
      /\ \A u \in Threads \ {t} : pc'[u] = pc[u] /\ range'[u] = range[u]
      /\ pc'[t] # "sumCas"
  BY <1>0 DEF SumAdd, At, Goto, Advance
<1>2. pc[Main] \in EvalSegment
  BY <1>1, MainScores
<1>3. /\ range[t].b \in Idx /\ evalLeft <= range[t].b /\ range[t].b < range[t].e
      /\ evalLeft \in Int
  BY <1>1, Types DEF IInv, Control, Ranges, TypeOK
<1>4. ASSUME NEW u \in Threads \ {t}, Holding(u)
      PROVE  ~(range[u].b <= range[t].b /\ range[t].b < range[u].e)
  <2>1. range[u].e <= range[t].b \/ range[t].e <= range[u].b
    BY <1>1, <1>4 DEF IInv, ClaimsDisjoint, Holding
  <2> QED BY <1>3, <2>1, Types
<1>5. ~ScorePending(range[t].b)
  <2>1. ~ToScore(t, range[t].b)
    BY <1>1, <1>3 DEF ToScore
  <2>2. \A u \in Threads \ {t} : ~ToScore(u, range[t].b)
    <3> SUFFICES ASSUME NEW u \in Threads \ {t}, ToScore(u, range[t].b) PROVE FALSE
      OBVIOUS
    <3>1. range[u].b <= range[t].b /\ range[t].b < range[u].e
      BY <1>3, Types DEF ToScore
    <3> QED BY <1>4, <3>1 DEF ToScore, Holding
  <2> QED BY <2>1, <2>2 DEF ScorePending
<1>6. evals[range[t].b] = 1
  BY <1>2, <1>3, <1>5 DEF IInv, Scoring
<1>7. Unsummed(range[t].b)
  BY <1>1 DEF Unsummed
<1>8. ~\E u \in Threads : pc'[u] = "sumCas" /\ range'[u].b = range[t].b
  <2>1. ASSUME NEW u \in Threads \ {t}, pc[u] = "sumCas", range[u].b = range[t].b
        PROVE  FALSE
    <3>1. range[u].b < range[u].e
      BY <2>1 DEF IInv, Control, Ranges
    <3> QED BY <1>3, <1>4, <2>1, <3>1 DEF Holding
  <2> QED BY <1>1, <2>1
<1>9. \A i \in Idx : i # range[t].b =>
        (Unsummed(i)' <=> \E u \in Threads \ {t} : pc[u] = "sumCas" /\ range[u].b = i)
  BY <1>1 DEF Unsummed
<1>10. \A i \in Idx : i # range[t].b => (Unsummed(i)' <=> Unsummed(i))
  BY <1>1, <1>9 DEF Unsummed
<1>11. Summed' = Summed \cup {range[t].b} /\ range[t].b \notin Summed
  <2>1. \A i \in Idx : i \in Summed' <=> i \in Summed \/ i = range[t].b
    BY <1>1, <1>6, <1>8, <1>10 DEF Summed, Unsummed
  <2>2. range[t].b \notin Summed
    BY <1>7 DEF Summed
  <2> QED BY <1>3, <2>1, <2>2 DEF Summed
<1>12. Cardinality(Summed') = Cardinality(Summed) + 1
  BY <1>11, SummedFinite, FS_AddElement
<1> QED BY <1>1, <1>2, <1>12 DEF Sum, Scored

\* Every step does.
LEMMA SumStep ==
    ASSUME IInv, Sum, [Next]_vars
    PROVE  Sum'
<1>0. pc \in [Threads -> MainSites \cup WorkerSites \cup ServiceSites]
  BY Types
<1>1. CASE OwnerCall
  BY <1>1, OwnerCallSum
<1>2. ASSUME NEW t \in Threads, EvalOne(t) \/ SumAdd(t) PROVE Sum'
  BY <1>2, EvalOneSum, SumAddSum
<1>3. CASE ~OwnerCall /\ \A t \in Threads : ~EvalOne(t) /\ ~SumAdd(t)
  <2>1. evals' = evals
    BY <1>3, EvalsUnwritten
  <2>2. overall' = overall
    BY <1>3, SumUnwritten
  <2>3. pc'[Main] \in Scored => pc[Main] \in Scored
    BY <1>3, MainMoves DEF Scored
  <2>4. \A u \in Threads : pc[u] = "sumCas" \/ pc'[u] = "sumCas" =>
          pc'[u] = pc[u] /\ range'[u] = range[u]
    <3>1. CASE \A t \in Threads : ~Claiming(t)
      BY <3>1, QuietStep DEF IInv, Quiet, Holding
    <3>2. ASSUME NEW t \in Threads, EvalClaim(t) \/ GenClaim(t) \/ Breed(t) PROVE <2>4
      <4>1. /\ pc[t] # "sumCas" /\ pc'[t] # "sumCas"
            /\ \A u \in Threads \ {t} : pc'[u] = pc[u] /\ range'[u] = range[u]
        <5>1. CASE EvalClaim(t)
          BY <1>0, <5>1 DEF EvalClaim, Goto, At, IInv, Control, TypeOK
        <5>2. CASE GenClaim(t)
          BY <1>0, <5>2 DEF GenClaim, Goto, At, IInv, Control, TypeOK
        <5>3. CASE Breed(t)
          BY <1>0, <5>3 DEF Breed, Advance, Goto, At, IInv, Control, TypeOK
        <5> QED BY <3>2, <5>1, <5>2, <5>3
      <4> QED BY <4>1
    <3> QED BY <1>3, <3>1, <3>2 DEF Claiming
  <2> QED BY <2>1, <2>2, <2>3, <2>4, SumSame
<1> QED BY <1>1, <1>2, <1>3

\* When evaluate_fitness returns, every individual's fitness is in the sum.
THEOREM SumIsComplete == Spec => []SumComplete
<1>1. Init => Sum
  BY DEF Init, Sum, Scored
<1>2. IInv /\ Sum /\ [Next]_vars => Sum'
  BY SumStep
<1>3. IInv /\ Sum => SumComplete
  <2> SUFFICES ASSUME IInv, Sum, pc[Main] \in {"sort", "scored"} PROVE overall = PopSize
    BY DEF SumComplete
  <2>1. \A i \in Idx : evals[i] = 1
    BY CallsComplete DEF EvaluatedExactlyOnce
  <2>2. \A t \in Threads : pc[t] # "sumCas"
    <3>1. ~lifetimeOver
      BY DEF IInv, Control, Positions
    <3> QED BY <3>1, Together DEF IInv, Control
  <2>3. Summed = 0..(PopSize - 1)
    BY <2>1, <2>2 DEF Summed, Unsummed
  <2>4. Cardinality(0..(PopSize - 1)) = PopSize
    BY FS_Interval
  <2> QED BY <2>3, <2>4 DEF Sum, Scored
<1> QED BY <1>1, <1>2, <1>3, IInvHolds, PTL DEF Spec

=============================================================================
