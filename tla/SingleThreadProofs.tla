-------------------------- MODULE SingleThreadProofs --------------------------
(***************************************************************************)
(* What the service of one thread keeps while nobody but its owner is in   *)
(* it, for any number of workers, individuals and elites.                  *)
(***************************************************************************)
EXTENDS SingleThread, TLAPS

OutsideSites == {"loop", "lock", "waits", "parked", "woken", "done"}
CallerSites == {"ctor", "unscored", "sort", "scored", "swap"} \cup DestructorSites
Sites == OutsideSites \cup CallerSites \cup ServiceSites

TypeOK ==
    /\ pc \in [Threads -> Sites]
    /\ service \in BOOLEAN
    /\ cached \in [Workers -> BOOLEAN]
    /\ evalLeft \in Nat
    /\ genLeft \in Nat
    /\ cursor \in [Threads -> Nat]
    /\ evals \in [Idx -> Nat]
    /\ slot \in [Idx -> {"stale", "elite", "child", "parent"}]
    /\ call \in {"none", "evaluate", "create"}

\* Only a worker that has seen the stored service is ever in it; and the
\* service, once stored, stays.
Outside ==
    \A t \in Workers : /\ cached[t] => service
                       /\ ~cached[t] => pc[t] \in OutsideSites

AllScored == \A i \in Idx : evals[i] = 1
FilledBelow(n) ==
    \A i \in Idx : i < n => slot[i] = IF i < Elites THEN "elite" ELSE "child"

\* The two counters say which job was asked for, and each site of the service
\* is reached for that job alone.
Asked ==
    CASE pc[Main] = "enter" -> \/ call = "evaluate" /\ evalLeft > 0 /\ genLeft = 0
                               \/ call = "create" /\ evalLeft = 0 /\ genLeft > 0
      [] pc[Main] = "gen" -> \/ call = "evaluate" /\ evalLeft = 0 /\ genLeft = 0
                             \/ call = "create" /\ evalLeft = 0 /\ genLeft > 0
      [] pc[Main] \in {"eval", "evalEnd"} -> call = "evaluate" /\ genLeft = 0
      [] pc[Main] \in {"elitism", "breed", "genEnd"} -> call = "create" /\ evalLeft = 0
      [] OTHER -> evalLeft = 0 /\ genLeft = 0

\* How far the scoring has come.
Scoring ==
    /\ \A i \in Idx : evals[i] <= 1
    /\ pc[Main] = "enter" /\ call = "evaluate" => \A i \in Idx : evals[i] = 0
    /\ pc[Main] = "eval" =>
         /\ cursor[Main] \in Idx
         /\ \A i \in Idx : evals[i] = IF i < cursor[Main] THEN 1 ELSE 0
    /\ pc[Main] = "gen" /\ call = "evaluate" => AllScored
    /\ pc[Main] \in {"evalEnd", "sort", "scored"} => AllScored

\* How far the breeding has come.
Breeding ==
    /\ pc[Main] = "breed" =>
         /\ cursor[Main] \in Elites..(PopSize - 1)
         /\ FilledBelow(cursor[Main])
    /\ pc[Main] \in {"genEnd", "swap"} => FilledBelow(PopSize)

Inv == TypeOK /\ Outside /\ (Alone => Asked /\ Scoring /\ Breeding)

-----------------------------------------------------------------------------
USE SizesAssumption, WorkersAssumption
USE DEF At, Goto, Leave, Threads, Idx, poolVars, popVars, mainVars

LEMMA InvInit == ASSUME Init PROVE Inv
<1>1. TypeOK
  BY DEF Init, TypeOK, Sites, OutsideSites, CallerSites
<1>2. Outside
  BY DEF Init, Outside, OutsideSites
<1>3. Asked /\ Scoring /\ Breeding
  <2>1. pc[Main] = "ctor" /\ evalLeft = 0 /\ genLeft = 0 /\ \A i \in Idx : evals[i] = 0
    BY DEF Init
  <2> QED BY <2>1 DEF Asked, Scoring, Breeding
<1> QED BY <1>1, <1>2, <1>3 DEF Inv

LEMMA TypeStep == ASSUME TypeOK, [Next]_vars PROVE TypeOK'
<1> USE DEF TypeOK, Sites, OutsideSites, CallerSites, ServiceSites, DestructorSites
<1>1. CASE OwnerCall
  <2>1. CASE Setup \/ SetLifetimeOver
    BY <2>1 DEF Setup, SetLifetimeOver
  <2>2. CASE EvaluateFitness
    BY <2>2 DEF EvaluateFitness
  <2>3. CASE CreateNextGeneration
    BY <2>3 DEF CreateNextGeneration
  <2>4. CASE NextGeneration
    BY <2>4 DEF NextGeneration
  <2> QED BY <1>1, <2>1, <2>2, <2>3, <2>4 DEF OwnerCall
<1>2. CASE MainStep
  BY <1>2 DEF MainStep, Sort, DestructorNotify, Join
<1>3. ASSUME NEW t \in Threads, Serve(t) PROVE TypeOK'
  <2>1. CASE Enter(t)
    <3>1. cursor' \in [Threads -> Nat] /\ pc' \in [Threads -> Sites]
      BY <2>1 DEF Enter
    <3> QED BY <2>1, <3>1 DEF Enter
  <2>7. CASE EvalEnd(t)
    BY <2>7 DEF EvalEnd
  <2>6. CASE GenSkip(t) \/ GenEnter(t) \/ GenEnd(t)
    BY <2>6 DEF GenSkip, GenEnter, GenEnd
  <2>2. CASE EvalOne(t)
    <3>1. evals' \in [Idx -> Nat]
      <4>1. evals' = [evals EXCEPT ![cursor[t]] = evals[cursor[t]] + 1]
        BY <2>2 DEF EvalOne
      <4>2. ASSUME NEW i \in Idx PROVE evals'[i] \in Nat
        <5>1. evals[i] \in Nat
          OBVIOUS
        <5>2. CASE i = cursor[t]
          BY <4>1, <5>1, <5>2
        <5>3. CASE i # cursor[t]
          BY <4>1, <5>1, <5>3
        <5> QED BY <5>2, <5>3
      <4>3. evals' = [i \in Idx |-> evals'[i]]
        BY <4>1
      <4> QED BY <4>2, <4>3
    <3>2. cursor' \in [Threads -> Nat]
      BY <2>2 DEF EvalOne
    <3> QED BY <2>2, <3>1, <3>2 DEF EvalOne
  <2>3. CASE Elitism(t)
    BY <2>3 DEF Elitism
  <2>4. CASE Breed(t)
    BY <2>4 DEF Breed
  <2>5. CASE BreedFailed(t)
    BY <2>5 DEF BreedFailed
  <2> QED BY <1>3, <2>1, <2>2, <2>3, <2>4, <2>5, <2>6, <2>7 DEF Serve
<1>4. ASSUME NEW t \in Workers, WorkerStep(t) \/ SpuriousWake(t) PROVE TypeOK'
  BY <1>4 DEF WorkerStep, WorkerTest, WorkerLock, WorkerWait, WorkerWoken, SpuriousWake
<1>5. CASE Destroyed \/ UNCHANGED vars
  BY <1>5 DEF Destroyed, vars
<1> QED BY <1>1, <1>2, <1>3, <1>4, <1>5 DEF Next

\* A worker that has seen the service never forgets it.
LEMMA OutsideStep ==
    ASSUME TypeOK, Outside, [Next]_vars
    PROVE  Outside' /\ (Alone' => Alone)
<1> USE DEF TypeOK, Outside, Alone, OutsideSites, Sites
<1>1. CASE OwnerCall
  BY <1>1 DEF OwnerCall, Setup, EvaluateFitness, CreateNextGeneration, NextGeneration,
              SetLifetimeOver
<1>2. CASE MainStep
  BY <1>2 DEF MainStep, Sort, DestructorNotify, Join
<1>3. ASSUME NEW t \in Threads, Serve(t) PROVE Outside' /\ (Alone' => Alone)
  BY <1>3, ZenonT(40) DEF Serve, Enter, EvalOne, EvalEnd, GenSkip, GenEnter, Elitism, Breed,
              BreedFailed, GenEnd
<1>4. ASSUME NEW t \in Workers, WorkerStep(t) \/ SpuriousWake(t)
      PROVE  Outside' /\ (Alone' => Alone)
  BY <1>4 DEF WorkerStep, WorkerTest, WorkerLock, WorkerWait, WorkerWoken, SpuriousWake
<1>5. CASE Destroyed \/ UNCHANGED vars
  BY <1>5 DEF Destroyed, vars
<1> QED BY <1>1, <1>2, <1>3, <1>4, <1>5 DEF Next

\* While Main serves alone, each step of its loops keeps what they have done.
LEMMA LoopStep ==
    ASSUME Inv, Alone, [Next]_vars
    PROVE  (Asked /\ Scoring /\ Breeding)'
<1> DEFINE Loop == Asked /\ Scoring /\ Breeding
<1> USE DEF Inv, TypeOK, Asked, Scoring, Breeding, AllScored, FilledBelow
<1>0. Main \in Threads /\ Main \notin Workers
  OBVIOUS
<1>1. CASE OwnerCall
  <2>1. CASE Setup \/ SetLifetimeOver
    BY <1>0, <2>1 DEF Setup, SetLifetimeOver
  <2>2. CASE EvaluateFitness
    BY <1>0, <2>2 DEF EvaluateFitness
  <2>3. CASE CreateNextGeneration
    BY <1>0, <2>3 DEF CreateNextGeneration
  <2>4. CASE NextGeneration
    BY <1>0, <2>4 DEF NextGeneration
  <2> QED BY <1>1, <2>1, <2>2, <2>3, <2>4 DEF OwnerCall
<1>2. CASE MainStep
  BY <1>0, <1>2 DEF MainStep, Sort, DestructorNotify, Join
<1>3. ASSUME NEW t \in Threads, Serve(t) PROVE Loop'
  <2>1. t = Main
    BY <1>3 DEF Serve, Enter, EvalOne, EvalEnd, GenSkip, GenEnter, Elitism, Breed,
                BreedFailed, GenEnd, Outside, Alone, OutsideSites
  <2>2. CASE Enter(t) \/ EvalEnd(t)
    BY <2>1, <2>2 DEF Enter, EvalEnd
  <2>3. CASE GenSkip(t) \/ GenEnter(t) \/ GenEnd(t)
    BY <2>1, <2>3 DEF GenSkip, GenEnter, GenEnd
  <2>4. CASE EvalOne(t)
    BY <2>1, <2>4 DEF EvalOne
  <2>5. CASE Elitism(t)
    BY <2>1, <2>5 DEF Elitism
  <2>6. CASE Breed(t)
    BY <2>1, <2>6 DEF Breed
  <2>7. CASE BreedFailed(t)
    BY <2>1, <2>7 DEF BreedFailed
  <2> QED BY <1>3, <2>2, <2>3, <2>4, <2>5, <2>6, <2>7 DEF Serve
<1>4. ASSUME NEW t \in Workers, WorkerStep(t) \/ SpuriousWake(t) PROVE Loop'
  <2>1. UNCHANGED <<pc[Main], evalLeft, genLeft, cursor, evals, slot, call>>
    BY <1>0, <1>4 DEF WorkerStep, WorkerTest, WorkerLock, WorkerWait, WorkerWoken, SpuriousWake
  <2> QED BY <2>1
<1>5. CASE Destroyed \/ UNCHANGED vars
  BY <1>5 DEF Destroyed, vars
<1> QED BY <1>1, <1>2, <1>3, <1>4, <1>5 DEF Next

LEMMA InvStep == ASSUME Inv, [Next]_vars PROVE Inv'
<1>1. TypeOK' /\ Outside' /\ (Alone' => Alone)
  BY TypeStep, OutsideStep DEF Inv
<1>2. Alone => (Asked /\ Scoring /\ Breeding)'
  BY LoopStep
<1> QED BY <1>1, <1>2 DEF Inv

\* The service and its owner's loops stay in step.
THEOREM InvHolds == Spec => []Inv
<1>1. Init => Inv
  BY InvInit
<1>2. Inv /\ [Next]_vars => Inv'
  BY InvStep
<1> QED BY <1>1, <1>2, PTL DEF Spec

\* evaluate_fitness of one thread scores every individual exactly once, as
\* long as no worker has seen the service.
THEOREM ScoresOnce == Spec => []AloneScoresOnce
<1>1. Inv => AloneScoresOnce
  BY DEF Inv, Scoring, AllScored, AloneScoresOnce
<1> QED BY <1>1, InvHolds, PTL

\* create_next_generation of one thread returns with the elites in front and a
\* child in every other slot, as long as no worker has seen the service.
THEOREM BreedsAll == Spec => []AloneBreedsAll
<1>1. Inv => AloneBreedsAll
  BY DEF Inv, Breeding, FilledBelow, AloneBreedsAll
<1> QED BY <1>1, InvHolds, PTL

\* create_next_generation scores nobody, as long as no worker has seen the
\* service.
THEOREM ScoresOnDemand == Spec => AloneScoresOnDemand
<1> DEFINE Quiet == Alone' /\ pc[Main] \in ServiceSites /\ call = "create" => evals' = evals
<1>1. ASSUME Inv, [Next]_vars PROVE [Quiet]_vars
  <2> SUFFICES ASSUME Alone', pc[Main] \in ServiceSites, call = "create"
               PROVE  evals' = evals
    OBVIOUS
  <2>1. Alone /\ Outside /\ Asked
    BY <1>1, OutsideStep DEF Inv
  <2>2. CASE OwnerCall \/ MainStep
    BY <2>2 DEF OwnerCall, Setup, EvaluateFitness, CreateNextGeneration, NextGeneration,
                SetLifetimeOver, MainStep, Sort, DestructorNotify, Join, ServiceSites
  <2>3. ASSUME NEW t \in Threads, Serve(t) PROVE evals' = evals
    <3>1. ~EvalOne(t)
      <4>1. pc[Main] # "eval"
        BY <2>1 DEF Asked
      <4>2. \A w \in Workers : pc[w] # "eval"
        BY <2>1 DEF Alone, Outside, OutsideSites
      <4> QED BY <2>3, <4>1, <4>2 DEF EvalOne
    <3> QED BY <2>3, <3>1 DEF Serve, Enter, EvalEnd, GenSkip, GenEnter, Elitism, Breed,
                              BreedFailed, GenEnd
  <2>4. ASSUME NEW t \in Workers, WorkerStep(t) \/ SpuriousWake(t) PROVE evals' = evals
    BY <2>4 DEF WorkerStep, WorkerTest, WorkerLock, WorkerWait, WorkerWoken, SpuriousWake
  <2>5. CASE Destroyed \/ UNCHANGED vars
    BY <2>5 DEF Destroyed, vars
  <2> QED BY <1>1, <2>2, <2>3, <2>4, <2>5 DEF Next
<1>2. []Inv /\ [][Next]_vars => [][Quiet]_vars
  BY <1>1, PTL
<1> QED BY <1>2, InvHolds, PTL DEF Spec, AloneScoresOnDemand

=============================================================================
