------------------------------ MODULE Evolution ------------------------------
(***************************************************************************)
(* What a generational run promises to the owner of a gp_program, with no  *)
(* threads, barriers or counters: a population is scored one individual at *)
(* a time, each exactly once; only a scored population is bred from;       *)
(* breeding fills the empty slots of the next population, elites first;    *)
(* only a full next population is moved to.                                *)
(***************************************************************************)
EXTENDS Integers

CONSTANTS PopSize, Elites, MaxGen

VARIABLES
    phase,      \* what the owner is doing with the populations
    scored,     \* individuals of the current population with their fitness
    next,       \* what each slot of the next population holds
    gen         \* current_generation

vars == <<phase, scored, next, gen>>

Idx == 0..(PopSize - 1)
Empty == [i \in Idx |-> "empty"]

Init ==
    /\ phase = "unscored"
    /\ scored = {}
    /\ next = Empty
    /\ gen = 0

StartScoring ==
    /\ phase \in {"unscored", "scored"}
    /\ phase' = "scoring"
    /\ scored' = {}
    /\ UNCHANGED <<next, gen>>

Score(i) ==
    /\ phase = "scoring"
    /\ i \notin scored
    /\ scored' = scored \cup {i}
    /\ UNCHANGED <<phase, next, gen>>

EndScoring ==
    /\ phase = "scoring"
    /\ scored = Idx
    /\ phase' = "scored"
    /\ UNCHANGED <<scored, next, gen>>

StartBreeding ==
    /\ phase = "scored"
    /\ gen < MaxGen
    /\ phase' = "breeding"
    /\ UNCHANGED <<scored, next, gen>>

\* All elites at once, before any child.
KeepElites ==
    /\ phase = "breeding"
    /\ next = Empty
    /\ next' = [i \in Idx |-> IF i < Elites THEN "elite" ELSE "empty"]
    /\ UNCHANGED <<phase, scored, gen>>

\* One child, or the two of a crossover, in empty neighbouring slots.
Birth(i, j) ==
    /\ phase = "breeding"
    /\ j \in {i, i + 1}
    /\ \A k \in Idx : k < Elites => next[k] = "elite"
    /\ \A k \in {i, j} : k >= Elites /\ next[k] = "empty"
    /\ next' = [next EXCEPT ![i] = "child", ![j] = "child"]
    /\ UNCHANGED <<phase, scored, gen>>

EndBreeding ==
    /\ phase = "breeding"
    /\ \A i \in Idx : next[i] = IF i < Elites THEN "elite" ELSE "child"
    /\ phase' = "bred"
    /\ UNCHANGED <<scored, next, gen>>

Move ==
    /\ phase = "bred"
    /\ phase' = "unscored"
    /\ gen' = gen + 1
    /\ scored' = {}
    /\ next' = Empty

Stop ==
    /\ phase \in {"unscored", "scored"}
    /\ phase' = "stopped"
    /\ UNCHANGED <<scored, next, gen>>

Next ==
    \/ StartScoring \/ EndScoring \/ StartBreeding
    \/ KeepElites \/ EndBreeding \/ Move \/ Stop
    \/ \E i \in Idx : Score(i)
    \/ \E i, j \in Idx : Birth(i, j)

Spec == Init /\ [][Next]_vars

=============================================================================
