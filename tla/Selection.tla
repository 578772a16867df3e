------------------------------ MODULE Selection ------------------------------
(***************************************************************************)
(* How one generation chooses what the next is made of: elitism            *)
(* (src/include/blt/gp/selection.h) and the selection strategies           *)
(* (src/src/selection.cpp) on the sorted population that evaluate_fitness  *)
(* leaves, and what the steady state service of one thread, which has a    *)
(* strategy choose what is replaced, makes of it.  A tree is represented   *)
(* by its adjusted fitness, an integer, and the fitness function gives one *)
(* tree the same fitness every time.                                       *)
(***************************************************************************)
EXTENDS Integers, FiniteSets, Sequences, FiniteSetsExt, SequencesExt

CONSTANTS
    PopSize,            \* config.population_size
    Elites,             \* config.elites
    Fitness,            \* adjusted fitness values
    TournamentSize,     \* select_tournament_t::selection_size
    Replacement,        \* replacement_amount of the steady state service
    MaxGiveUps          \* bound on the crossovers that give up in a generation

ASSUME SelectionAssumption ==
    /\ PopSize \in Nat \ {0} /\ TournamentSize \in Nat \ {0}
    /\ Elites \in 0..PopSize            \* asserted by perform_elitism
    /\ Fitness \subseteq Nat
    /\ Replacement \in 1..PopSize /\ MaxGiveUps \in Nat

VARIABLES
    service,            \* the service that was set up
    pop,                \* current_pop
    next,               \* next_pop
    filled,             \* individuals of next_pop written in this generation
    phase,
    left,               \* next_gen_left of the steady state service
    worst,              \* select_worst_t::index, modulo the population's size
    gaveUp              \* for the properties: crossovers that gave up

vars == <<service, pop, next, filled, phase, left, worst, gaveUp>>
steadyVars == <<left, worst, gaveUp>>

Idx == 1..PopSize
Orders == {order \in [Idx -> Idx] : IsInjective(order)}

\* Best first.
Descending(individuals) ==
    \A i, j \in Idx : i < j => individuals[i] >= individuals[j]

\* Any first population; both populations start as copies of it.
Init ==
    /\ service \in {"generational", "steady"}
    /\ pop \in [Idx -> Fitness]
    /\ next = pop
    /\ filled = 0
    /\ phase = "unscored"
    /\ left = 0 /\ worst = 0 /\ gaveUp = 0

-----------------------------------------------------------------------------
(* perform_elitism.                                                        *)

\* Mutated: an individual is considered only when it beats the last elite.
ConsiderLast(values, ind) ==
    IF pop[ind] >= pop[values[Elites]] /\ ind \notin Range(values)
    THEN [values EXCEPT ![1] = ind] ELSE values

\* The individual takes the place of the first elite that is no better.
Consider(values, ind) ==
    LET beaten == {i \in 1..Elites : pop[ind] >= pop[values[i]]}
    IN  IF beaten = {} \/ ind \in Range(values) THEN values
        ELSE [values EXCEPT ![Min(beaten)] = ind]

EliteIndexes ==
    FoldLeft(Consider, [i \in 1..Elites |-> i], [i \in Idx |-> i])

-----------------------------------------------------------------------------
(* The strategies: the individuals each of them may return.                *)

SelectRandom == Idx

\* select_best_t and select_worst_t take individuals in turn, from the best or
\* from the worst; the index is shared by all who select.
SelectBest == {(index % PopSize) + 1 : index \in 0..(PopSize - 1)}
SelectWorst(index) == PopSize - (index % PopSize)

\* Mutated: an individual may be drawn into the same tournament twice.
DrawsRepeated == UNION {[1..Min({TournamentSize, PopSize}) -> {s}] : s \in Idx}

\* The individuals of one tournament, in the order they are drawn: the draw is
\* repeated until it is one not in already_selected.
Draws ==
    {d \in [1..Min({TournamentSize, PopSize}) -> Idx] : IsInjective(d)}

\* The best so far starts as an individual drawn outside the tournament.
Better(best, drawn) == IF pop[drawn] > pop[best] THEN drawn ELSE best
SelectTournament == {FoldLeft(Better, first, d) : first \in Idx, d \in Draws}

\* normalized_fitness, scaled by overall_fitness to stay in the integers.
Cumulative(i) == FoldLeft(LAMBDA sum, j : sum + pop[j], 0, [j \in 1..i |-> j])
OverallFitness == Cumulative(PopSize)

\* Mutated: the lower bound is inclusive as well.
FoundInclusive(choice) ==
    {i \in Idx : /\ i = 1 \/ choice >= Cumulative(i - 1)
                 /\ choice <= Cumulative(i)}

\* The individuals whose interval holds the choice.  With an overall fitness
\* of zero the probabilities are 0/0 and every comparison fails.
Found(choice) ==
    {i \in Idx : /\ OverallFitness > 0
                 /\ i = 1 \/ choice > Cumulative(i - 1)
                 /\ choice <= Cumulative(i)}

\* get_double is below one: a multiple of 1 / overall_fitness in the model.
DoubleDraws == 0..Max({OverallFitness - 1, 0})

\* The first that fits, or the fallback after the warning.
Proportionate(choice) == IF Found(choice) = {} THEN 1 ELSE Min(Found(choice))
SelectProportionate == {Proportionate(choice) : choice \in DoubleDraws}

Selected == SelectRandom \cup SelectBest \cup SelectTournament \cup SelectProportionate

-----------------------------------------------------------------------------
(* One generation.                                                         *)

\* evaluate_fitness scores and sorts, best first.
Evaluate ==
    /\ phase = "unscored"
    /\ \E order \in Orders :
         /\ Descending([i \in Idx |-> pop[order[i]]])
         /\ pop' = [i \in Idx |-> pop[order[i]]]
    /\ phase' = "scored"
    /\ UNCHANGED <<service, next, filled, steadyVars>>

PerformElitism ==
    /\ service = "generational" /\ phase = "scored"
    /\ next' = [i \in Idx |-> IF i <= Elites THEN pop[EliteIndexes[i]] ELSE next[i]]
    /\ filled' = Elites
    /\ phase' = "breeding"
    /\ UNCHANGED <<service, pop, steadyVars>>

Fill(tree) ==
    /\ service = "generational" /\ phase = "breeding" /\ filled < PopSize
    /\ next' = [next EXCEPT ![filled + 1] = tree]
    /\ filled' = filled + 1
    /\ UNCHANGED <<service, pop, phase, steadyVars>>

\* Crossover and mutation make a tree of any fitness.
Vary == \E f \in Fitness : Fill(f)

\* Reproduction copies a selected tree.
Reproduce == \E i \in Selected : Fill(pop[i])

\* Both services have come to their end, and the populations change places.
NextGeneration ==
    /\ phase = "breeding" /\ left = 0
    /\ service = "generational" => filled = PopSize
    /\ pop' = next /\ next' = pop
    /\ filled' = 0
    /\ phase' = "unscored"
    /\ gaveUp' = 0
    /\ UNCHANGED <<service, left, worst>>

-----------------------------------------------------------------------------
(* The steady state service of one thread, with a replacement strategy that *)
(* takes individuals in the order of select_worst_t.                       *)

\* Mutated: pre_process leaves the strategy's index where it was.
StartSteadyNoReset ==
    /\ service = "steady" /\ phase = "scored"
    /\ next' = pop
    /\ left' = Replacement
    /\ phase' = "breeding"
    /\ UNCHANGED <<service, pop, filled, worst, gaveUp>>

\* next_pop becomes a copy of current_pop; pre_process.
StartSteady ==
    /\ service = "steady" /\ phase = "scored"
    /\ next' = pop
    /\ left' = Replacement
    /\ worst' = 0
    /\ phase' = "breeding"
    /\ UNCHANGED <<service, pop, filled, gaveUp>>

\* `while (c2 != &c1) c2 = &select()`: the strategy goes once around, and the
\* second child is the same individual as the first.
SelectsForC2 ==
    IF left > 1
    THEN CHOOSE n \in 1..PopSize : SelectWorst(worst + n) = SelectWorst(worst)
    ELSE 0

\* perform_selection puts a tree in c1's place and counts it `by` times.
Replace(tree, by) ==
    /\ service = "steady" /\ phase = "breeding" /\ left > 0
    /\ next' = [next EXCEPT ![SelectWorst(worst)] = tree]
    /\ worst' = (worst + 1 + SelectsForC2) % PopSize
    /\ left' = left - by
    /\ UNCHANGED <<service, pop, filled, phase>>

SteadyCrossover ==
    /\ \E f \in Fitness : Replace(f, IF left > 1 THEN 2 ELSE 1)
    /\ UNCHANGED gaveUp

SteadyMutation == (\E f \in Fitness : Replace(f, 1)) /\ UNCHANGED gaveUp

SteadyReproduction == (\E i \in Selected : Replace(pop[i], 1)) /\ UNCHANGED gaveUp

\* Crossover has failed max_crossover_iterations times: c1 is a copy of a
\* parent, nothing is counted, and the next attempt selects another.
SteadyGiveUp ==
    /\ gaveUp < MaxGiveUps
    /\ gaveUp' = gaveUp + 1
    /\ \E i \in Selected : Replace(pop[i], 0)

Next ==
    \/ Evaluate \/ PerformElitism \/ Vary \/ Reproduce \/ NextGeneration
    \/ StartSteady \/ SteadyCrossover \/ SteadyMutation \/ SteadyReproduction
    \/ SteadyGiveUp

Spec == Init /\ [][Next]_vars

-----------------------------------------------------------------------------
(* Properties.                                                             *)

\* How many individuals are at least as good as f.
Reaching(individuals, f) == Cardinality({i \in Idx : individuals[i] >= f})

\* For every k up to Elites, the k-th best of a generation is at least as
\* good as the k-th best of the generation it was bred from: if k individuals
\* reached some fitness then k do again.  perform_elitism loses none of the
\* best and copies none of them twice in place of another.
BestAreKept ==
    [][NextGeneration /\ service = "generational" =>
           \A k \in 1..Elites, f \in Fitness :
               Reaching(pop, f) >= k => Reaching(pop', f) >= k]_vars

\* A steady state generation replaces the worst: all but as many as it was
\* asked to replace are as good as before, rank by rank, in every generation
\* and not only in the first, but for one more with each crossover that has
\* given up after it had overwritten an individual.
SteadyKeepsTheBest ==
    [][NextGeneration /\ service = "steady" =>
           \A k \in 1..(PopSize - Replacement - gaveUp), f \in Fitness :
               Reaching(pop, f) >= k => Reaching(pop', f) >= k]_vars

\* A tournament's winner is at least as good as as many individuals as took
\* part in it.
WinnerBeatsTheField ==
    phase = "scored" =>
        \A w \in SelectTournament :
            Cardinality({i \in Idx : pop[i] <= pop[w]}) >= Min({TournamentSize, PopSize})

\* Every individual owns a share of the choices equal to its fitness: the
\* intervals leave no gap and do not overlap.
SharesMatchFitness ==
    phase = "scored" /\ OverallFitness > 0 =>
        \A i \in Idx :
            Cardinality({choice \in 1..OverallFitness : Found(choice) = {i}}) = pop[i]

=============================================================================
