--------------------------- MODULE SelectionProofs ---------------------------
(***************************************************************************)
(* Proofs about Selection, for populations of any size and any fitness:    *)
(* what tournaments, shares and elites give, and what a generation of      *)
(* either service keeps.  The strategies' loops are folds; each has a      *)
(* lemma that lays its values out step by step, and an induction.          *)
(***************************************************************************)
EXTENDS Selection, SequenceLemmas

USE SelectionAssumption DEF Idx

\* The adjusted fitness of each individual.
Scores == [Idx -> Nat]

\* Remainders of numbers below twice the divisor.
LEMMA Remainder ==
    ASSUME NEW P \in Nat \ {0}, NEW a \in Nat
    PROVE  /\ a % P \in 0..(P - 1)
           /\ a < P => a % P = a
           /\ a >= P /\ a < 2 * P => a % P = a - P
<1>1. a % P \in 0..(P - 1)
  OBVIOUS
<1>2. a < P => a % P = a
  OBVIOUS
<1>3. a >= P /\ a < 2 * P => a % P = a - P
  OBVIOUS
<1> QED BY <1>1, <1>2, <1>3

\* Once around the population, and less than that.
LEMMA Around ==
    ASSUME NEW a \in Nat
    PROVE  /\ a % PopSize \in 0..(PopSize - 1)
           /\ a < PopSize => a % PopSize = a
           /\ PopSize <= a /\ a < PopSize + PopSize => a % PopSize = a - PopSize
<1>1. PopSize \in Nat \ {0} /\ 2 * PopSize = PopSize + PopSize
  OBVIOUS
<1>2. PICK P \in Nat \ {0} : P = PopSize
  BY <1>1
<1>3. /\ a % P \in 0..(P - 1)
      /\ a < P => a % P = a
      /\ a >= P /\ a < 2 * P => a % P = a - P
  BY Remainder
<1> QED BY <1>1, <1>2, <1>3

-----------------------------------------------------------------------------
(* Tournaments.                                                            *)

\* h[k] is the best so far when k individuals have been drawn.
BestSoFar(h, n, d, first) ==
    h[0] = first /\ \A k \in 1..n : h[k] = Better(h[k - 1], d[k])

\* The fold of a tournament is the last of its bests so far.
LEMMA TournamentFolds ==
    ASSUME NEW n \in Nat, NEW d \in [1..n -> Idx], NEW first \in Idx
    PROVE  \E h : BestSoFar(h, n, d, first) /\ FoldLeft(Better, first, d) = h[n]
<1> DEFINE g == [p \in (1..n) \X Idx |-> Better(p[2], d[p[1]])]
           Solves(f) == f = [s \in SUBSET (1..n) |->
                               IF s = {} THEN first ELSE Better(f[s \ {Max(s)}], d[Max(s)])]
<1>1. g \in [(1..n) \X Idx -> Idx]
  BY DEF Better
<1>2. PICK e \in [SUBSET (1..n) -> Idx] : FoldsTo(e, n, first, g)
  BY <1>1, FoldExists DEF Foldable
<1>3. Solves(e)
  <2>1. ASSUME NEW s \in SUBSET (1..n), s # {}
        PROVE  g[<<Max(s), e[s \ {Max(s)}]>>] = Better(e[s \ {Max(s)}], d[Max(s)])
    <3>1. Max(s) \in 1..n /\ s \ {Max(s)} \in SUBSET (1..n)
      BY <2>1, Ends
    <3> QED BY <3>1
  <2> QED BY <1>2, <2>1 DEF FoldsTo
<1>4. DOMAIN d = 1..n
  OBVIOUS
<1>5. PICK f : Solves(f) /\ FoldLeft(Better, first, d) = f[1..n]
  BY <1>3, <1>4 DEF FoldLeft, MapThenFoldSet
<1> DEFINE h == [k \in 0..n |-> f[1..k]]
<1>6. h[0] = first
  <2>1. 1..0 = {} /\ 1..0 \in SUBSET (1..n)
    OBVIOUS
  <2> QED BY <1>5, <2>1
<1>7. ASSUME NEW k \in 1..n PROVE h[k] = Better(h[k - 1], d[k])
  <2>1. /\ 1..k \in SUBSET (1..n) /\ 1..k # {}
        /\ Max(1..k) = k /\ (1..k) \ {k} = 1..(k - 1)
    BY FoldLast
  <2>2. f[1..k] = Better(f[(1..k) \ {Max(1..k)}], d[Max(1..k)])
    BY <1>5, <2>1
  <2>3. f[1..k] = Better(f[1..(k - 1)], d[k])
    BY <2>1, <2>2, Zenon
  <2>4. h[k] = f[1..k] /\ h[k - 1] = f[1..(k - 1)]
    OBVIOUS
  <2> QED BY <2>3, <2>4, Zenon
<1>8. h[n] = f[1..n]
  OBVIOUS
<1> QED BY <1>5, <1>6, <1>7, <1>8 DEF BestSoFar

\* The winner was drawn, or drawn first, and is as good as all that were drawn.
LEMMA WinnerIsBest ==
    ASSUME NEW n \in Nat, NEW d \in [1..n -> Idx], NEW first \in Idx, pop \in Scores
    PROVE  /\ FoldLeft(Better, first, d) \in Idx
           /\ \A j \in 1..n : pop[d[j]] <= pop[FoldLeft(Better, first, d)]
<1>1. PICK h : BestSoFar(h, n, d, first) /\ FoldLeft(Better, first, d) = h[n]
  BY TournamentFolds
<1> DEFINE Good(k) == h[k] \in Idx /\ \A j \in 1..k : pop[d[j]] <= pop[h[k]]
           T == {k \in Nat : k <= n => Good(k)}
<1>2. 0 \in T
  BY <1>1 DEF BestSoFar
<1>3. ASSUME NEW k \in Nat, k \in T PROVE k + 1 \in T
  <2> SUFFICES ASSUME k + 1 <= n PROVE Good(k + 1)
    OBVIOUS
  <2>1. Good(k) /\ k + 1 \in 1..n /\ (k + 1) - 1 = k
    BY <1>3
  <2>2. h[k + 1] = Better(h[k], d[k + 1])
    BY <1>1, <2>1 DEF BestSoFar
  <2>3. d[k + 1] \in Idx /\ h[k] \in Idx /\ \A i \in Idx : pop[i] \in Nat
    BY <2>1 DEF Scores
  <2>4. /\ h[k + 1] \in Idx
        /\ pop[h[k]] <= pop[h[k + 1]] /\ pop[d[k + 1]] <= pop[h[k + 1]]
    BY <2>2, <2>3 DEF Better
  <2>5. ASSUME NEW j \in 1..(k + 1) PROVE pop[d[j]] <= pop[h[k + 1]]
    <3>1. CASE j = k + 1
      BY <2>4, <3>1
    <3>2. CASE j # k + 1
      <4>1. j \in 1..k /\ d[j] \in Idx
        BY <3>2, <2>1
      <4>2. pop[d[j]] <= pop[h[k]]
        BY <2>1, <4>1
      <4>3. /\ pop[d[j]] \in Nat /\ pop[h[k]] \in Nat /\ pop[h[k + 1]] \in Nat
            /\ pop[h[k]] <= pop[h[k + 1]]
        BY <2>3, <2>4, <4>1
      <4>4. \A a, b, c \in Nat : a <= b /\ b <= c => a <= c
        OBVIOUS
      <4> QED BY <4>2, <4>3, <4>4, Zenon
    <3> QED BY <3>1, <3>2
  <2> QED BY <2>4, <2>5
<1>4. n \in T
  BY <1>2, <1>3, Induction
<1>5. Good(n)
  BY <1>4
<1> QED BY <1>1, <1>5

\* As many are drawn as a tournament has places, or as there are.
Places == Min({TournamentSize, PopSize})

\* The smaller of two numbers.
LEMMA LesserOf ==
    ASSUME NEW a \in Int, NEW b \in Int
    PROVE  Min({a, b}) = IF a <= b THEN a ELSE b
BY DEF Min

\* Those drawn are different, so the winner is as good as that many.
LEMMA WinnerBeats ==
    ASSUME pop \in Scores, NEW w \in SelectTournament
    PROVE  w \in Idx /\ Cardinality({i \in Idx : pop[i] <= pop[w]}) >= Places
<1>1. Places \in Nat
  BY LesserOf DEF Places
<1>2. PICK first \in Idx, d \in Draws : w = FoldLeft(Better, first, d)
  BY DEF SelectTournament
<1>3. d \in [1..Places -> Idx] /\ IsInjective(d)
  BY <1>2 DEF Draws, Places
<1>4. w \in Idx /\ \A j \in 1..Places : pop[d[j]] <= pop[w]
  BY <1>1, <1>2, <1>3, WinnerIsBest
<1> DEFINE beaten == {i \in Idx : pop[i] <= pop[w]}
<1>5. d \in Injection(1..Places, beaten)
  BY <1>3, <1>4 DEF Injection, IsInjective
<1>6. IsFiniteSet(Idx)
  BY FS_Interval
<1>7. IsFiniteSet(beaten)
  BY <1>6, FS_Subset
<1>8. Cardinality(1..Places) <= Cardinality(beaten) /\ Cardinality(beaten) \in Nat
  BY <1>5, <1>7, FS_Injection, FS_CardinalityType
<1>9. Cardinality(1..Places) = Places
  BY <1>1, FS_Interval
<1> QED BY <1>1, <1>4, <1>8, <1>9

-----------------------------------------------------------------------------
(* Shares.                                                                 *)

\* C[i] is the sum of the first i adjusted fitnesses.
SumsTo(C, n) == C[0] = 0 /\ \A k \in 1..n : C[k] = C[k - 1] + pop[k]

\* f is what Cumulative folds the individuals with.
SolvesSum(f, n) ==
    f = [s \in SUBSET (DOMAIN [j \in 1..n |-> j]) |->
           IF s = {} THEN 0 ELSE f[s \ {Max(s)}] + pop[[j \in 1..n |-> j][Max(s)]]]

\* Cumulative is the fold of such an f, if there is one.
LEMMA CumulativeUnfolds ==
    ASSUME NEW n, \E f : SolvesSum(f, n)
    PROVE  \E f : SolvesSum(f, n) /\ Cumulative(n) = f[DOMAIN [j \in 1..n |-> j]]
BY DEF SolvesSum, Cumulative, FoldLeft, MapThenFoldSet

\* There is one, and it lays out the sums.
LEMMA CumulativeFolds ==
    ASSUME pop \in Scores, NEW n \in 0..PopSize
    PROVE  \E C : SumsTo(C, n) /\ Cumulative(n) = C[n]
<1> DEFINE g == [p \in (1..n) \X Nat |-> p[2] + pop[p[1]]]
           d == [j \in 1..n |-> j]
<1>0. n \in Nat
  OBVIOUS
<1>1. g \in [(1..n) \X Nat -> Nat]
  BY DEF Scores
<1>2. PICK e \in [SUBSET (1..n) -> Nat] : FoldsTo(e, n, 0, g)
  BY <1>0, <1>1, FoldExists DEF Foldable
<1>3. SolvesSum(e, n)
  <2>1. ASSUME NEW s \in SUBSET (1..n), s # {}
        PROVE  g[<<Max(s), e[s \ {Max(s)}]>>] = e[s \ {Max(s)}] + pop[d[Max(s)]]
    <3>1. Max(s) \in 1..n /\ s \ {Max(s)} \in SUBSET (1..n)
      BY <1>0, <2>1, Ends
    <3> QED BY <3>1
  <2> QED BY <1>2, <2>1 DEF FoldsTo, SolvesSum
<1>4. PICK f : SolvesSum(f, n) /\ Cumulative(n) = f[DOMAIN d]
  BY <1>3, CumulativeUnfolds
<1>5. /\ f = [s \in SUBSET (1..n) |-> IF s = {} THEN 0 ELSE f[s \ {Max(s)}] + pop[d[Max(s)]]]
      /\ Cumulative(n) = f[1..n]
  BY <1>4 DEF SolvesSum
<1> DEFINE C == [k \in 0..n |-> f[1..k]]
<1>6. C[0] = 0
  <2>1. 1..0 = {} /\ 1..0 \in SUBSET (1..n)
    OBVIOUS
  <2> QED BY <1>5, <2>1
<1>7. ASSUME NEW k \in 1..n PROVE C[k] = C[k - 1] + pop[k]
  <2>1. /\ 1..k \in SUBSET (1..n) /\ 1..k # {}
        /\ Max(1..k) = k /\ (1..k) \ {k} = 1..(k - 1)
    BY FoldLast
  <2>2. f[1..k] = f[(1..k) \ {Max(1..k)}] + pop[d[Max(1..k)]]
    BY <1>5, <2>1
  <2>3. d[k] = k
    OBVIOUS
  <2>4. f[1..k] = f[1..(k - 1)] + pop[k]
    BY <2>1, <2>2, <2>3, Zenon
  <2>5. C[k] = f[1..k] /\ C[k - 1] = f[1..(k - 1)]
    OBVIOUS
  <2> QED BY <2>4, <2>5, Zenon
<1>8. C[n] = f[1..n]
  OBVIOUS
<1> QED BY <1>5, <1>6, <1>7, <1>8 DEF SumsTo

\* The sums are one function, which never falls.
LEMMA CumulativeRises ==
    ASSUME pop \in Scores
    PROVE  /\ Cumulative(0) = 0
           /\ \A i \in 0..PopSize : Cumulative(i) \in Nat
           /\ \A i \in Idx : Cumulative(i) = Cumulative(i - 1) + pop[i]
           /\ \A i, j \in 0..PopSize : i <= j => Cumulative(i) <= Cumulative(j)
<1>1. ASSUME NEW n \in 0..PopSize, NEW m \in 0..n, NEW C, SumsTo(C, n), NEW D, SumsTo(D, m)
      PROVE  \A k \in 0..m : C[k] = D[k] /\ C[k] \in Nat
  <2> DEFINE T == {k \in Nat : k <= m => C[k] = D[k] /\ C[k] \in Nat}
  <2>1. 0 \in T
    BY <1>1 DEF SumsTo
  <2>2. ASSUME NEW k \in Nat, k \in T PROVE k + 1 \in T
    <3> SUFFICES ASSUME k + 1 <= m PROVE C[k + 1] = D[k + 1] /\ C[k + 1] \in Nat
      OBVIOUS
    <3>1. k + 1 \in 1..m /\ k + 1 \in 1..n /\ k + 1 \in Idx /\ (k + 1) - 1 = k
      OBVIOUS
    <3>2. C[k + 1] = C[k] + pop[k + 1] /\ D[k + 1] = D[k] + pop[k + 1]
      BY <1>1, <3>1 DEF SumsTo
    <3>3. pop[k + 1] \in Nat /\ C[k] = D[k] /\ C[k] \in Nat
      BY <2>2, <3>1 DEF Scores
    <3> QED BY <3>2, <3>3
  <2>3. Nat \subseteq T
    BY <2>1, <2>2, Induction
  <2> QED BY <2>3
<1>2. PICK C : SumsTo(C, PopSize) /\ Cumulative(PopSize) = C[PopSize]
  BY CumulativeFolds
<1>3. ASSUME NEW i \in 0..PopSize PROVE Cumulative(i) = C[i] /\ C[i] \in Nat
  <2>1. PICK D : SumsTo(D, i) /\ Cumulative(i) = D[i]
    BY CumulativeFolds
  <2>2. PopSize \in 0..PopSize /\ i \in 0..i
    OBVIOUS
  <2> QED BY <1>1, <1>2, <2>1, <2>2
<1>4. \A i \in Idx : i - 1 \in 0..PopSize /\ i \in 0..PopSize /\ C[i] = C[i - 1] + pop[i]
  BY <1>2 DEF SumsTo
<1>5. \A i \in Idx : Cumulative(i) = Cumulative(i - 1) + pop[i]
  BY <1>3, <1>4
<1>6. ASSUME NEW i \in 0..PopSize PROVE \A j \in i..PopSize : C[i] <= C[j]
  <2> DEFINE T == {k \in Nat : i + k <= PopSize => C[i] <= C[i + k]}
  <2>1. 0 \in T
    BY <1>3
  <2>2. ASSUME NEW k \in Nat, k \in T PROVE k + 1 \in T
    <3> SUFFICES ASSUME i + (k + 1) <= PopSize PROVE C[i] <= C[i + (k + 1)]
      OBVIOUS
    <3>1. /\ i + (k + 1) \in Idx /\ (i + (k + 1)) - 1 = i + k /\ i + k \in 0..PopSize
          /\ i + (k + 1) \in 0..PopSize
      OBVIOUS
    <3>2. C[i + (k + 1)] = C[i + k] + pop[i + (k + 1)]
      BY <1>4, <3>1
    <3>3. pop[i + (k + 1)] \in Nat /\ C[i] \in Nat /\ C[i + k] \in Nat /\ C[i] <= C[i + k]
      BY <1>3, <2>2, <3>1 DEF Scores
    <3> QED BY <3>2, <3>3
  <2>3. Nat \subseteq T
    BY <2>1, <2>2, Induction
  <2>4. ASSUME NEW j \in i..PopSize PROVE C[i] <= C[j]
    <3>1. j - i \in Nat /\ i + (j - i) = j
      OBVIOUS
    <3>2. j - i \in T
      BY <2>3, <3>1
    <3> QED BY <3>1, <3>2
  <2> QED BY <2>4
<1>7. \A i, j \in 0..PopSize : i <= j => Cumulative(i) <= Cumulative(j)
  <2> SUFFICES ASSUME NEW i \in 0..PopSize, NEW j \in 0..PopSize, i <= j
               PROVE  Cumulative(i) <= Cumulative(j)
    OBVIOUS
  <2>1. j \in i..PopSize
    OBVIOUS
  <2> QED BY <1>3, <1>6, <2>1
<1>8. Cumulative(0) = 0
  BY <1>2, <1>3 DEF SumsTo
<1> QED BY <1>3, <1>5, <1>7, <1>8

\* An individual is found for the choices of its own interval, and alone.
LEMMA SharesMatch ==
    ASSUME pop \in Scores, OverallFitness > 0, NEW i \in Idx
    PROVE  Cardinality({choice \in 1..OverallFitness : Found(choice) = {i}}) = pop[i]
<1>1. /\ OverallFitness \in Nat
      /\ \A j \in Idx : /\ Cumulative(j) \in Nat /\ Cumulative(j - 1) \in Nat
                        /\ Cumulative(j) = Cumulative(j - 1) + pop[j] /\ pop[j] \in Nat
                        /\ Cumulative(j) <= OverallFitness
      /\ Cumulative(1 - 1) = 0
      /\ \A j, k \in Idx : j < k => Cumulative(j) <= Cumulative(k - 1)
  <2>1. \A j \in Idx : j - 1 \in 0..PopSize /\ j \in 0..PopSize
    OBVIOUS
  <2>2. PopSize \in 0..PopSize /\ 1 - 1 = 0 /\ \A j, k \in Idx : j < k => j <= k - 1
    OBVIOUS
  <2>3. \A j \in Idx : j <= PopSize
    OBVIOUS
  <2> QED BY <2>1, <2>2, <2>3, CumulativeRises DEF OverallFitness, Scores
<1>2. ASSUME NEW choice \in 1..OverallFitness
      PROVE  Found(choice) = {i} <=> choice \in (Cumulative(i - 1) + 1)..Cumulative(i)
  <2>1. \A j \in Idx : j \in Found(choice) <=> Cumulative(j - 1) < choice /\ choice <= Cumulative(j)
    BY <1>1 DEF Found
  <2>2. \A j, k \in Found(choice) : ~(j < k)
    <3>1. Found(choice) \subseteq Idx
      BY DEF Found
    <3> QED BY <1>1, <2>1, <3>1
  <2>3. \A j \in Found(choice) : j \in Idx
    BY DEF Found
  <2>4. Found(choice) = {i} <=> i \in Found(choice)
    BY <2>2, <2>3
  <2> QED BY <1>1, <2>1, <2>4
<1> DEFINE share == (Cumulative(i - 1) + 1)..Cumulative(i)
<1>3. share \subseteq 1..OverallFitness
  BY <1>1
<1>4. {choice \in 1..OverallFitness : Found(choice) = {i}} = share
  BY <1>2, <1>3
<1>5. Cardinality(share) = pop[i]
  <2>1. PICK a \in Nat, b \in Nat : a = Cumulative(i - 1) /\ b = Cumulative(i) /\ b = a + pop[i]
    BY <1>1
  <2>2. a + 1 \in Int /\ b \in Int
    OBVIOUS
  <2>3. Cardinality((a + 1)..b) = IF a + 1 > b THEN 0 ELSE b - (a + 1) + 1
    BY <2>2, FS_Interval
  <2>4. pop[i] \in Nat
    BY <1>1
  <2> QED BY <2>1, <2>3, <2>4
<1> QED BY <1>4, <1>5

-----------------------------------------------------------------------------
(* Elites.                                                                 *)

\* h[k] are the elites when k individuals have been considered.
ElitesSoFar(h) ==
    h[0] = [i \in 1..Elites |-> i] /\ \A k \in Idx : h[k] = Consider(h[k - 1], k)

\* f is what EliteIndexes folds the individuals with.
SolvesElites(f) ==
    f = [s \in SUBSET (DOMAIN [i \in Idx |-> i]) |->
           IF s = {} THEN [i \in 1..Elites |-> i]
           ELSE Consider(f[s \ {Max(s)}], [i \in Idx |-> i][Max(s)])]

\* EliteIndexes is the fold of such an f, if there is one.
LEMMA ElitesUnfold ==
    ASSUME \E f : SolvesElites(f)
    PROVE  \E f : SolvesElites(f) /\ EliteIndexes = f[DOMAIN [i \in Idx |-> i]]
BY DEF SolvesElites, EliteIndexes, FoldLeft, MapThenFoldSet

\* There is one, and it lays out the elites step by step.
LEMMA ElitesFold == \E h : ElitesSoFar(h) /\ EliteIndexes = h[PopSize]
<1> DEFINE A == [1..Elites -> Idx]
           first == [i \in 1..Elites |-> i]
           g == [p \in Idx \X A |-> Consider(p[2], p[1])]
           d == [i \in Idx |-> i]
<1>1. first \in A
  OBVIOUS
<1>2. g \in [Idx \X A -> A]
  <2>1. ASSUME NEW values \in A, NEW ind \in Idx PROVE Consider(values, ind) \in A
    <3>1. \A m : [values EXCEPT ![m] = ind] \in A
      OBVIOUS
    <3> QED BY <3>1 DEF Consider
  <2> QED BY <2>1
<1>3. PICK e \in [SUBSET Idx -> A] : FoldsTo(e, PopSize, first, g)
  BY <1>1, <1>2, FoldExists DEF Foldable
<1>4. SolvesElites(e)
  <2>1. ASSUME NEW s \in SUBSET Idx, s # {}
        PROVE  g[<<Max(s), e[s \ {Max(s)}]>>] = Consider(e[s \ {Max(s)}], d[Max(s)])
    <3>1. Max(s) \in Idx /\ s \ {Max(s)} \in SUBSET Idx
      BY <2>1, Ends
    <3> QED BY <3>1
  <2> QED BY <1>3, <2>1 DEF FoldsTo, SolvesElites
<1>5. PICK f : SolvesElites(f) /\ EliteIndexes = f[DOMAIN d]
  BY <1>4, ElitesUnfold
<1>6. /\ f = [s \in SUBSET Idx |-> IF s = {} THEN first ELSE Consider(f[s \ {Max(s)}], d[Max(s)])]
      /\ EliteIndexes = f[Idx]
  BY <1>5 DEF SolvesElites
<1> DEFINE h == [k \in 0..PopSize |-> f[1..k]]
<1>7. h[0] = first
  <2>1. 1..0 = {} /\ 1..0 \in SUBSET Idx
    OBVIOUS
  <2> QED BY <1>6, <2>1
<1>8. ASSUME NEW k \in Idx PROVE h[k] = Consider(h[k - 1], k)
  <2>1. /\ 1..k \in SUBSET Idx /\ 1..k # {}
        /\ Max(1..k) = k /\ (1..k) \ {k} = 1..(k - 1)
    BY FoldLast
  <2>2. f[1..k] = Consider(f[(1..k) \ {Max(1..k)}], d[Max(1..k)])
    BY <1>6, <2>1
  <2>3. d[k] = k
    OBVIOUS
  <2>4. f[1..k] = Consider(f[1..(k - 1)], k)
    BY <2>1, <2>2, <2>3, Zenon
  <2>5. h[k] = f[1..k] /\ h[k - 1] = f[1..(k - 1)]
    OBVIOUS
  <2> QED BY <2>4, <2>5, Zenon
<1>9. h[PopSize] = f[Idx]
  OBVIOUS
<1> QED BY <1>6, <1>7, <1>8, <1>9 DEF ElitesSoFar

\* Of individuals in order the elites are as good as the first, place by place.
LEMMA ElitesAreBest ==
    ASSUME pop \in Scores, Descending(pop)
    PROVE  /\ EliteIndexes \in [1..Elites -> Idx]
           /\ \A i \in 1..Elites : pop[EliteIndexes[i]] = pop[i]
<1> DEFINE first == [i \in 1..Elites |-> i]
           Kept(values) == /\ values \in [1..Elites -> Idx]
                           /\ \A i \in 1..Elites : pop[values[i]] = pop[i]
<1>1. PICK h : ElitesSoFar(h) /\ EliteIndexes = h[PopSize]
  BY ElitesFold
<1>2. ASSUME NEW k \in 1..Elites PROVE Consider(first, k) = first
  <2>1. k \in Range(first)
    <3>1. k \in DOMAIN first /\ first[k] = k
      OBVIOUS
    <3> QED BY <3>1 DEF Range
  <2> QED BY <2>1 DEF Consider
<1>3. ASSUME NEW values, Kept(values), NEW k \in Idx, k > Elites PROVE Kept(Consider(values, k))
  <2> DEFINE beaten == {i \in 1..Elites : pop[k] >= pop[values[i]]}
  <2>1. CASE beaten = {} \/ k \in Range(values)
    BY <1>3, <2>1 DEF Consider
  <2>2. CASE ~(beaten = {} \/ k \in Range(values))
    <3>1. Consider(values, k) = [values EXCEPT ![Min(beaten)] = k]
      BY <2>2 DEF Consider
    <3>2. beaten \in SUBSET (1..Elites) /\ Elites \in Nat
      OBVIOUS
    <3>3. PICK m \in 1..Elites : m = Min(beaten) /\ m \in beaten
      BY <2>2, <3>2, Ends
    <3>4. pop[k] >= pop[m]
      BY <1>3, <3>3
    <3>5. m \in Idx /\ m < k /\ pop[m] \in Nat /\ pop[k] \in Nat
      BY <1>3 DEF Scores
    <3>6. pop[m] >= pop[k]
      BY <3>5 DEF Descending
    <3>7. pop[k] = pop[m]
      BY <3>4, <3>5, <3>6
    <3>8. Kept([values EXCEPT ![m] = k])
      BY <1>3, <3>7
    <3> QED BY <3>1, <3>3, <3>8
  <2> QED BY <2>1, <2>2
<1>4. Kept(first)
  OBVIOUS
<1> DEFINE Good(k) == Kept(h[k]) /\ (k <= Elites => h[k] = first)
           T == {k \in Nat : k <= PopSize => Good(k)}
<1> HIDE DEF Kept, first
<1>5. 0 \in T
  BY <1>1, <1>4 DEF ElitesSoFar, first
<1>6. ASSUME NEW k \in Nat, k \in T PROVE k + 1 \in T
  <2> SUFFICES ASSUME k + 1 <= PopSize PROVE Good(k + 1)
    OBVIOUS
  <2>1. Good(k) /\ k + 1 \in Idx /\ (k + 1) - 1 = k
    BY <1>6
  <2>2. h[k + 1] = Consider(h[k], k + 1)
    BY <1>1, <2>1 DEF ElitesSoFar
  <2>3. CASE k + 1 <= Elites
    <3>1. k + 1 \in 1..Elites /\ h[k] = first
      BY <2>1, <2>3
    <3> QED BY <1>2, <1>4, <2>2, <3>1
  <2>4. CASE k + 1 > Elites
    <3>1. ~(k + 1 <= Elites) /\ Kept(h[k])
      BY <2>1, <2>4
    <3> QED BY <1>3, <2>1, <2>2, <2>4, <3>1
  <2> QED BY <2>3, <2>4
<1>7. PopSize \in T
  BY <1>5, <1>6, Induction
<1>8. Kept(h[PopSize])
  BY <1>7
<1> QED BY <1>1, <1>8 DEF Kept

-----------------------------------------------------------------------------
(* The inductive invariant.                                                *)

\* What a strategy of the library returns is an individual.
LEMMA SelectedIsOne ==
    ASSUME pop \in Scores
    PROVE  Selected \subseteq Idx
<1>1. SelectBest \subseteq Idx
  <2>1. ASSUME NEW index \in 0..(PopSize - 1) PROVE (index % PopSize) + 1 \in Idx
    <3>1. index % PopSize \in 0..(PopSize - 1)
      BY Around
    <3> QED BY <3>1
  <2> QED BY <2>1 DEF SelectBest
<1>2. SelectTournament \subseteq Idx
  BY WinnerBeats
<1>3. \A choice : Proportionate(choice) \in Idx
  <2> SUFFICES ASSUME NEW choice PROVE Proportionate(choice) \in Idx
    OBVIOUS
  <2>1. CASE Found(choice) = {}
    BY <2>1 DEF Proportionate
  <2>2. CASE Found(choice) # {}
    <3>1. Found(choice) \in SUBSET Idx
      BY DEF Found
    <3>2. Min(Found(choice)) \in Found(choice)
      BY <2>2, <3>1, Ends
    <3> QED BY <2>2, <3>1, <3>2 DEF Proportionate
  <2> QED BY <2>1, <2>2
<1> QED BY <1>1, <1>2, <1>3 DEF Selected, SelectRandom, SelectProportionate

\* What the variables hold.
Typed ==
    /\ service \in {"generational", "steady"}
    /\ pop \in [Idx -> Fitness] /\ next \in [Idx -> Fitness]
    /\ filled \in 0..PopSize
    /\ phase \in {"unscored", "scored", "breeding"}
    /\ left \in 0..Replacement /\ worst \in 0..(PopSize - 1) /\ gaveUp \in 0..MaxGiveUps

\* A scored population is sorted.
InOrder == phase # "unscored" => Descending(pop)

\* The first of the next population are as good as the first of the current one.
ElitesCopied ==
    service = "generational" /\ phase = "breeding" =>
        filled >= Elites /\ \A i \in 1..Elites : next[i] = pop[i]

\* How often the steady state service has chosen an individual to replace, at most.
Attempts == Replacement - left + gaveUp

\* What it has replaced are the last individuals, before it has gone once around.
WorstReplaced ==
    service = "steady" /\ phase = "breeding" /\ Attempts < PopSize =>
        worst <= Attempts /\ \A i \in 1..(PopSize - worst) : next[i] = pop[i]

IInv == Typed /\ InOrder /\ ElitesCopied /\ WorstReplaced

\* Fitness is a natural number.
LEMMA ScoresHold ==
    ASSUME Typed
    PROVE  pop \in Scores /\ next \in Scores
BY DEF Typed, Scores

\* The first populations.
LEMMA InitKeeps ==
    ASSUME Init
    PROVE  IInv
BY DEF Init, IInv, Typed, InOrder, ElitesCopied, WorstReplaced

\* Sorting keeps the type and gives the order.
LEMMA EvaluateKeeps ==
    ASSUME IInv, Evaluate
    PROVE  IInv'
<1>1. PICK order \in Orders : /\ Descending([i \in Idx |-> pop[order[i]]])
                              /\ pop' = [i \in Idx |-> pop[order[i]]]
  BY DEF Evaluate
<1>2. order \in [Idx -> Idx] /\ pop \in [Idx -> Fitness]
  BY <1>1 DEF Orders, IInv, Typed
<1>3. pop' \in [Idx -> Fitness]
  BY <1>1, <1>2
<1>4. Descending(pop)'
  BY <1>1 DEF Descending
<1> QED BY <1>3, <1>4 DEF Evaluate, steadyVars, IInv, Typed, InOrder, ElitesCopied, WorstReplaced

\* The elites are as good as the first of the sorted population.
LEMMA PerformElitismKeeps ==
    ASSUME IInv, PerformElitism
    PROVE  IInv'
<1>1. /\ Typed /\ Descending(pop) /\ service = "generational"
  BY DEF IInv, InOrder, PerformElitism
<1>2. /\ EliteIndexes \in [1..Elites -> Idx]
      /\ \A i \in 1..Elites : pop[EliteIndexes[i]] = pop[i]
  BY <1>1, ScoresHold, ElitesAreBest
<1>3. pop \in [Idx -> Fitness] /\ next \in [Idx -> Fitness]
  BY <1>1 DEF Typed
<1>4. next' = [i \in Idx |-> IF i <= Elites THEN pop[EliteIndexes[i]] ELSE next[i]]
  BY DEF PerformElitism
<1>5. next' \in [Idx -> Fitness] /\ \A i \in 1..Elites : next'[i] = pop[i]
  <2>1. \A i \in Idx : i <= Elites => i \in 1..Elites
    OBVIOUS
  <2>2. \A i \in 1..Elites : i \in Idx /\ i <= Elites
    OBVIOUS
  <2>3. \A i \in Idx : i <= Elites => pop[EliteIndexes[i]] \in Fitness
    BY <1>2, <1>3, <2>1
  <2> QED BY <1>2, <1>3, <1>4, <2>2, <2>3
<1>6. /\ pop' = pop /\ service' = "generational" /\ filled' = Elites /\ phase' = "breeding"
      /\ left' = left /\ worst' = worst /\ gaveUp' = gaveUp
  BY <1>1 DEF PerformElitism, steadyVars
<1>7. Typed'
  BY <1>1, <1>5, <1>6 DEF Typed
<1>8. InOrder'
  BY <1>1, <1>6 DEF InOrder, Descending
<1>9. ElitesCopied' /\ WorstReplaced'
  BY <1>5, <1>6 DEF ElitesCopied, WorstReplaced
<1> QED BY <1>7, <1>8, <1>9 DEF IInv

\* Children go behind the elites.
LEMMA FillKeeps ==
    ASSUME IInv, NEW tree \in Fitness, Fill(tree)
    PROVE  IInv'
<1>1. /\ filled + 1 \in 1..PopSize /\ filled + 1 > Elites
      /\ \A i \in 1..Elites : next[i] = pop[i]
  BY DEF IInv, Typed, ElitesCopied, Fill
<1>2. next' = [next EXCEPT ![filled + 1] = tree] /\ next \in [Idx -> Fitness]
  BY DEF Fill, IInv, Typed
<1>3. next' \in [Idx -> Fitness] /\ \A i \in 1..Elites : next'[i] = pop[i]
  BY <1>1, <1>2
<1> QED BY <1>1, <1>3
        DEF Fill, steadyVars, IInv, Typed, InOrder, ElitesCopied, WorstReplaced, Descending

\* The populations change places.
LEMMA NextGenerationKeeps ==
    ASSUME IInv, NextGeneration
    PROVE  IInv'
BY DEF NextGeneration, IInv, Typed, InOrder, ElitesCopied, WorstReplaced

\* The steady state service starts with a copy.
LEMMA StartSteadyKeeps ==
    ASSUME IInv, StartSteady
    PROVE  IInv'
<1>1. Typed /\ Descending(pop)
  BY DEF IInv, InOrder, StartSteady
<1>2. Typed' /\ InOrder' /\ ElitesCopied'
  BY <1>1 DEF StartSteady, Typed, InOrder, ElitesCopied, Descending
<1>3. WorstReplaced'
  <2>1. worst' = 0 /\ left' = Replacement /\ gaveUp' = gaveUp /\ next' = pop /\ pop' = pop
    BY DEF StartSteady
  <2>2. Attempts' >= 0
    BY <1>1, <2>1 DEF Attempts, Typed
  <2> QED BY <2>1, <2>2 DEF WorstReplaced
<1> QED BY <1>2, <1>3 DEF IInv

\* The strategy goes once around, or not at all, to find the second child.
LEMMA SecondIsFirst ==
    ASSUME worst \in 0..(PopSize - 1)
    PROVE  (worst + 1 + SelectsForC2) % PopSize = (worst + 1) % PopSize
<1>1. CASE left > 1
  <2>1. ASSUME NEW n \in 1..PopSize
        PROVE  SelectWorst(worst + n) = SelectWorst(worst) <=> n = PopSize
    <3>1. worst + n \in Nat /\ worst + n < PopSize + PopSize /\ worst \in Nat /\ worst < PopSize
      OBVIOUS
    <3>2. worst % PopSize = worst
      BY <3>1, Around
    <3>3. /\ worst + n < PopSize => (worst + n) % PopSize = worst + n
          /\ PopSize <= worst + n => (worst + n) % PopSize = worst + n - PopSize
      <4>1. PICK m \in Nat : m = worst + n
        BY <3>1
      <4>2. /\ m < PopSize => m % PopSize = m
            /\ PopSize <= m /\ m < PopSize + PopSize => m % PopSize = m - PopSize
        BY Around
      <4> QED BY <3>1, <4>1, <4>2
    <3>4. (worst + n) % PopSize \in Int
      BY <3>1, Around
    <3>5. (worst + n) % PopSize = worst <=> n = PopSize
      BY <3>1, <3>3
    <3> QED BY <3>1, <3>2, <3>4, <3>5 DEF SelectWorst
  <2>2. PopSize \in 1..PopSize
    OBVIOUS
  <2>3. SelectsForC2 = PopSize
    BY <1>1, <2>1, <2>2 DEF SelectsForC2
  <2>4. CASE worst + 1 < PopSize
    <3>1. /\ worst + 1 \in Nat /\ worst + 1 + PopSize \in Nat
          /\ PopSize <= worst + 1 + PopSize /\ worst + 1 + PopSize < PopSize + PopSize
      BY <2>4
    <3>2. (worst + 1) % PopSize = worst + 1
      BY <2>4, <3>1, Around
    <3>3. (worst + 1 + PopSize) % PopSize = worst + 1 + PopSize - PopSize
      BY <3>1, Around
    <3> QED BY <2>3, <3>1, <3>2, <3>3
  <2>5. CASE worst + 1 = PopSize
    <3>1. (PopSize + PopSize) % PopSize = 0 /\ PopSize % PopSize = 0
      OBVIOUS
    <3> QED BY <2>3, <2>5, <3>1
  <2>6. worst + 1 < PopSize \/ worst + 1 = PopSize
    OBVIOUS
  <2> QED BY <2>4, <2>5, <2>6
<1>2. CASE ~(left > 1)
  BY <1>2 DEF SelectsForC2
<1> QED BY <1>1, <1>2

\* One individual is replaced, and counted by a crossover given up or by left.
LEMMA ReplaceKeeps ==
    ASSUME IInv, NEW tree \in Fitness, NEW by \in 0..2, by <= left, Replace(tree, by),
           gaveUp' \in 0..MaxGiveUps, by + gaveUp' > gaveUp
    PROVE  IInv'
<1>1. /\ Typed /\ InOrder /\ service = "steady" /\ phase = "breeding"
      /\ UNCHANGED <<service, pop, filled, phase>>
      /\ left \in 0..Replacement /\ worst \in 0..(PopSize - 1) /\ gaveUp \in 0..MaxGiveUps
      /\ left' = left - by
      /\ next \in [Idx -> Fitness]
  BY DEF IInv, Replace, Typed
<1>2. worst' = (worst + 1) % PopSize
  BY <1>1, SecondIsFirst DEF Replace
<1>3. worst' \in 0..(PopSize - 1)
  <2>1. worst + 1 \in Nat
    BY <1>1
  <2> QED BY <1>2, <2>1, Around
<1>4. SelectWorst(worst) = PopSize - worst
  <2>1. worst \in Nat /\ worst < PopSize
    BY <1>1
  <2>2. worst % PopSize = worst
    BY <2>1, Around
  <2> QED BY <2>2 DEF SelectWorst
<1>5. next' = [next EXCEPT ![PopSize - worst] = tree]
  BY <1>4 DEF Replace
<1>6. next' \in [Idx -> Fitness]
  BY <1>1, <1>5
<1>7. Typed'
  BY <1>1, <1>3, <1>6 DEF Typed
<1>8. ASSUME Attempts' < PopSize
      PROVE  worst' <= Attempts' /\ \A i \in 1..(PopSize - worst') : next'[i] = pop'[i]
  <2>1. Attempts < Attempts' /\ Attempts \in Int /\ Attempts' \in Int
    <3>1. /\ Replacement \in Int /\ left \in Int /\ by \in Int /\ gaveUp \in Int /\ gaveUp' \in Int
          /\ left' = left - by
      BY <1>1
    <3>2. Attempts = Replacement - left + gaveUp /\ Attempts' = Replacement - (left - by) + gaveUp'
      BY <3>1 DEF Attempts
    <3>3. \A a, b, c, d, e \in Int : b + e > d =>
            /\ c - a + d < c - (a - b) + e
            /\ c - a + d \in Int /\ c - (a - b) + e \in Int
      OBVIOUS
    <3>4. by + gaveUp' > gaveUp
      OBVIOUS
    <3> QED BY <3>1, <3>2, <3>3, <3>4, Zenon
  <2>2. worst <= Attempts /\ \A i \in 1..(PopSize - worst) : next[i] = pop[i]
    BY <1>1, <1>8, <2>1 DEF IInv, WorstReplaced
  <2>3. worst + 1 <= Attempts' /\ worst + 1 < PopSize
    BY <1>1, <1>8, <2>1, <2>2
  <2>4. worst' = worst + 1
    <3>1. worst + 1 \in Nat
      BY <1>1
    <3>2. (worst + 1) % PopSize = worst + 1
      BY <2>3, <3>1, Around
    <3> QED BY <1>2, <3>2
  <2>5. ASSUME NEW i \in 1..(PopSize - worst') PROVE next'[i] = pop'[i]
    <3>1. i \in Idx /\ i \in 1..(PopSize - worst) /\ i # PopSize - worst
      BY <1>1, <2>4
    <3> QED BY <1>1, <1>5, <2>2, <3>1
  <2> QED BY <2>3, <2>4, <2>5
<1>9. InOrder' /\ ElitesCopied'
  BY <1>1 DEF InOrder, ElitesCopied, Descending
<1> QED BY <1>7, <1>8, <1>9 DEF IInv, WorstReplaced

\* Every step keeps the invariant.
LEMMA StepKeeps ==
    ASSUME IInv, [Next]_vars
    PROVE  IInv'
<1>1. /\ pop \in [Idx -> Fitness] /\ Selected \subseteq Idx
      /\ gaveUp \in 0..MaxGiveUps /\ left \in Nat
  BY ScoresHold, SelectedIsOne DEF IInv, Typed
<1>2. CASE Evaluate
  BY <1>2, EvaluateKeeps
<1>3. CASE PerformElitism
  BY <1>3, PerformElitismKeeps
<1>4. CASE Vary
  BY <1>4, FillKeeps DEF Vary
<1>5. CASE Reproduce
  BY <1>1, <1>5, FillKeeps DEF Reproduce
<1>6. CASE NextGeneration
  BY <1>6, NextGenerationKeeps
<1>7. CASE StartSteady
  BY <1>7, StartSteadyKeeps
<1>8. CASE SteadyCrossover
  <2>1. PICK f \in Fitness, by \in {1, 2} : Replace(f, by) /\ by <= left /\ gaveUp' = gaveUp
    <3>1. PICK f \in Fitness : Replace(f, IF left > 1 THEN 2 ELSE 1)
      BY <1>8 DEF SteadyCrossover
    <3>2. left > 0 /\ gaveUp' = gaveUp
      BY <1>8, <3>1 DEF SteadyCrossover, Replace
    <3>3. CASE left > 1
      <4>1. Replace(f, 2) /\ 2 <= left
        BY <1>1, <3>1, <3>3
      <4> QED BY <3>2, <4>1
    <3>4. CASE ~(left > 1)
      <4>1. Replace(f, 1) /\ 1 <= left
        BY <1>1, <3>1, <3>2, <3>4
      <4> QED BY <3>2, <4>1
    <3> QED BY <3>3, <3>4
  <2> QED BY <1>1, <2>1, ReplaceKeeps
<1>9. CASE SteadyMutation
  <2>1. PICK f \in Fitness : Replace(f, 1) /\ gaveUp' = gaveUp
    BY <1>9 DEF SteadyMutation
  <2>2. 1 <= left
    BY <1>1, <2>1 DEF Replace
  <2> QED BY <1>1, <2>1, <2>2, ReplaceKeeps
<1>10. CASE SteadyReproduction
  <2>1. PICK tree \in Fitness, by \in {1} : Replace(tree, by) /\ by <= left /\ gaveUp' = gaveUp
    <3>1. PICK i \in Selected : Replace(pop[i], 1) /\ gaveUp' = gaveUp
      BY <1>10 DEF SteadyReproduction
    <3>2. 1 <= left /\ pop[i] \in Fitness
      BY <1>1, <3>1 DEF Replace
    <3> QED BY <3>1, <3>2
  <2> QED BY <1>1, <2>1, ReplaceKeeps
<1>11. CASE SteadyGiveUp
  <2>1. PICK tree \in Fitness, by \in {0} :
          Replace(tree, by) /\ by <= left /\ gaveUp' = gaveUp + 1 /\ gaveUp < MaxGiveUps
    <3>1. PICK i \in Selected : Replace(pop[i], 0) /\ gaveUp' = gaveUp + 1 /\ gaveUp < MaxGiveUps
      BY <1>11 DEF SteadyGiveUp
    <3>2. 0 <= left /\ pop[i] \in Fitness
      BY <1>1
    <3> QED BY <3>1, <3>2
  <2>2. gaveUp' \in 0..MaxGiveUps
    BY <1>1, <2>1
  <2> QED BY <1>1, <2>1, <2>2, ReplaceKeeps
<1>12. CASE UNCHANGED vars
  BY <1>12 DEF vars, IInv, Typed, InOrder, ElitesCopied, WorstReplaced, Attempts, Descending
<1> QED BY <1>2, <1>3, <1>4, <1>5, <1>6, <1>7, <1>8, <1>9, <1>10, <1>11, <1>12 DEF Next

-----------------------------------------------------------------------------
(* The theorems.                                                           *)

\* Reachable states are typed; scored populations are sorted; elites are
\* copied before anything is bred; and what the steady state service has
\* replaced are the worst.
THEOREM InvariantHolds == Spec => []IInv
<1>1. Init => IInv
  BY InitKeeps
<1>2. IInv /\ [Next]_vars => IInv'
  BY StepKeeps
<1> QED BY <1>1, <1>2, PTL DEF Spec

\* Whoever wins a tournament is as good as as many individuals as it has
\* places, in any population and for any size of the tournament.
THEOREM WinnersBeatTheField == Spec => []WinnerBeatsTheField
<1>1. ASSUME IInv PROVE WinnerBeatsTheField
  BY <1>1, ScoresHold, WinnerBeats DEF IInv, WinnerBeatsTheField, Places
<1> QED BY <1>1, InvariantHolds, PTL

\* select_fitness_proportionate_t gives every individual of any population the
\* share of the choices that is its share of the fitness.
THEOREM SharesAreFitness == Spec => []SharesMatchFitness
<1>1. ASSUME IInv PROVE SharesMatchFitness
  BY <1>1, ScoresHold, SharesMatch DEF IInv, SharesMatchFitness
<1> QED BY <1>1, InvariantHolds, PTL

\* Individuals that agree with the first n of a sorted population keep its ranks
\* up to n.
LEMMA RanksKept ==
    ASSUME pop \in Scores, Descending(pop), NEW new \in Scores, NEW n \in 0..PopSize,
           \A i \in 1..n : new[i] = pop[i],
           NEW k \in 1..n, NEW f \in Nat, Reaching(pop, f) >= k
    PROVE  Reaching(new, f) >= k
<1> DEFINE reach(individuals) == {i \in Idx : individuals[i] >= f}
<1>1. IsFiniteSet(Idx) /\ k \in Idx
  BY FS_Interval
<1>2. IsFiniteSet(reach(new)) /\ Cardinality(reach(new)) \in Nat
  BY <1>1, FS_Subset, FS_CardinalityType
<1>3. CASE pop[k] >= f
  <2>1. ASSUME NEW i \in 1..k PROVE i \in reach(new)
    <3>1. i \in Idx /\ i \in 1..n /\ pop[i] \in Nat /\ pop[k] \in Nat /\ (i = k \/ i < k)
      BY <1>1 DEF Scores
    <3>2. pop[i] >= pop[k]
      BY <1>1, <3>1 DEF Descending
    <3> QED BY <1>3, <3>1, <3>2
  <2>2. (1..k) \in SUBSET reach(new)
    BY <2>1
  <2>3. Cardinality(1..k) <= Cardinality(reach(new))
    BY <1>2, <2>2, FS_Subset
  <2>4. Cardinality(1..k) = k
    BY FS_Interval
  <2> QED BY <1>2, <2>3, <2>4 DEF Reaching
<1>4. CASE ~(pop[k] >= f)
  <2>1. ASSUME NEW i \in reach(pop) PROVE i \in 1..(k - 1)
    <3>1. i \in Idx /\ pop[i] >= f /\ pop[i] \in Nat /\ pop[k] \in Nat
      BY <1>1 DEF Scores
    <3>2. k < i => pop[k] >= pop[i]
      BY <1>1, <3>1 DEF Descending
    <3> QED BY <1>4, <3>1, <3>2
  <2>2. reach(pop) \in SUBSET (1..(k - 1))
    BY <2>1
  <2>3. IsFiniteSet(1..(k - 1)) /\ Cardinality(1..(k - 1)) = k - 1
    BY FS_Interval
  <2>4. Cardinality(reach(pop)) <= k - 1
    BY <2>2, <2>3, FS_Subset
  <2>5. Cardinality(reach(pop)) \in Nat
    BY <2>2, <2>3, FS_Subset, FS_CardinalityType
  <2> QED BY <2>4, <2>5 DEF Reaching
<1> QED BY <1>3, <1>4

\* No generation of any size loses one of its best, whatever is bred behind the
\* elites.
THEOREM BestKept == Spec => BestAreKept
<1>1. ASSUME IInv, NextGeneration, service = "generational",
             NEW k \in 1..Elites, NEW f \in Fitness, Reaching(pop, f) >= k
      PROVE  Reaching(pop', f) >= k
  <2>1. /\ pop' = next /\ pop \in Scores /\ next \in Scores /\ Descending(pop)
        /\ \A i \in 1..Elites : next[i] = pop[i]
    BY <1>1, ScoresHold DEF NextGeneration, IInv, InOrder, ElitesCopied
  <2>2. Reaching(next, f) >= k
    BY <1>1, <2>1, RanksKept
  <2> QED BY <2>1, <2>2
<1>2. IInv => [NextGeneration /\ service = "generational" =>
                  \A k \in 1..Elites, f \in Fitness :
                      Reaching(pop, f) >= k => Reaching(pop', f) >= k]_vars
  BY <1>1
<1> QED BY <1>2, InvariantHolds, PTL DEF BestAreKept

\* A steady state generation of any size loses no more of the best than it
\* was asked to replace and than crossovers gave up.
THEOREM SteadyKeepsBest == Spec => SteadyKeepsTheBest
<1>1. ASSUME IInv, NextGeneration, service = "steady",
             NEW k \in 1..(PopSize - Replacement - gaveUp), NEW f \in Fitness,
             Reaching(pop, f) >= k
      PROVE  Reaching(pop', f) >= k
  <2>1. /\ pop' = next /\ left = 0 /\ phase = "breeding"
        /\ pop \in Scores /\ next \in Scores /\ Descending(pop)
        /\ worst \in 0..(PopSize - 1) /\ gaveUp \in Nat
    BY <1>1, ScoresHold DEF NextGeneration, IInv, InOrder, Typed
  <2>2. Attempts = Replacement + gaveUp /\ Attempts < PopSize
    BY <1>1, <2>1 DEF Attempts
  <2>3. worst <= Attempts /\ \A i \in 1..(PopSize - worst) : next[i] = pop[i]
    BY <1>1, <2>1, <2>2 DEF IInv, WorstReplaced
  <2>4. PopSize - worst \in 0..PopSize /\ k \in 1..(PopSize - worst) /\ f \in Nat
    BY <2>1, <2>2, <2>3
  <2>5. Reaching(next, f) >= k
    BY <1>1, <2>1, <2>3, <2>4, RanksKept
  <2> QED BY <2>1, <2>5
<1>2. IInv => [NextGeneration /\ service = "steady" =>
                  \A k \in 1..(PopSize - Replacement - gaveUp), f \in Fitness :
                      Reaching(pop, f) >= k => Reaching(pop', f) >= k]_vars
  BY <1>1
<1> QED BY <1>2, InvariantHolds, PTL DEF SteadyKeepsTheBest

=============================================================================
