--------------------------- MODULE SequenceLemmas ---------------------------
(***************************************************************************)
(* What the modules with theorems need to know of sequences of any length: *)
(* where the elements of FlattenSeq lie, how often an element occurs in a  *)
(* sequence that is cut, joined, reversed or changed, and in a family of   *)
(* sequences, and how a fold goes on.  The induction rests on the least    *)
(* element of a set of numbers, which the library gives without an         *)
(* operator for a parameter.                                               *)
(***************************************************************************)
EXTENDS Integers, Sequences, SequencesExt, FiniteSetTheorems, WellFoundedInduction, TLAPS

\* A set of numbers that is not empty has a least one.
LEMMA LeastNumber ==
    ASSUME NEW T, T \subseteq Nat, T # {}
    PROVE  \E x \in T : \A y \in T : x <= y
<1> DEFINE F == {0..n : n \in T}
<1>1. F \subseteq FiniteSubsetsOf(Nat) /\ F # {}
  <2> SUFFICES ASSUME NEW U \in F PROVE U \in FiniteSubsetsOf(Nat)
    OBVIOUS
  <2>1. PICK n \in T : U = 0..n
    OBVIOUS
  <2>2. n \in Int /\ 0..n \subseteq Nat
    BY <2>1
  <2>3. IsFiniteSet(0..n)
    BY <2>2, FS_Interval
  <2> QED BY <2>1, <2>2, <2>3 DEF FiniteSubsetsOf
<1>2. PICK U \in F : \A V \in F : ~(<<V, U>> \in StrictSubsetOrdering(Nat))
  BY <1>1, FS_StrictSubsetOrderingWellFounded, WFMin
<1>3. PICK x \in T : U = 0..x
  OBVIOUS
<1>4. ASSUME NEW y \in T, y < x PROVE FALSE
  <2>1. (0..y) \subseteq (0..x) /\ 0..y # 0..x
     BY <1>4
  <2>2. 0..y \in F
    OBVIOUS
  <2>3. <<0..y, U>> \in StrictSubsetOrdering(Nat)
    BY <2>1, <1>3 DEF StrictSubsetOrdering
  <2> QED BY <1>2, <2>2, <2>3
<1> QED BY <1>4

\* A set that holds 0, and with each number the next, holds them all.
LEMMA Induction ==
    ASSUME NEW T, 0 \in T, \A n \in Nat : n \in T => n + 1 \in T
    PROVE  Nat \subseteq T
<1> SUFFICES ASSUME Nat \ T # {} PROVE FALSE
  OBVIOUS
<1>1. PICK x \in Nat \ T : \A y \in Nat \ T : x <= y
  BY LeastNumber
<1>2. x # 0 /\ x - 1 \in Nat /\ x - 1 < x
  BY <1>1
<1>3. x - 1 \in T
  BY <1>1, <1>2
<1> QED BY <1>2, <1>3

-----------------------------------------------------------------------------
(* FlattenSeq.                                                             *)

\* f[i] is what the first i sequences flatten to.
Steps(seqs, f, n) == f = [i \in 1..n |-> IF i = 1 THEN seqs[i] ELSE f[i - 1] \o seqs[i]]

\* The sequences up to each one can be joined.
LEMMA FlattenExists ==
    ASSUME NEW seqs
    PROVE  \A n \in Nat : \E f : Steps(seqs, f, n)
<1> DEFINE T == {n \in Nat : \E f : Steps(seqs, f, n)}
<1>1. 0 \in T
  <2>1. Steps(seqs, [i \in 1..0 |-> i], 0)
    BY DEF Steps
  <2> QED BY <2>1
<1>2. ASSUME NEW n \in Nat, n \in T PROVE n + 1 \in T
  <2>1. PICK f : Steps(seqs, f, n)
    BY <1>2
  <2> DEFINE g == [i \in 1..(n + 1) |-> IF i = 1 THEN seqs[i] ELSE f[i - 1] \o seqs[i]]
  <2>2. ASSUME NEW i \in 1..(n + 1), i # 1 PROVE g[i - 1] = f[i - 1]
    <3>1. i - 1 \in 1..n /\ i - 1 \in 1..(n + 1)
      BY <2>2
    <3> QED BY <2>1, <3>1 DEF Steps
  <2>3. Steps(seqs, g, n + 1)
    BY <2>2 DEF Steps
  <2> QED BY <2>3
<1> QED BY <1>1, <1>2, Induction

\* FlattenSeq joins them in order.
LEMMA Flattened ==
    ASSUME NEW seqs, Len(seqs) \in Nat \ {0}
    PROVE  \E f : Steps(seqs, f, Len(seqs)) /\ FlattenSeq(seqs) = f[Len(seqs)]
<1>1. \E f : f = [i \in 1..Len(seqs) |-> IF i = 1 THEN seqs[i] ELSE f[i - 1] \o seqs[i]]
  BY FlattenExists DEF Steps
<1> QED BY <1>1 DEF FlattenSeq, Steps

\* A sequence is its elements.
LEMMA SameElements ==
    ASSUME NEW V, NEW s \in Seq(V), NEW t \in Seq(V), Len(s) = Len(t),
           \A k \in 1..Len(s) : s[k] = t[k]
    PROVE  s = t
OBVIOUS

\* A sequence behind another one.
LEMMA Joined ==
    ASSUME NEW V, NEW s \in Seq(V), NEW t \in Seq(V)
    PROVE  /\ s \o t \in Seq(V) /\ Len(s \o t) = Len(s) + Len(t) /\ Len(s) \in Nat
           /\ \A k \in 1..Len(s) : (s \o t)[k] = s[k]
           /\ \A k \in 1..Len(t) : (s \o t)[Len(s) + k] = t[k]
OBVIOUS

\* The i-th sequence lies in s behind start[i].
LaidIn(seqs, start, i, s) ==
    /\ start[i] \in Nat
    /\ start[i] + Len(seqs[i]) <= Len(s)
    /\ \A x \in 1..Len(seqs[i]) : s[start[i] + x] = seqs[i][x]

\* One more sequence is laid behind those before.
LEMMA LaidFurther ==
    ASSUME NEW V, NEW k \in Nat, NEW seqs, NEW start, NEW s \in Seq(V),
           seqs[k + 1] \in Seq(V), start[k + 1] = Len(s),
           \A i \in 1..k : Len(seqs[i]) \in Nat,
           \A i \in 1..k : LaidIn(seqs, start, i, s)
    PROVE  /\ s \o seqs[k + 1] \in Seq(V) /\ start[k + 1] \in Nat
           /\ Len(s \o seqs[k + 1]) = start[k + 1] + Len(seqs[k + 1])
           /\ \A i \in 1..(k + 1) : LaidIn(seqs, start, i, s \o seqs[k + 1])
<1> DEFINE u == s \o seqs[k + 1]
<1>1. /\ u \in Seq(V) /\ Len(u) = Len(s) + Len(seqs[k + 1])
      /\ Len(s) \in Nat /\ Len(seqs[k + 1]) \in Nat
      /\ \A x \in 1..Len(s) : u[x] = s[x]
      /\ \A x \in 1..Len(seqs[k + 1]) : u[Len(s) + x] = seqs[k + 1][x]
  BY Joined
<1> HIDE DEF u
<1>2. ASSUME NEW i \in 1..(k + 1) PROVE LaidIn(seqs, start, i, u)
  <2>1. CASE i = k + 1
    <3>1. /\ start[i] = Len(s) /\ Len(u) = Len(s) + Len(seqs[i])
          /\ Len(s) \in Nat /\ Len(seqs[i]) \in Nat
          /\ \A x \in 1..Len(seqs[i]) : u[Len(s) + x] = seqs[i][x]
      BY <1>1, <2>1
    <3>2. start[i] \in Nat /\ start[i] + Len(seqs[i]) <= Len(u)
      BY <3>1
    <3>3. \A x \in 1..Len(seqs[i]) : u[start[i] + x] = seqs[i][x]
      BY <3>1
    <3> QED BY <3>2, <3>3 DEF LaidIn
  <2>2. CASE i # k + 1
    <3>1. i \in 1..k
      BY <2>2
    <3>2. LaidIn(seqs, start, i, s) /\ Len(seqs[i]) \in Nat
      BY <3>1
    <3>3. \A x \in 1..Len(seqs[i]) : start[i] + x \in 1..Len(s)
      <4>1. start[i] \in Nat /\ start[i] + Len(seqs[i]) <= Len(s) /\ Len(s) \in Nat
        BY <1>1, <3>2 DEF LaidIn
      <4>2. Len(seqs[i]) \in Nat
        BY <3>2
      <4> QED BY <4>1, <4>2
    <3>4. start[i] \in Nat /\ start[i] + Len(seqs[i]) <= Len(u)
      <4>1. Len(seqs[k + 1]) \in Nat /\ Len(u) = Len(s) + Len(seqs[k + 1])
        BY <1>1
      <4>2. start[i] \in Nat /\ start[i] + Len(seqs[i]) <= Len(s) /\ Len(s) \in Nat
        BY <3>2 DEF LaidIn
      <4> QED BY <4>1, <4>2, <3>2
    <3>5. \A x \in 1..Len(seqs[i]) : u[start[i] + x] = seqs[i][x]
      <4>1. \A x \in 1..Len(seqs[i]) : s[start[i] + x] = seqs[i][x]
        BY <3>2 DEF LaidIn
      <4>2. \A x \in 1..Len(s) : u[x] = s[x]
        BY <1>1
      <4> QED BY <3>3, <4>1, <4>2
    <3> QED BY <3>4, <3>5 DEF LaidIn
  <2> QED BY <2>1, <2>2
<1> QED BY <1>1, <1>2 DEF u

\* The parts of what is flattened lie one after the other.
LEMMA FlattenLayout ==
    ASSUME NEW V, NEW seqs \in Seq(Seq(V)), Len(seqs) # 0
    PROVE  /\ FlattenSeq(seqs) \in Seq(V)
           /\ \E start \in [1..Len(seqs) -> Nat] :
                /\ start[1] = 0
                /\ \A i \in 1..Len(seqs) :
                     /\ LaidIn(seqs, start, i, FlattenSeq(seqs))
                     /\ i + 1 \in 1..Len(seqs) => start[i + 1] = start[i] + Len(seqs[i])
                     /\ i = Len(seqs) => Len(FlattenSeq(seqs)) = start[i] + Len(seqs[i])
<1> DEFINE n == Len(seqs)
<1>1. n \in Nat \ {0} /\ \A i \in 1..n : seqs[i] \in Seq(V) /\ Len(seqs[i]) \in Nat
  OBVIOUS
<1>2. PICK f : Steps(seqs, f, n) /\ FlattenSeq(seqs) = f[n]
  BY <1>1, Flattened
<1> HIDE DEF n
<1>3. /\ f[1] = seqs[1]
      /\ \A i \in 1..n : i + 1 \in 1..n => f[i + 1] = f[i] \o seqs[i + 1]
  <2>1. \A i \in 1..n : f[i] = IF i = 1 THEN seqs[i] ELSE f[i - 1] \o seqs[i]
    BY <1>2 DEF Steps
  <2>2. f[1] = seqs[1]
    BY <1>1, <2>1
  <2>3. ASSUME NEW i \in 1..n, i + 1 \in 1..n PROVE f[i + 1] = f[i] \o seqs[i + 1]
    <3>1. i + 1 # 1 /\ (i + 1) - 1 = i
      BY <1>1
    <3> QED BY <2>1, <2>3, <3>1
  <2> QED BY <2>2, <2>3
<1> DEFINE start == [i \in 1..n |-> IF i = 1 THEN 0 ELSE Len(f[i - 1])]
           Laid(k) == /\ f[k] \in Seq(V)
                      /\ start[k] \in Nat /\ Len(f[k]) = start[k] + Len(seqs[k])
                      /\ \A i \in 1..k : LaidIn(seqs, start, i, f[k])
           T == {k \in Nat : k \in 1..n => Laid(k)}
<1>4. start[1] = 0 /\ \A i \in 1..n : i + 1 \in 1..n => start[i + 1] = Len(f[i])
  <2>1. \A i \in 1..n : i + 1 \in 1..n => i + 1 # 1 /\ (i + 1) - 1 = i
    BY <1>1
  <2> QED BY <1>1, <2>1
<1> HIDE DEF start
<1>5. 0 \in T
  OBVIOUS
<1>6. ASSUME NEW k \in Nat, k \in T PROVE k + 1 \in T
  <2> SUFFICES ASSUME k + 1 \in 1..n PROVE Laid(k + 1)
    OBVIOUS
  <2>1. CASE k = 0
    <3>1. k + 1 = 1 /\ 1 \in 1..n /\ \A i \in 1..1 : i = 1
      BY <2>1
    <3>2. f[1] \in Seq(V) /\ Len(f[1]) = 0 + Len(seqs[1]) /\ Len(seqs[1]) \in Nat
      BY <1>1, <1>3, <3>1
    <3>3. LaidIn(seqs, start, 1, f[1])
      BY <1>3, <1>4, <3>2 DEF LaidIn
    <3> QED BY <1>4, <3>1, <3>2, <3>3
  <2>2. CASE k # 0
    <3>1. k \in 1..n /\ Laid(k)
      BY <1>1, <1>6, <2>2
    <3>2. f[k + 1] = f[k] \o seqs[k + 1] /\ start[k + 1] = Len(f[k])
      BY <1>3, <1>4, <3>1
    <3>3. /\ seqs[k + 1] \in Seq(V) /\ Len(seqs[k + 1]) \in Nat
          /\ f[k] \in Seq(V) /\ Len(f[k]) \in Nat
      BY <1>1, <3>1
    <3>4. \A i \in 1..k : Len(seqs[i]) \in Nat
      BY <1>1, <3>1
    <3>5. start[k + 1] = Len(f[k])
      BY <3>2
    <3> HIDE DEF T
    <3>6. /\ f[k] \o seqs[k + 1] \in Seq(V) /\ start[k + 1] \in Nat
          /\ Len(f[k] \o seqs[k + 1]) = start[k + 1] + Len(seqs[k + 1])
          /\ \A i \in 1..(k + 1) : LaidIn(seqs, start, i, f[k] \o seqs[k + 1])
      <4>1. \A i \in 1..k : LaidIn(seqs, start, i, f[k])
        BY <3>1
      <4> HIDE DEF Laid
      <4> QED BY <3>3, <3>4, <3>5, <4>1, LaidFurther
    <3> QED BY <3>2, <3>6
  <2> QED BY <2>1, <2>2
<1>7. \A k \in 1..n : Laid(k)
  <2> HIDE DEF Laid
  <2>1. Nat \subseteq T
    BY <1>5, <1>6, Induction
  <2> QED BY <2>1
<1>8. n \in 1..n /\ \A i \in 1..n : Laid(n) /\ Laid(i)
  BY <1>1, <1>7
<1>9. start \in [1..n -> Nat]
  <2>1. \A i \in 1..n : start[i] \in Nat
    BY <1>8
  <2> QED BY <2>1 DEF start
<1>10. \A i \in 1..n : i + 1 \in 1..n => start[i + 1] = start[i] + Len(seqs[i])
  BY <1>4, <1>8
<1> HIDE DEF T
<1>11. f[n] \in Seq(V) /\ Len(f[n]) = start[n] + Len(seqs[n])
       /\ \A i \in 1..n : LaidIn(seqs, start, i, f[n])
  BY <1>8
<1> HIDE DEF Laid
<1> QED BY <1>2, <1>4, <1>9, <1>10, <1>11 DEF n

-----------------------------------------------------------------------------
(* How often an element occurs.                                            *)

Where(s, w) == {i \in 1..Len(s) : s[i] = w}
Occurs(s, w) == Cardinality(Where(s, w))

\* The places of w in the sequences f[d].
Spots(D, f, w) == UNION {{d} \X Where(f[d], w) : d \in D}

\* What a place is.
LEMMA SpotIs ==
    ASSUME NEW D, NEW f, NEW w
    PROVE  /\ \A d \in D : \A i \in Where(f[d], w) : <<d, i>> \in Spots(D, f, w)
           /\ \A p \in Spots(D, f, w) : \E d \in D : \E i \in Where(f[d], w) : p = <<d, i>>
BY DEF Spots

\* A sequence has finitely many places.
LEMMA OccursType ==
    ASSUME NEW s, NEW w, Len(s) \in Nat
    PROVE  /\ IsFiniteSet(Where(s, w)) /\ Occurs(s, w) \in Nat
           /\ Occurs(s, w) = 0 <=> Where(s, w) = {}
<1>1. IsFiniteSet(1..Len(s)) /\ Where(s, w) \in SUBSET (1..Len(s))
  BY FS_Interval DEF Where
<1> QED BY <1>1, FS_Subset, FS_CardinalityType, FS_EmptySet DEF Occurs

\* Nothing is in both.
Apart(C, D) == C \cap D = {}

\* Places in two families of sequences.
LEMMA SpotsUnion ==
    ASSUME NEW C, NEW D, NEW f, NEW w
    PROVE  Spots(C \cup D, f, w) = Spots(C, f, w) \cup Spots(D, f, w)
BY DEF Spots

\* They add up when the families share no sequence.
LEMMA SpotsJoined ==
    ASSUME NEW C, NEW D, NEW f, NEW w, Apart(C, D),
           IsFiniteSet(Spots(C, f, w)), IsFiniteSet(Spots(D, f, w))
    PROVE  /\ IsFiniteSet(Spots(C \cup D, f, w))
           /\ Cardinality(Spots(C \cup D, f, w))
                = Cardinality(Spots(C, f, w)) + Cardinality(Spots(D, f, w))
<1>1. Spots(C, f, w) \cap Spots(D, f, w) = {}
  <2> SUFFICES ASSUME NEW p \in Spots(C, f, w), p \in Spots(D, f, w) PROVE FALSE
    OBVIOUS
  <2>1. PICK c \in C : \E i \in Where(f[c], w) : p = <<c, i>>
    BY SpotIs
  <2>2. PICK d \in D : \E i \in Where(f[d], w) : p = <<d, i>>
    BY SpotIs
  <2> QED BY <2>1, <2>2 DEF Apart
<1>2. /\ Cardinality(Spots(C, f, w)) \in Nat /\ Cardinality(Spots(D, f, w)) \in Nat
      /\ Cardinality(Spots(C, f, w) \cap Spots(D, f, w)) = 0
  BY <1>1, FS_CardinalityType, FS_EmptySet
<1>3. /\ IsFiniteSet(Spots(C, f, w) \cup Spots(D, f, w))
      /\ Cardinality(Spots(C, f, w) \cup Spots(D, f, w))
           = Cardinality(Spots(C, f, w)) + Cardinality(Spots(D, f, w))
             - Cardinality(Spots(C, f, w) \cap Spots(D, f, w))
  BY FS_Union
<1>4. Cardinality(Spots(C, f, w) \cup Spots(D, f, w))
        = Cardinality(Spots(C, f, w)) + Cardinality(Spots(D, f, w))
  BY <1>2, <1>3, SMT
<1>5. Spots(C \cup D, f, w) = Spots(C, f, w) \cup Spots(D, f, w)
  BY SpotsUnion
<1> QED BY <1>3, <1>4, <1>5, Zenon

\* Fewer sequences, fewer places.
LEMMA SpotsWithin ==
    ASSUME NEW C, NEW D, NEW f, NEW w, C \subseteq D
    PROVE  Spots(C, f, w) \subseteq Spots(D, f, w)
BY DEF Spots

\* The same sequences have the same places.
LEMMA SpotsSame ==
    ASSUME NEW D, NEW f, NEW g, NEW w, \A d \in D : f[d] = g[d]
    PROVE  Spots(D, f, w) = Spots(D, g, w)
<1>1. ASSUME NEW p, NEW h, NEW k, \A d \in D : h[d] = k[d], p \in Spots(D, h, w)
      PROVE  p \in Spots(D, k, w)
  <2>1. PICK d \in D : \E i \in Where(h[d], w) : p = <<d, i>>
    BY <1>1, SpotIs
  <2>2. Where(h[d], w) = Where(k[d], w)
    BY <1>1
  <2> QED BY <2>1, <2>2, SpotIs
<1>2. \A p : p \in Spots(D, f, w) => p \in Spots(D, g, w)
  BY <1>1
<1>3. \A p : p \in Spots(D, g, w) => p \in Spots(D, f, w)
  BY <1>1
<1> QED BY <1>2, <1>3

\* One sequence has as many places as occurrences.
LEMMA SpotsOfOne ==
    ASSUME NEW d, NEW f, NEW w, Len(f[d]) \in Nat
    PROVE  /\ IsFiniteSet(Spots({d}, f, w))
           /\ Cardinality(Spots({d}, f, w)) = Occurs(f[d], w)
<1> DEFINE S == Where(f[d], w)
           h == [i \in S |-> <<d, i>>]
<1>1. h \in Bijection(S, Spots({d}, f, w))
  <2>1. \A i \in S : h[i] \in Spots({d}, f, w)
    BY SpotIs
  <2>2. \A i, j \in S : h[i] = h[j] => i = j
    OBVIOUS
  <2>3. \A p \in Spots({d}, f, w) : \E i \in S : h[i] = p
    BY SpotIs
  <2> QED BY <2>1, <2>2, <2>3 DEF Bijection, Injection, Surjection, IsInjective
<1>2. IsFiniteSet(S)
  BY OccursType
<1> HIDE DEF h, S
<1>3. ExistsBijection(S, Spots({d}, f, w))
  BY <1>1 DEF ExistsBijection
<1> QED BY <1>2, <1>3, FS_Bijection DEF Occurs, S

\* Finitely many sequences have finitely many places.
LEMMA SpotsFinite ==
    ASSUME NEW D, IsFiniteSet(D), NEW f, NEW w, \A d \in D : Len(f[d]) \in Nat
    PROVE  IsFiniteSet(Spots(D, f, w)) /\ Cardinality(Spots(D, f, w)) \in Nat
<1> DEFINE k == [d \in D |-> {d} \X Where(f[d], w)]
           R == {k[d] : d \in D}
<1>1. k \in Surjection(D, R)
  BY DEF Surjection
<1>2. IsFiniteSet(R)
  BY <1>1, FS_Surjection
<1>3. ASSUME NEW d \in D PROVE IsFiniteSet(k[d])
  BY OccursType, FS_Singleton, FS_Product
<1>4. \A T \in R : IsFiniteSet(T)
  BY <1>3
<1>5. Spots(D, f, w) = UNION R
  BY DEF Spots
<1> HIDE DEF R, k
<1>6. IsFiniteSet(UNION R)
  BY <1>2, <1>4, FS_UNION
<1> QED BY <1>5, <1>6, FS_CardinalityType

\* A place is an occurrence.
LEMMA SpotsOccur ==
    ASSUME NEW D, NEW f, NEW w, \A d \in D : Len(f[d]) \in Nat
    PROVE  Spots(D, f, w) # {} <=> \E d \in D : Occurs(f[d], w) # 0
<1>1. \A d \in D : Occurs(f[d], w) = 0 <=> Where(f[d], w) = {}
  BY OccursType
<1>2. Spots(D, f, w) # {} => \E d \in D : Where(f[d], w) # {}
  BY SpotIs
<1>3. (\E d \in D : Where(f[d], w) # {}) => Spots(D, f, w) # {}
  BY SpotIs
<1> QED BY <1>1, <1>2, <1>3

\* D is C and d.
OneMore(C, d, D) == d \notin C /\ D = C \cup {d}

\* One more sequence.
LEMMA SpotsMore ==
    ASSUME NEW C, NEW d, NEW D, NEW f, NEW w, OneMore(C, d, D),
           IsFiniteSet(Spots(C, f, w)), Len(f[d]) \in Nat
    PROVE  /\ IsFiniteSet(Spots(D, f, w))
           /\ Cardinality(Spots(D, f, w)) = Cardinality(Spots(C, f, w)) + Occurs(f[d], w)
<1>1. PICK E : E = {d}
  OBVIOUS
<1>2. IsFiniteSet(Spots(E, f, w)) /\ Cardinality(Spots(E, f, w)) = Occurs(f[d], w)
  BY <1>1, SpotsOfOne, Zenon
<1>3. Apart(C, E) /\ D = C \cup E
  BY <1>1 DEF Apart, OneMore
<1>4. /\ IsFiniteSet(Spots(C \cup E, f, w))
      /\ Cardinality(Spots(C \cup E, f, w))
           = Cardinality(Spots(C, f, w)) + Cardinality(Spots(E, f, w))
  BY <1>2, <1>3, SpotsJoined
<1> QED BY <1>2, <1>3, <1>4, Zenon

\* One sequence of a family is replaced.
LEMMA SpotsChange ==
    ASSUME NEW D, NEW f, NEW g, NEW w, NEW d \in D,
           IsFiniteSet(Spots(D, f, w)), Len(f[d]) \in Nat, Len(g[d]) \in Nat,
           \A e \in D : e # d => f[e] = g[e]
    PROVE  /\ IsFiniteSet(Spots(D, g, w))
           /\ Cardinality(Spots(D, f, w)) \in Nat /\ Cardinality(Spots(D, g, w)) \in Nat
           /\ Occurs(f[d], w) \in Nat /\ Occurs(g[d], w) \in Nat
           /\ Cardinality(Spots(D, g, w)) + Occurs(f[d], w)
                = Cardinality(Spots(D, f, w)) + Occurs(g[d], w)
<1>1. PICK C : C = D \ {d}
  OBVIOUS
<1>2. OneMore(C, d, D)
  BY <1>1 DEF OneMore
<1>3. Spots(C, f, w) = Spots(C, g, w)
  <2>1. \A e \in C : f[e] = g[e]
    BY <1>1
  <2> QED BY <2>1, SpotsSame
<1>4. IsFiniteSet(Spots(C, f, w)) /\ IsFiniteSet(Spots(C, g, w))
  <2>1. C \subseteq D
    BY <1>1
  <2>2. Spots(C, f, w) \in SUBSET Spots(D, f, w)
    BY <2>1, SpotsWithin
  <2> QED BY <1>3, <2>2, FS_Subset
<1>5. Occurs(f[d], w) \in Nat /\ Occurs(g[d], w) \in Nat
  BY OccursType
<1>6. Cardinality(Spots(D, f, w)) = Cardinality(Spots(C, f, w)) + Occurs(f[d], w)
  BY <1>2, <1>4, SpotsMore
<1>7. /\ IsFiniteSet(Spots(D, g, w))
      /\ Cardinality(Spots(D, g, w)) = Cardinality(Spots(C, g, w)) + Occurs(g[d], w)
  BY <1>2, <1>4, SpotsMore
<1>8. Cardinality(Spots(C, f, w)) \in Nat
  BY <1>4, FS_CardinalityType
<1>9. /\ IsFiniteSet(Spots(D, g, w))
      /\ Cardinality(Spots(D, f, w)) = Cardinality(Spots(C, f, w)) + Occurs(f[d], w)
      /\ Cardinality(Spots(D, g, w)) = Cardinality(Spots(C, f, w)) + Occurs(g[d], w)
  BY <1>3, <1>6, <1>7, Zenon
<1> QED BY <1>5, <1>8, <1>9

\* Occurrences in a sequence behind another one.
LEMMA OccursJoined ==
    ASSUME NEW V, NEW s \in Seq(V), NEW t \in Seq(V), NEW w
    PROVE  Occurs(s \o t, w) = Occurs(s, w) + Occurs(t, w)
<1> DEFINE S == Where(s, w)
           T == Where(t, w)
           m == Len(s)
           U == {m + i : i \in T}
           h == [i \in T |-> m + i]
<1>1. /\ m \in Nat /\ Len(t) \in Nat /\ Len(s \o t) = m + Len(t)
      /\ \A k \in 1..m : (s \o t)[k] = s[k]
      /\ \A k \in 1..Len(t) : (s \o t)[m + k] = t[k]
  BY Joined
<1>2. S \subseteq 1..m /\ T \subseteq 1..Len(t) /\ IsFiniteSet(S) /\ IsFiniteSet(T)
  BY <1>1, OccursType DEF Where
<1>3. ExistsBijection(T, U)
  <2>1. h \in Bijection(T, U)
    <3>1. \A i, j \in T : m + i = m + j => i = j
      BY <1>1, <1>2
    <3> QED BY <3>1 DEF Bijection, Injection, Surjection, IsInjective
  <2> QED BY <2>1 DEF ExistsBijection
<1>4. IsFiniteSet(U) /\ Cardinality(U) = Cardinality(T)
  BY <1>2, <1>3, FS_Bijection
<1>5. Where(s \o t, w) = S \cup U
  <2> DEFINE u == s \o t
  <2>1. ASSUME NEW k \in 1..Len(u), u[k] = w PROVE k \in S \cup U
    <3>1. CASE k \in 1..m
      BY <1>1, <2>1, <3>1 DEF Where
    <3>2. CASE k \notin 1..m
      <4>1. k - m \in 1..Len(t) /\ k = m + (k - m)
        BY <1>1, <3>2
      <4>2. u[m + (k - m)] = t[k - m] /\ u[m + (k - m)] = w
        BY <1>1, <2>1, <4>1
      <4> QED BY <4>1, <4>2 DEF Where
    <3> QED BY <3>1, <3>2
  <2>2. ASSUME NEW k \in S PROVE k \in Where(u, w)
    BY <1>1, <2>2 DEF Where
  <2>3. ASSUME NEW k \in T PROVE m + k \in Where(u, w)
    <3>1. k \in 1..Len(t) /\ t[k] = w /\ m + k \in 1..Len(u) /\ u[m + k] = t[k]
      BY <1>1, <2>3 DEF Where
    <3> QED BY <3>1 DEF Where
  <2> QED BY <2>1, <2>2, <2>3 DEF Where
<1>6. S \cap U = {}
  BY <1>1, <1>2
<1> HIDE DEF S, T, U, h
<1>7. /\ Cardinality(S) \in Nat /\ Cardinality(T) \in Nat /\ Cardinality(S \cap U) = 0
      /\ Cardinality(S \cup U) = Cardinality(S) + Cardinality(U) - Cardinality(S \cap U)
  BY <1>2, <1>4, <1>6, FS_CardinalityType, FS_EmptySet, FS_Union
<1>8. Cardinality(S \cup U) = Cardinality(S) + Cardinality(T)
  BY <1>4, <1>7
<1> QED BY <1>5, <1>8 DEF Occurs, S, T

\* The empty sequence and a sequence of one element.
LEMMA OccursFew ==
    ASSUME NEW w
    PROVE  /\ Occurs(<<>>, w) = 0
           /\ \A x : Occurs(<<x>>, w) = IF x = w THEN 1 ELSE 0
<1>1. Where(<<>>, w) = {}
  BY DEF Where
<1>2. ASSUME NEW x PROVE Where(<<x>>, w) = IF x = w THEN {1} ELSE {}
  <2>1. 1..Len(<<x>>) = {1} /\ <<x>>[1] = x
    OBVIOUS
  <2> QED BY <2>1 DEF Where
<1>3. Cardinality({}) = 0 /\ Cardinality({1}) = 1
  BY FS_EmptySet, FS_Singleton
<1> QED BY <1>1, <1>2, <1>3 DEF Occurs

\* The first element and the rest.
LEMMA OccursTail ==
    ASSUME NEW V, NEW s \in Seq(V), s # <<>>, NEW w
    PROVE  /\ Head(s) \in V /\ Tail(s) \in Seq(V)
           /\ Occurs(s, w) = (IF Head(s) = w THEN 1 ELSE 0) + Occurs(Tail(s), w)
<1>1. /\ Head(s) \in V /\ Tail(s) \in Seq(V) /\ <<Head(s)>> \in Seq(V)
      /\ s = <<Head(s)>> \o Tail(s)
  OBVIOUS
<1>2. PICK a, b : a = <<Head(s)>> /\ b = Tail(s)
  OBVIOUS
<1>3. a \in Seq(V) /\ b \in Seq(V)
  BY <1>1, <1>2, Zenon
<1>4. Occurs(a \o b, w) = Occurs(a, w) + Occurs(b, w)
  BY <1>3, OccursJoined
<1>5. Occurs(<<Head(s)>>, w) = IF Head(s) = w THEN 1 ELSE 0
  BY OccursFew
<1> QED BY <1>1, <1>2, <1>4, <1>5, Zenon

\* What flattened sequences hold is what each of them holds.
LEMMA OccursFlattened ==
    ASSUME NEW V, NEW seqs \in Seq(Seq(V)), NEW w
    PROVE  /\ FlattenSeq(seqs) \in Seq(V)
           /\ IsFiniteSet(Spots(1..Len(seqs), seqs, w))
           /\ Occurs(FlattenSeq(seqs), w) = Cardinality(Spots(1..Len(seqs), seqs, w))
<1> DEFINE n == Len(seqs)
<1>1. n \in Nat /\ \A i \in 1..n : seqs[i] \in Seq(V) /\ Len(seqs[i]) \in Nat
  OBVIOUS
<1>2. CASE n = 0
  <2>1. FlattenSeq(seqs) = <<>> /\ FlattenSeq(seqs) \in Seq(V)
    BY <1>2 DEF FlattenSeq
  <2>2. Spots(1..n, seqs, w) = {}
    BY <1>2 DEF Spots
  <2> QED BY <2>1, <2>2, OccursFew, FS_EmptySet
<1>3. CASE n # 0
  <2>1. PICK f : Steps(seqs, f, n) /\ FlattenSeq(seqs) = f[n]
    BY <1>1, <1>3, Flattened
  <2> HIDE DEF n
  <2>2. f[1] = seqs[1] /\ \A i \in 1..n : i + 1 \in 1..n => f[i + 1] = f[i] \o seqs[i + 1]
    <3>1. \A i \in 1..n : f[i] = IF i = 1 THEN seqs[i] ELSE f[i - 1] \o seqs[i]
      BY <2>1 DEF Steps
    <3>2. f[1] = seqs[1]
      BY <1>1, <1>3, <3>1
    <3>3. ASSUME NEW i \in 1..n, i + 1 \in 1..n PROVE f[i + 1] = f[i] \o seqs[i + 1]
      <4>1. i + 1 # 1 /\ (i + 1) - 1 = i
        BY <1>1
      <4> QED BY <3>1, <3>3, <4>1
    <3> QED BY <3>2, <3>3
  <2> DEFINE Sums(k) == /\ f[k] \in Seq(V) /\ IsFiniteSet(Spots(1..k, seqs, w))
                        /\ Occurs(f[k], w) = Cardinality(Spots(1..k, seqs, w))
             T == {k \in Nat : k \in 1..n => Sums(k)}
  <2>3. 0 \in T
    OBVIOUS
  <2>4. ASSUME NEW k \in Nat, k \in T PROVE k + 1 \in T
    <3> SUFFICES ASSUME k + 1 \in 1..n PROVE Sums(k + 1)
      OBVIOUS
    <3>1. /\ IsFiniteSet(Spots({k + 1}, seqs, w))
          /\ Cardinality(Spots({k + 1}, seqs, w)) = Occurs(seqs[k + 1], w)
          /\ seqs[k + 1] \in Seq(V)
      BY <1>1, SpotsOfOne
    <3>2. CASE k = 0
      <4>1. k + 1 = 1 /\ 1..1 = {1}
        BY <3>2
      <4> QED BY <2>2, <3>1, <4>1
    <3>3. CASE k # 0
      <4>1. k \in 1..n /\ Sums(k)
        BY <1>1, <2>4, <3>3
      <4>2. f[k + 1] = f[k] \o seqs[k + 1]
        BY <2>2, <4>1
      <4> HIDE DEF T
      <4>3. OneMore(1..k, k + 1, 1..(k + 1))
        BY DEF OneMore
      <4>4. f[k] \o seqs[k + 1] \in Seq(V)
            /\ Occurs(f[k] \o seqs[k + 1], w) = Occurs(f[k], w) + Occurs(seqs[k + 1], w)
        BY <3>1, <4>1, OccursJoined, Joined
      <4>5. /\ IsFiniteSet(Spots(1..(k + 1), seqs, w))
            /\ Cardinality(Spots(1..(k + 1), seqs, w))
                 = Cardinality(Spots(1..k, seqs, w)) + Occurs(seqs[k + 1], w)
        BY <1>1, <4>1, <4>3, SpotsMore
      <4> QED BY <3>1, <4>1, <4>2, <4>4, <4>5, Zenon
    <3> QED BY <3>2, <3>3
  <2> HIDE DEF Sums
  <2>5. n \in T
    <3> HIDE DEF T
    <3> QED BY <1>1, <2>3, <2>4, Induction
  <2>6. Sums(n)
    BY <1>1, <1>3, <2>5
  <2> QED BY <2>1, <2>6 DEF Sums, n
<1> QED BY <1>2, <1>3

\* Backwards.
LEMMA OccursReversed ==
    ASSUME NEW V, NEW s \in Seq(V), NEW w
    PROVE  Reverse(s) \in Seq(V) /\ Occurs(Reverse(s), w) = Occurs(s, w)
<1> DEFINE r == Reverse(s)
           n == Len(s)
           S == Where(s, w)
           R == Where(r, w)
           h == [i \in S |-> n + 1 - i]
<1>1. n \in Nat /\ r \in Seq(V) /\ Len(r) = n /\ \A i \in 1..n : r[i] = s[n + 1 - i]
  <2>1. r = [i \in 1..n |-> s[(n - i) + 1]]
    BY DEF Reverse
  <2>2. \A i \in 1..n : (n - i) + 1 = n + 1 - i /\ n + 1 - i \in 1..n
    OBVIOUS
  <2> QED BY <2>1, <2>2
<1> HIDE DEF r, n
<1>2. \A i \in 1..n : n + 1 - i \in 1..n /\ n + 1 - (n + 1 - i) = i
  BY <1>1
<1>3. \A i \in S : i \in 1..n /\ n + 1 - i \in R
  BY <1>1, <1>2 DEF Where, n
<1>4. \A j \in R : j \in 1..n /\ n + 1 - j \in S /\ h[n + 1 - j] = j
  BY <1>1, <1>2 DEF Where, n
<1>5. h \in Bijection(S, R)
  <2>1. \A i, j \in S : h[i] = h[j] => i = j
    BY <1>2, <1>3
  <2>2. \A j \in R : \E i \in S : h[i] = j
    BY <1>4
  <2> QED BY <1>3, <2>1, <2>2 DEF Bijection, Injection, Surjection, IsInjective
<1>6. IsFiniteSet(S) /\ ExistsBijection(S, R)
  BY <1>1, <1>5, OccursType DEF ExistsBijection, n
<1> HIDE DEF S, R, h
<1>7. Cardinality(R) = Cardinality(S)
  BY <1>6, FS_Bijection
<1> QED BY <1>1, <1>7 DEF Occurs, S, R, r

\* All the sequences the members of U have in F.
Cover(F, U) == UNION {F[t] : t \in U}

\* Where each member of U asks for no more than there are places in its own
\* sequences, all of them together do.
LEMMA SpotsBound ==
    ASSUME NEW U, IsFiniteSet(U), NEW F, NEW f, NEW w, NEW g, NEW x,
           \A t, u \in U : t # u => Apart(F[t], F[u]),
           \A t \in U : Len(g[t]) \in Nat /\ Occurs(g[t], x) <= Cardinality(Spots(F[t], f, w)),
           IsFiniteSet(Spots(Cover(F, U), f, w))
    PROVE  /\ IsFiniteSet(Spots(U, g, x))
           /\ Cardinality(Spots(U, g, x)) <= Cardinality(Spots(Cover(F, U), f, w))
<1> DEFINE Bound(W) == /\ IsFiniteSet(Spots(W, g, x))
                       /\ Cardinality(Spots(W, g, x)) <= Cardinality(Spots(Cover(F, W), f, w))
           T == {n \in Nat : \A W \in SUBSET U : IsFiniteSet(W) /\ Cardinality(W) = n => Bound(W)}
<1>1. \A W \in SUBSET U : Spots(Cover(F, W), f, w) \in SUBSET Spots(Cover(F, U), f, w)
  <2>1. \A W \in SUBSET U : Cover(F, W) \subseteq Cover(F, U)
    BY DEF Cover
  <2> QED BY <2>1, SpotsWithin
<1>2. 0 \in T
  <2> SUFFICES ASSUME NEW W \in SUBSET U, IsFiniteSet(W), Cardinality(W) = 0 PROVE Bound(W)
    OBVIOUS
  <2>1. W = {}
    BY FS_EmptySet
  <2>2. Spots(W, g, x) = {} /\ Spots(Cover(F, W), f, w) = {}
    BY <2>1 DEF Spots, Cover
  <2> QED BY <2>2, FS_EmptySet
<1>3. ASSUME NEW n \in Nat, n \in T PROVE n + 1 \in T
  <2> SUFFICES ASSUME NEW W \in SUBSET U, IsFiniteSet(W), Cardinality(W) = n + 1
               PROVE  Bound(W)
    OBVIOUS
  <2>1. PICK t \in W : TRUE
    BY FS_EmptySet
  <2>2. PICK V : V = W \ {t}
    OBVIOUS
  <2>3. V \in SUBSET U /\ IsFiniteSet(V) /\ Cardinality(V) = n
    <3>1. IsFiniteSet(W \ {t}) /\ Cardinality(W \ {t}) = Cardinality(W) - 1
      BY FS_RemoveElement
    <3>2. (n + 1) - 1 = n /\ V \in SUBSET U
      BY <2>2
    <3> QED BY <2>2, <3>1, <3>2, Zenon
  <2>4. Bound(V)
    BY <1>3, <2>3
  <2>5. OneMore(V, t, W)
    BY <2>2 DEF OneMore
  <2>6. Len(g[t]) \in Nat /\ Occurs(g[t], x) <= Cardinality(Spots(F[t], f, w))
    OBVIOUS
  <2>7. /\ IsFiniteSet(Spots(W, g, x))
        /\ Cardinality(Spots(W, g, x)) = Cardinality(Spots(V, g, x)) + Occurs(g[t], x)
    BY <2>4, <2>5, <2>6, SpotsMore
  <2>8. PICK C, D : C = Cover(F, V) /\ D = F[t]
    OBVIOUS
  <2>9. Apart(C, D) /\ Cover(F, W) = C \cup D
    <3>1. \A u \in V : Apart(F[u], F[t])
      BY <2>2
    <3>2. Apart(C, D)
      BY <2>8, <3>1 DEF Apart, Cover
    <3>3. Cover(F, W) = C \cup D
      BY <2>2, <2>8 DEF Cover
    <3> QED BY <3>2, <3>3
  <2>10. /\ Spots(C, f, w) \in SUBSET Spots(Cover(F, U), f, w)
         /\ Spots(D, f, w) \in SUBSET Spots(Cover(F, U), f, w)
    <3>1. D \subseteq Cover(F, U)
      BY <2>8 DEF Cover
    <3> QED BY <1>1, <2>3, <2>8, <3>1, SpotsWithin
  <2>11. IsFiniteSet(Spots(C, f, w)) /\ IsFiniteSet(Spots(D, f, w))
    BY <2>10, FS_Subset
  <2>12. Cardinality(Spots(C \cup D, f, w))
           = Cardinality(Spots(C, f, w)) + Cardinality(Spots(D, f, w))
    BY <2>9, <2>11, SpotsJoined
  <2>13. /\ Cardinality(Spots(C, f, w)) \in Nat /\ Cardinality(Spots(D, f, w)) \in Nat
         /\ Occurs(g[t], x) \in Nat /\ Cardinality(Spots(V, g, x)) \in Nat
    BY <2>4, <2>6, <2>11, OccursType, FS_CardinalityType
  <2>14. PICK a, b, c, d : /\ a = Cardinality(Spots(C, f, w)) /\ b = Cardinality(Spots(D, f, w))
                           /\ c = Cardinality(Spots(V, g, x)) /\ d = Occurs(g[t], x)
    OBVIOUS
  <2>15. c <= a /\ d <= b
    BY <2>4, <2>6, <2>8, <2>14, Zenon
  <2>16. a \in Nat /\ b \in Nat /\ c \in Nat /\ d \in Nat
    BY <2>13, <2>14, Zenon
  <2>17. c + d <= a + b
    BY <2>15, <2>16
  <2>18. Cardinality(Spots(W, g, x)) = c + d /\ Cardinality(Spots(Cover(F, W), f, w)) = a + b
    BY <2>7, <2>9, <2>12, <2>14, Zenon
  <2> QED BY <2>7, <2>17, <2>18, Zenon
<1> HIDE DEF Bound
<1>4. Cardinality(U) \in T
  <2> HIDE DEF T
  <2>1. Nat \subseteq T
    BY <1>2, <1>3, Induction
  <2> QED BY <2>1, FS_CardinalityType
<1>5. Bound(U)
  BY <1>4
<1> QED BY <1>5 DEF Bound

\* Two families of sequences with the same numbers of occurrences.
LEMMA SpotsEqual ==
    ASSUME NEW U, IsFiniteSet(U), NEW f, NEW w, NEW g, NEW x,
           IsFiniteSet(Spots(U, f, w)),
           \A t \in U : Len(f[t]) \in Nat /\ Len(g[t]) \in Nat /\ Occurs(g[t], x) = Occurs(f[t], w)
    PROVE  /\ IsFiniteSet(Spots(U, g, x))
           /\ Cardinality(Spots(U, g, x)) = Cardinality(Spots(U, f, w))
<1>1. PICK F : F = [t \in U |-> {t}]
  OBVIOUS
<1>2. Cover(F, U) = U /\ \A t, u \in U : t # u => Apart(F[t], F[u])
  BY <1>1 DEF Cover, Apart
<1>3. ASSUME NEW t \in U
      PROVE  /\ Cardinality(Spots(F[t], f, w)) = Occurs(f[t], w)
             /\ Cardinality(Spots(F[t], g, x)) = Occurs(g[t], x)
             /\ Occurs(f[t], w) \in Nat /\ Occurs(g[t], x) \in Nat
  <2>1. F[t] = {t}
    BY <1>1
  <2>2. /\ Cardinality(Spots({t}, f, w)) = Occurs(f[t], w)
        /\ Cardinality(Spots({t}, g, x)) = Occurs(g[t], x)
    BY SpotsOfOne
  <2>3. Occurs(f[t], w) \in Nat /\ Occurs(g[t], x) \in Nat
    BY OccursType
  <2> QED BY <2>1, <2>2, <2>3, Zenon
<1>4. \A t \in U : Len(g[t]) \in Nat /\ Occurs(g[t], x) <= Cardinality(Spots(F[t], f, w))
  BY <1>3
<1>5. \A t \in U : Len(f[t]) \in Nat /\ Occurs(f[t], w) <= Cardinality(Spots(F[t], g, x))
  BY <1>3
<1>6. IsFiniteSet(Spots(U, g, x)) /\ Cardinality(Spots(U, g, x)) <= Cardinality(Spots(U, f, w))
  <2>1. IsFiniteSet(Spots(Cover(F, U), f, w))
    BY <1>2, Zenon
  <2>2. /\ IsFiniteSet(Spots(U, g, x))
        /\ Cardinality(Spots(U, g, x)) <= Cardinality(Spots(Cover(F, U), f, w))
    BY <1>2, <1>4, <2>1, SpotsBound
  <2> QED BY <1>2, <2>2, Zenon
<1>7. Cardinality(Spots(U, f, w)) <= Cardinality(Spots(U, g, x))
  <2>1. IsFiniteSet(Spots(Cover(F, U), g, x))
    BY <1>2, <1>6, Zenon
  <2>2. Cardinality(Spots(U, f, w)) <= Cardinality(Spots(Cover(F, U), g, x))
    BY <1>2, <1>5, <2>1, SpotsBound
  <2> QED BY <1>2, <2>2, Zenon
<1>8. Cardinality(Spots(U, f, w)) \in Nat /\ Cardinality(Spots(U, g, x)) \in Nat
  BY <1>6, FS_CardinalityType
<1> QED BY <1>6, <1>7, <1>8

\* The same sequences under other names.
LEMMA SpotsRenamed ==
    ASSUME NEW C, NEW D, NEW e \in Bijection(C, D), NEW f, NEW g, NEW w,
           \A c \in C : g[c] = f[e[c]], IsFiniteSet(Spots(D, f, w))
    PROVE  /\ IsFiniteSet(Spots(C, g, w))
           /\ Cardinality(Spots(C, g, w)) = Cardinality(Spots(D, f, w))
<1> DEFINE S == Spots(C, g, w)
           T == Spots(D, f, w)
           h == [p \in S |-> <<e[p[1]], p[2]>>]
<1>1. /\ e \in [C -> D] /\ \A a, b \in C : e[a] = e[b] => a = b
      /\ \A d \in D : \E c \in C : e[c] = d
  BY DEF Bijection, Injection, Surjection, IsInjective
<1>2. ASSUME NEW p \in S
      PROVE  p[1] \in C /\ p = <<p[1], p[2]>> /\ h[p] \in T
  <2>1. PICK c \in C : \E i \in Where(g[c], w) : p = <<c, i>>
    BY SpotIs
  <2>2. PICK i \in Where(g[c], w) : p = <<c, i>>
    BY <2>1
  <2>3. Where(g[c], w) = Where(f[e[c]], w) /\ e[c] \in D
    BY <1>1
  <2>4. <<e[c], i>> \in T
    BY <2>2, <2>3, SpotIs
  <2> QED BY <2>2, <2>4
<1>3. ASSUME NEW p \in S, NEW q \in S, h[p] = h[q] PROVE p = q
  <2>1. e[p[1]] = e[q[1]] /\ p[2] = q[2]
    BY <1>3
  <2>2. p[1] \in C /\ q[1] \in C /\ p = <<p[1], p[2]>> /\ q = <<q[1], q[2]>>
    BY <1>2
  <2>3. p[1] = q[1]
    BY <1>1, <2>1, <2>2
  <2> QED BY <2>1, <2>2, <2>3, Zenon
<1>4. ASSUME NEW q \in T PROVE \E p \in S : h[p] = q
  <2>1. PICK d \in D : \E i \in Where(f[d], w) : q = <<d, i>>
    BY SpotIs
  <2>2. PICK i \in Where(f[d], w) : q = <<d, i>>
    BY <2>1
  <2>3. PICK c \in C : e[c] = d
    BY <1>1
  <2>4. <<c, i>> \in S
    <3>1. i \in Where(g[c], w)
      BY <2>2, <2>3
    <3> QED BY <3>1, SpotIs
  <2> QED BY <2>2, <2>3, <2>4
<1>5. h \in Bijection(S, T)
  BY <1>2, <1>3, <1>4 DEF Bijection, Injection, Surjection, IsInjective
<1> HIDE DEF h, S, T
<1>6. \E k : k \in Bijection(T, S)
  <2>1. /\ h \in [S -> T] /\ \A a, b \in S : h[a] = h[b] => a = b
        /\ \A d \in T : \E c \in S : h[c] = d
    BY <1>5 DEF Bijection, Injection, Surjection, IsInjective
  <2> DEFINE k == [q \in T |-> CHOOSE p \in S : h[p] = q]
  <2>2. \A q \in T : k[q] \in S /\ h[k[q]] = q
    BY <2>1
  <2>3. \A p \in S : k[h[p]] = p
    BY <2>1, <2>2
  <2>4. k \in [T -> S]
    BY <2>2
  <2> HIDE DEF k
  <2>5. k \in Bijection(T, S)
    BY <2>1, <2>2, <2>3, <2>4 DEF Bijection, Injection, Surjection, IsInjective
  <2> QED BY <2>5
<1>7. IsFiniteSet(T) /\ ExistsBijection(T, S)
  BY <1>6 DEF ExistsBijection, T
<1> QED BY <1>7, FS_Bijection DEF S, T

\* The sequences of one element each that make up a sequence, and empty ones.
Singles(s, n) == [i \in 1..n |-> IF i <= Len(s) THEN <<s[i]>> ELSE <<>>]

\* They hold what it holds.
LEMMA SpotsOfSingles ==
    ASSUME NEW s, NEW n \in Nat, Len(s) \in 0..n, NEW w
    PROVE  /\ IsFiniteSet(Spots(1..n, Singles(s, n), w))
           /\ Cardinality(Spots(1..n, Singles(s, n), w)) = Occurs(s, w)
           /\ \A i \in 1..n : Len(Singles(s, n)[i]) \in Nat
<1> DEFINE f == Singles(s, n)
           S == Where(s, w)
           T == Spots(1..n, f, w)
           h == [i \in S |-> <<i, 1>>]
<1>1. \A i \in 1..n : f[i] = IF i <= Len(s) THEN <<s[i]>> ELSE <<>>
  BY DEF Singles
<1>2. ASSUME NEW i \in 1..n
      PROVE  /\ Len(f[i]) \in Nat
             /\ Where(f[i], w) = IF i \in S THEN {1} ELSE {}
  <2>1. CASE i <= Len(s)
    <3>1. f[i] = <<s[i]>>
      BY <1>1, <2>1
    <3>2. i \in S <=> s[i] = w
      BY <2>1 DEF Where
    <3>3. ASSUME NEW y
          PROVE  Len(<<y>>) \in Nat /\ Where(<<y>>, w) = IF y = w THEN {1} ELSE {}
      <4>1. 1..Len(<<y>>) = {1} /\ <<y>>[1] = y
        OBVIOUS
      <4> QED BY <4>1 DEF Where
    <3> QED BY <3>1, <3>2, <3>3, Zenon
  <2>2. CASE ~(i <= Len(s))
    <3>1. f[i] = <<>>
      BY <1>1, <2>2
    <3>2. i \notin S
      BY <2>2 DEF Where
    <3>3. Len(<<>>) \in Nat /\ Where(<<>>, w) = {}
      BY DEF Where
    <3> QED BY <3>1, <3>2, <3>3, Zenon
  <2> QED BY <2>1, <2>2
<1> HIDE DEF f
<1>3. \A i \in S : i \in 1..n /\ <<i, 1>> \in T
  <2>1. \A i \in S : i \in 1..n /\ 1 \in Where(f[i], w)
    BY <1>2 DEF Where
  <2> QED BY <2>1, SpotIs
<1>4. \A q \in T : \E i \in S : q = <<i, 1>>
  <2> SUFFICES ASSUME NEW q \in T PROVE \E i \in S : q = <<i, 1>>
    OBVIOUS
  <2>1. PICK d \in 1..n : \E i \in Where(f[d], w) : q = <<d, i>>
    BY SpotIs
  <2> QED BY <1>2, <2>1
<1>5. h \in Bijection(S, T)
  BY <1>3, <1>4 DEF Bijection, Injection, Surjection, IsInjective
<1>6. IsFiniteSet(S)
  BY OccursType
<1> HIDE DEF S, T, h
<1>7. ExistsBijection(S, T)
  BY <1>5 DEF ExistsBijection
<1>8. IsFiniteSet(T) /\ Cardinality(T) = Cardinality(S)
  BY <1>6, <1>7, FS_Bijection
<1> QED BY <1>2, <1>8 DEF S, T, f, Occurs

\* A sequence is the parts it is cut into at two places.
LEMMA OccursParts ==
    ASSUME NEW V, NEW s \in Seq(V), NEW i \in 0..Len(s), NEW j \in 0..Len(s), i <= j, NEW w
    PROVE  /\ SubSeq(s, 1, i) \in Seq(V) /\ SubSeq(s, i + 1, j) \in Seq(V)
           /\ SubSeq(s, j + 1, Len(s)) \in Seq(V)
           /\ Occurs(s, w) = Occurs(SubSeq(s, 1, i), w) + Occurs(SubSeq(s, i + 1, j), w)
                               + Occurs(SubSeq(s, j + 1, Len(s)), w)
<1>1. PICK a, b, c : a = SubSeq(s, 1, i) /\ b = SubSeq(s, i + 1, j) /\ c = SubSeq(s, j + 1, Len(s))
  OBVIOUS
<1>2. Len(s) \in Nat /\ i \in Nat /\ j \in Nat
  OBVIOUS
<1>3. PICK m, n : m = j - i /\ n = Len(s) - j
  OBVIOUS
<1>4. m \in Nat /\ n \in Nat /\ i + m = j /\ j + n = Len(s)
  BY <1>2, <1>3
<1>5. a \in Seq(V) /\ Len(a) = i /\ \A k \in 1..i : a[k] = s[k]
  BY <1>1, <1>2
<1>6. b \in Seq(V) /\ Len(b) = m /\ \A k \in 1..m : b[k] = s[i + k]
  BY <1>1, <1>2, <1>3
<1>7. c \in Seq(V) /\ Len(c) = n /\ \A k \in 1..n : c[k] = s[j + k]
  BY <1>1, <1>2, <1>3
<1>8. PICK ab : ab = a \o b
  OBVIOUS
<1>9. a \in Seq(V) /\ b \in Seq(V) /\ c \in Seq(V)
  BY <1>5, <1>6, <1>7
<1>10. /\ ab \in Seq(V) /\ Len(ab) = Len(a) + Len(b)
       /\ \A k \in 1..Len(a) : ab[k] = a[k]
       /\ \A k \in 1..Len(b) : ab[Len(a) + k] = b[k]
  BY <1>8, <1>9, Joined
<1>11. PICK abc : abc = ab \o c
  OBVIOUS
<1>12. ab \in Seq(V)
  BY <1>10
<1>13. /\ abc \in Seq(V) /\ Len(abc) = Len(ab) + Len(c)
       /\ \A k \in 1..Len(ab) : abc[k] = ab[k]
       /\ \A k \in 1..Len(c) : abc[Len(ab) + k] = c[k]
  BY <1>9, <1>11, <1>12, Joined
<1>14. Len(a) = i /\ Len(b) = m /\ Len(c) = n /\ Len(ab) = j /\ Len(abc) = Len(s)
  BY <1>2, <1>4, <1>5, <1>6, <1>7, <1>10, <1>13
<1>15. ASSUME NEW k \in 1..Len(s) PROVE abc[k] = s[k]
  <2>1. CASE k <= i
    <3>1. k \in 1..i /\ k \in 1..j
      BY <1>2, <2>1
    <3>2. ab[k] = a[k] /\ abc[k] = ab[k] /\ a[k] = s[k]
      BY <1>5, <1>10, <1>13, <1>14, <3>1
    <3> QED BY <3>2
  <2>2. CASE k > i /\ k <= j
    <3>1. PICK x : x = k - i
      OBVIOUS
    <3>2. x \in 1..m /\ i + x = k /\ k \in 1..j
      BY <1>2, <1>3, <2>2, <3>1
    <3>3. ab[i + x] = b[x] /\ abc[k] = ab[k]
      BY <1>10, <1>13, <1>14, <3>2
    <3>4. b[x] = s[i + x]
      BY <1>6, <3>2
    <3> QED BY <3>2, <3>3, <3>4
  <2>3. CASE k > j
    <3>1. PICK x : x = k - j
      OBVIOUS
    <3>2. x \in 1..n /\ j + x = k
      BY <1>2, <1>3, <2>3, <3>1
    <3>3. abc[j + x] = c[x]
      BY <1>13, <1>14, <3>2
    <3>4. c[x] = s[j + x]
      BY <1>7, <3>2
    <3> QED BY <3>2, <3>3, <3>4
  <2> QED BY <1>2, <2>1, <2>2, <2>3
<1>16. abc = s
  <2>1. abc \in Seq(V) /\ Len(abc) = Len(s)
    BY <1>13, <1>14
  <2> QED BY <1>15, <2>1
<1>17. Occurs(ab, w) = Occurs(a, w) + Occurs(b, w)
  BY <1>8, <1>9, OccursJoined
<1>18. Occurs(abc, w) = Occurs(ab, w) + Occurs(c, w)
  BY <1>9, <1>11, <1>12, OccursJoined
<1> QED BY <1>1, <1>9, <1>16, <1>17, <1>18, Zenon

\* A family of sequences holds what one of them holds, and what two of them hold.
LEMMA SpotsAtLeast ==
    ASSUME NEW D, NEW f, NEW w, NEW d \in D, Len(f[d]) \in Nat, IsFiniteSet(Spots(D, f, w))
    PROVE  /\ Occurs(f[d], w) <= Cardinality(Spots(D, f, w))
           /\ \A e \in D : e # d /\ Len(f[e]) \in Nat =>
                Occurs(f[d], w) + Occurs(f[e], w) <= Cardinality(Spots(D, f, w))
<1>1. PICK C : C = D \ {d}
  OBVIOUS
<1>2. OneMore(C, d, D)
  BY <1>1 DEF OneMore
<1>3. Spots(C, f, w) \subseteq Spots(D, f, w)
  BY <1>1, SpotsWithin
<1>4. IsFiniteSet(Spots(C, f, w))
  BY <1>3, FS_Subset
<1>5. Cardinality(Spots(D, f, w)) = Cardinality(Spots(C, f, w)) + Occurs(f[d], w)
  BY <1>2, <1>4, SpotsMore
<1>6. Cardinality(Spots(C, f, w)) \in Nat
  BY <1>4, FS_CardinalityType
<1>7. Occurs(f[d], w) \in Nat
  BY OccursType
<1>8. ASSUME NEW e \in D, e # d, Len(f[e]) \in Nat
      PROVE  Occurs(f[e], w) <= Cardinality(Spots(C, f, w))
  <2>1. PICK B : B = C \ {e}
    OBVIOUS
  <2>2. OneMore(B, e, C)
    BY <1>1, <1>8, <2>1 DEF OneMore
  <2>3. Spots(B, f, w) \subseteq Spots(C, f, w)
    BY <2>1, SpotsWithin
  <2>4. IsFiniteSet(Spots(B, f, w))
    BY <1>4, <2>3, FS_Subset
  <2>5. Cardinality(Spots(C, f, w)) = Cardinality(Spots(B, f, w)) + Occurs(f[e], w)
    BY <1>8, <2>2, <2>4, SpotsMore
  <2>6. Cardinality(Spots(B, f, w)) \in Nat
    BY <2>4, FS_CardinalityType
  <2>7. Occurs(f[e], w) \in Nat
    BY <1>8, OccursType
  <2> QED BY <2>5, <2>6, <2>7
<1>9. ASSUME NEW e \in D, e # d, Len(f[e]) \in Nat
      PROVE  Occurs(f[d], w) + Occurs(f[e], w) <= Cardinality(Spots(D, f, w))
  <2>1. Occurs(f[e], w) <= Cardinality(Spots(C, f, w)) /\ Occurs(f[e], w) \in Nat
    BY <1>8, <1>9, OccursType
  <2> QED BY <1>5, <1>6, <1>7, <2>1
<1> QED BY <1>5, <1>6, <1>7, <1>9

\* One element of a sequence is replaced.
LEMMA OccursReplaced ==
    ASSUME NEW V, NEW s \in Seq(V), NEW i \in 1..Len(s), NEW x \in V, NEW w
    PROVE  /\ [s EXCEPT ![i] = x] \in Seq(V) /\ Len([s EXCEPT ![i] = x]) = Len(s)
           /\ Occurs([s EXCEPT ![i] = x], w) + Occurs(<<s[i]>>, w) = Occurs(s, w) + Occurs(<<x>>, w)
<1>1. PICK r, n : r = [s EXCEPT ![i] = x] /\ n = Len(s)
  OBVIOUS
<1>2. /\ n \in Nat /\ r \in Seq(V) /\ Len(r) = n /\ r[i] = x /\ i \in 1..n
      /\ \A k \in 1..n : k # i => r[k] = s[k]
  BY <1>1
<1>3. PICK f, g : f = Singles(s, n) /\ g = Singles(r, n)
  OBVIOUS
<1>4. Len(s) \in 0..n /\ Len(r) \in 0..n
  BY <1>1, <1>2
<1>5. /\ IsFiniteSet(Spots(1..n, f, w)) /\ Cardinality(Spots(1..n, f, w)) = Occurs(s, w)
      /\ \A k \in 1..n : Len(f[k]) \in Nat
  BY <1>2, <1>3, <1>4, SpotsOfSingles
<1>6. /\ IsFiniteSet(Spots(1..n, g, w)) /\ Cardinality(Spots(1..n, g, w)) = Occurs(r, w)
      /\ \A k \in 1..n : Len(g[k]) \in Nat
  BY <1>2, <1>3, <1>4, SpotsOfSingles
<1>7. /\ \A k \in 1..n : k # i => f[k] = g[k]
      /\ f[i] = <<s[i]>> /\ g[i] = <<x>>
  BY <1>1, <1>2, <1>3, <1>4 DEF Singles
<1>8. PICK U, d : U = 1..n /\ d = i
  OBVIOUS
<1>9. /\ d \in U /\ IsFiniteSet(Spots(U, f, w)) /\ Len(f[d]) \in Nat /\ Len(g[d]) \in Nat
      /\ \A k \in U : k # d => f[k] = g[k]
  BY <1>2, <1>5, <1>6, <1>7, <1>8, Zenon
<1>10. Cardinality(Spots(U, g, w)) + Occurs(f[d], w) = Cardinality(Spots(U, f, w)) + Occurs(g[d], w)
  BY <1>9, SpotsChange, SMTT(20)
<1>11. Occurs(r, w) + Occurs(<<s[i]>>, w) = Occurs(s, w) + Occurs(<<x>>, w)
  BY <1>5, <1>6, <1>7, <1>8, <1>10, Zenon
<1> QED BY <1>1, <1>2, <1>11, Zenon

-----------------------------------------------------------------------------
(* Folds over a sequence.                                                  *)

\* A set of indexes that is not empty has a last one, and a first one.
LEMMA Ends ==
    ASSUME NEW n \in Nat, NEW s \in SUBSET (1..n), s # {}
    PROVE  /\ Max(s) \in s /\ \A y \in s : Max(s) >= y
           /\ Min(s) \in s /\ \A y \in s : Min(s) <= y
<1>1. \E x \in s : \A y \in s : x <= y
  <2>1. s \subseteq Nat
    OBVIOUS
  <2> QED BY <2>1, LeastNumber
<1>2. \E x \in s : \A y \in s : x >= y
  <2> DEFINE T == {n - x : x \in s}
  <2>1. T \subseteq Nat /\ T # {}
    <3>1. \A x \in s : n - x \in Nat
      OBVIOUS
    <3> QED BY <3>1
  <2>2. PICK t \in T : \A u \in T : t <= u
    BY <2>1, LeastNumber
  <2>3. PICK x \in s : t = n - x
    OBVIOUS
  <2>4. ASSUME NEW y \in s PROVE x >= y
    <3>1. n - y \in T /\ n - x <= n - y
      BY <2>2, <2>3
    <3>2. x \in Int /\ y \in Int
      OBVIOUS
    <3> QED BY <3>1, <3>2
  <2> QED BY <2>4
<1> QED BY <1>1, <1>2 DEF Max, Min

\* f folds the first n elements: what g makes of the last one and the fold of
\* those before it.
FoldsTo(f, n, base, g) ==
    f = [s \in SUBSET (1..n) |-> IF s = {} THEN base ELSE g[<<Max(s), f[s \ {Max(s)}]>>]]

\* There is one, with values in A.
Foldable(A, n, base, g) == \E f \in [SUBSET (1..n) -> A] : FoldsTo(f, n, base, g)

\* The elements up to each one can be folded.
LEMMA FoldExists ==
    ASSUME NEW N \in Nat, NEW A, NEW base \in A, NEW g \in [(1..N) \X A -> A]
    PROVE  Foldable(A, N, base, g)
<1> DEFINE T == {n \in Nat : n <= N => Foldable(A, n, base, g)}
<1>1. 0 \in T
  <2> DEFINE f == [s \in SUBSET (1..0) |-> base]
  <2>1. \A s \in SUBSET (1..0) : s = {}
    OBVIOUS
  <2>2. f \in [SUBSET (1..0) -> A] /\ FoldsTo(f, 0, base, g)
    BY <2>1 DEF FoldsTo
  <2> QED BY <2>2 DEF Foldable
<1>2. ASSUME NEW n \in Nat, n \in T PROVE n + 1 \in T
  <2> SUFFICES ASSUME n + 1 <= N
               PROVE  Foldable(A, n + 1, base, g)
    OBVIOUS
  <2>1. PICK f \in [SUBSET (1..n) -> A] : FoldsTo(f, n, base, g)
    <3>1. Foldable(A, n, base, g)
      BY <1>2
    <3> QED BY <3>1 DEF Foldable
  <2> DEFINE h == [s \in SUBSET (1..(n + 1)) |->
                     IF n + 1 \in s THEN g[<<n + 1, f[s \ {n + 1}]>>] ELSE f[s]]
  <2>2. ASSUME NEW s \in SUBSET (1..(n + 1))
        PROVE  h[s] \in A /\ h[s] = IF s = {} THEN base ELSE g[<<Max(s), h[s \ {Max(s)}]>>]
    <3>1. CASE n + 1 \in s
      <4>1. Max(s) = n + 1
        <5>1. n + 1 \in Nat /\ s # {}
          BY <3>1
        <5>2. Max(s) \in s /\ Max(s) >= n + 1
          BY <3>1, <5>1, Ends
        <5>3. \A m \in s : m >= n + 1 => m = n + 1
          OBVIOUS
        <5> QED BY <5>2, <5>3
      <4>2. s \ {n + 1} \in SUBSET (1..n) /\ n + 1 \notin s \ {n + 1}
        OBVIOUS
      <4>3. s \ {n + 1} \in SUBSET (1..(n + 1))
        OBVIOUS
      <4>4. h[s \ {n + 1}] = f[s \ {n + 1}]
        BY <4>2, <4>3
      <4>5. f[s \ {n + 1}] \in A /\ n + 1 \in 1..N
        BY <4>2
      <4>6. g[<<n + 1, f[s \ {n + 1}]>>] \in A
        BY <4>5
      <4> QED BY <3>1, <4>1, <4>4, <4>6
    <3>2. CASE n + 1 \notin s
      <4>1. s \in SUBSET (1..n)
        BY <3>2
      <4>2. h[s] = f[s] /\ f[s] \in A
        BY <3>2, <4>1
      <4>3. CASE s = {}
        BY <2>1, <4>1, <4>2, <4>3 DEF FoldsTo
      <4>4. CASE s # {}
        <5>1. s \ {Max(s)} \in SUBSET (1..n) /\ s \ {Max(s)} \in SUBSET (1..(n + 1)) /\ n + 1 \notin s \ {Max(s)}
          <6>1. PICK r : r = s \ {Max(s)}
            OBVIOUS
          <6>2. r \subseteq s
            BY <6>1
          <6>3. r \in SUBSET (1..n) /\ r \in SUBSET (1..(n + 1)) /\ n + 1 \notin r
            BY <3>2, <4>1, <6>2
          <6> QED BY <6>1, <6>3
        <5>2. h[s \ {Max(s)}] = f[s \ {Max(s)}]
          BY <5>1
        <5>3. f[s] = g[<<Max(s), f[s \ {Max(s)}]>>]
          BY <2>1, <4>1, <4>4 DEF FoldsTo
        <5> QED BY <4>2, <4>4, <5>2, <5>3
      <4> QED BY <4>3, <4>4
    <3> QED BY <3>1, <3>2
  <2>3. h \in [SUBSET (1..(n + 1)) -> A]
    BY <2>2
  <2>4. h = [s \in SUBSET (1..(n + 1)) |->
               IF s = {} THEN base ELSE g[<<Max(s), h[s \ {Max(s)}]>>]]
    BY <2>2
  <2> QED BY <2>3, <2>4 DEF Foldable, FoldsTo
<1>3. N \in T
  BY <1>1, <1>2, Induction
<1> QED BY <1>3

\* A fold of the first k elements is made of the last and of those before it.
LEMMA FoldLast ==
    ASSUME NEW n \in Nat, NEW k \in 1..n
    PROVE  /\ 1..k \in SUBSET (1..n) /\ 1..k # {} /\ 1..(k - 1) \in SUBSET (1..n)
           /\ Max(1..k) = k /\ (1..k) \ {k} = 1..(k - 1)
<1>1. 1..k \in SUBSET (1..n) /\ 1..k # {} /\ 1..(k - 1) \in SUBSET (1..n) /\ k \in 1..k
  OBVIOUS
<1>2. Max(1..k) \in 1..k /\ Max(1..k) >= k
  BY <1>1, Ends
<1>3. (1..k) \ {k} = 1..(k - 1)
  OBVIOUS
<1> QED BY <1>1, <1>2, <1>3

=============================================================================
