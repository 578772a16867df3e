---------------------------- MODULE RefCountProofs ----------------------------
(***************************************************************************)
(* Proofs about RefCount: counters are exact, no tree holds a dropped      *)
(* value and nothing leaks, for any number of threads, trees and values.   *)
(*                                                                         *)
(* First what a list of accesses counts, for trees of any length.  Then    *)
(* the invariant IInv, one lemma for each action, and the theorems.  An    *)
(* action that edits trees is reduced to Edits, which says what it has to  *)
(* do to each value; EditKeeps carries the invariant over it.              *)
(***************************************************************************)
EXTENDS RefCount, SequenceLemmas

-----------------------------------------------------------------------------
(* The lists of accesses.                                                  *)

Inc(v) == [kind |-> "inc", of |-> v]
Dec(v) == [kind |-> "dec", of |-> v]
Test(v) == [kind |-> "test", of |-> v]

AccessesTo(V) == [kind : {"inc", "dec", "test"}, of : V]

\* A list of accesses counts v in as often as it occurs in s and out as often
\* as it occurs in r, and tests nothing.
CountsOne(A, v, in, out) ==
    /\ Occurs(A, Inc(v)) = Occurs(in, v)
    /\ Occurs(A, Dec(v)) = Occurs(out, v)
    /\ Occurs(A, Test(v)) = 0

Counts(V, A, in, out) ==
    A \in Seq(AccessesTo(V)) /\ \A v \in V : CountsOne(A, v, in, out)

\* One access is to one value.
LEMMA OneAccess ==
    ASSUME NEW V, Plain \notin V, NEW op \in V \cup {Plain}
    PROVE  Counts(V, Access("inc", op), <<op>>, <<>>) /\ Counts(V, Access("dec", op), <<>>, <<op>>)
<1>1. ASSUME NEW v \in V
      PROVE  /\ CountsOne(Access("inc", op), v, <<op>>, <<>>)
             /\ CountsOne(Access("dec", op), v, <<>>, <<op>>)
  <2>1. CASE op = Plain
    <3>1. Access("inc", op) = <<>> /\ Access("dec", op) = <<>> /\ op # v
      BY <2>1 DEF Access
    <3>2. \A w : Occurs(<<>>, w) = 0
      BY OccursFew
    <3>3. Occurs(<<op>>, v) = 0
      BY <3>1, OccursFew
    <3> QED BY <3>1, <3>2, <3>3, Zenon DEF CountsOne
  <2>2. CASE op # Plain
    <3>1. Access("inc", op) = <<Inc(op)>> /\ Access("dec", op) = <<Dec(op)>>
      BY <2>2 DEF Access, Inc, Dec
    <3>2. /\ \A w : Occurs(<<>>, w) = 0
          /\ \A w, x : Occurs(<<x>>, w) = IF x = w THEN 1 ELSE 0
      BY OccursFew
    <3>3. /\ Inc(op) = Inc(v) <=> op = v
          /\ Dec(op) = Dec(v) <=> op = v
          /\ Inc(op) # Dec(v) /\ Dec(op) # Inc(v) /\ Inc(op) # Test(v) /\ Dec(op) # Test(v)
      BY DEF Inc, Dec, Test
    <3>4. PICK a, b, c : a = Inc(op) /\ b = Dec(op) /\ c = op
      OBVIOUS
    <3>5. /\ Occurs(<<a>>, Inc(v)) = Occurs(<<c>>, v) /\ Occurs(<<a>>, Dec(v)) = Occurs(<<>>, v)
          /\ Occurs(<<b>>, Dec(v)) = Occurs(<<c>>, v) /\ Occurs(<<b>>, Inc(v)) = Occurs(<<>>, v)
          /\ Occurs(<<a>>, Test(v)) = 0 /\ Occurs(<<b>>, Test(v)) = 0
      <4>1. /\ a = Inc(v) <=> c = v
            /\ b = Dec(v) <=> c = v
            /\ a # Dec(v) /\ b # Inc(v) /\ a # Test(v) /\ b # Test(v)
        BY <3>3, <3>4, Zenon
      <4> QED BY <3>2, <4>1, Zenon
    <3> QED BY <3>1, <3>4, <3>5, Zenon DEF CountsOne
  <2> QED BY <2>1, <2>2
<1>2. Access("inc", op) \in Seq(AccessesTo(V)) /\ Access("dec", op) \in Seq(AccessesTo(V))
  <2>1. CASE op = Plain
    BY <2>1 DEF Access
  <2>2. CASE op # Plain
    <3>1. op \in V
      BY <2>2
    <3>2. [kind |-> "inc", of |-> op] \in AccessesTo(V) /\ [kind |-> "dec", of |-> op] \in AccessesTo(V)
      BY <3>1 DEF AccessesTo
    <3> QED BY <2>2, <3>2 DEF Access
  <2> QED BY <2>1, <2>2
<1> QED BY <1>1, <1>2 DEF Counts

\* One list behind another one.
LEMMA ListsJoined ==
    ASSUME NEW V, NEW A, NEW B, NEW W, NEW in \in Seq(W), NEW out \in Seq(W),
           Counts(V, A, in, <<>>), Counts(V, B, <<>>, out)
    PROVE  Counts(V, A \o B, in, out) /\ Counts(V, B \o A, in, out)
<1>1. A \in Seq(AccessesTo(V)) /\ B \in Seq(AccessesTo(V))
  BY DEF Counts
<1>2. A \o B \in Seq(AccessesTo(V)) /\ B \o A \in Seq(AccessesTo(V))
  BY <1>1, Joined
<1>3. ASSUME NEW v \in V
      PROVE  CountsOne(A \o B, v, in, out) /\ CountsOne(B \o A, v, in, out)
  <2>1. /\ Occurs(A, Inc(v)) = Occurs(in, v) /\ Occurs(B, Inc(v)) = 0
        /\ Occurs(A, Dec(v)) = 0 /\ Occurs(B, Dec(v)) = Occurs(out, v)
        /\ Occurs(A, Test(v)) = 0 /\ Occurs(B, Test(v)) = 0
    BY OccursFew DEF Counts, CountsOne
  <2>2. \A w : /\ Occurs(A \o B, w) = Occurs(A, w) + Occurs(B, w)
               /\ Occurs(B \o A, w) = Occurs(B, w) + Occurs(A, w)
    BY <1>1, OccursJoined
  <2>3. PICK m, n : m = Occurs(in, v) /\ n = Occurs(out, v)
    OBVIOUS
  <2>4. m \in Nat /\ n \in Nat
    BY <2>3, OccursType
  <2>5. /\ Occurs(A \o B, Inc(v)) = m + 0 /\ Occurs(B \o A, Inc(v)) = 0 + m
        /\ Occurs(A \o B, Dec(v)) = 0 + n /\ Occurs(B \o A, Dec(v)) = n + 0
        /\ Occurs(A \o B, Test(v)) = 0 + 0 /\ Occurs(B \o A, Test(v)) = 0 + 0
    BY <2>1, <2>2, <2>3, Zenon
  <2>6. m + 0 = m /\ 0 + m = m /\ n + 0 = n /\ 0 + n = n /\ 0 + 0 = 0
    BY <2>4
  <2> QED BY <2>3, <2>5, <2>6, Zenon DEF CountsOne
<1> QED BY <1>2, <1>3 DEF Counts

\* Lists, one for each operator of two sequences, joined in order.
LEMMA ListsFlattened ==
    ASSUME NEW V, NEW n \in Nat, NEW W, NEW in \in Seq(W), NEW out \in Seq(W),
           Len(in) <= n, Len(out) <= n,
           NEW lists, lists \in [1..n -> Seq(AccessesTo(V))],
           \A i \in 1..n : Counts(V, lists[i], Singles(in, n)[i], Singles(out, n)[i])
    PROVE  Counts(V, FlattenSeq(lists), in, out)
<1>1. lists \in Seq(Seq(AccessesTo(V))) /\ Len(lists) = n
  OBVIOUS
<1>2. /\ FlattenSeq(lists) \in Seq(AccessesTo(V))
      /\ \A w : Occurs(FlattenSeq(lists), w) = Cardinality(Spots(1..n, lists, w))
  BY <1>1, OccursFlattened
<1>3. \A i \in 1..n : Len(lists[i]) \in Nat
  OBVIOUS
<1>4. IsFiniteSet(1..n)
  BY FS_Interval
<1>5. ASSUME NEW s \in Seq(W), Len(s) <= n, NEW v, NEW w,
             \A i \in 1..n : Occurs(lists[i], w) = Occurs(Singles(s, n)[i], v)
      PROVE  Cardinality(Spots(1..n, lists, w)) = Occurs(s, v)
  <2>1. Len(s) \in 0..n
    BY <1>5
  <2>2. PICK f : f = Singles(s, n)
    OBVIOUS
  <2>3. /\ IsFiniteSet(Spots(1..n, f, v)) /\ Cardinality(Spots(1..n, f, v)) = Occurs(s, v)
        /\ \A i \in 1..n : Len(f[i]) \in Nat
    BY <2>1, <2>2, SpotsOfSingles
  <2>4. \A i \in 1..n : Len(f[i]) \in Nat /\ Len(lists[i]) \in Nat /\ Occurs(lists[i], w) = Occurs(f[i], v)
    BY <1>3, <1>5, <2>2, <2>3
  <2>5. Cardinality(Spots(1..n, lists, w)) = Cardinality(Spots(1..n, f, v))
    <3>1. PICK U : U = 1..n
      OBVIOUS
    <3>2. IsFiniteSet(U) /\ IsFiniteSet(Spots(U, f, v))
      BY <1>4, <2>3, <3>1, Zenon
    <3>3. \A i \in U : Len(f[i]) \in Nat /\ Len(lists[i]) \in Nat /\ Occurs(lists[i], w) = Occurs(f[i], v)
      BY <2>4, <3>1, Zenon
    <3>4. Cardinality(Spots(U, lists, w)) = Cardinality(Spots(U, f, v))
      BY <3>2, <3>3, SpotsEqual
    <3> QED BY <3>1, <3>4, Zenon
  <2> QED BY <2>3, <2>5
<1>6. ASSUME NEW v \in V PROVE CountsOne(FlattenSeq(lists), v, in, out)
  <2>1. \A i \in 1..n : /\ Occurs(lists[i], Inc(v)) = Occurs(Singles(in, n)[i], v)
                        /\ Occurs(lists[i], Dec(v)) = Occurs(Singles(out, n)[i], v)
                        /\ Occurs(lists[i], Test(v)) = 0
    BY DEF Counts, CountsOne
  <2>2. Cardinality(Spots(1..n, lists, Inc(v))) = Occurs(in, v)
    BY <1>5, <2>1
  <2>3. Cardinality(Spots(1..n, lists, Dec(v))) = Occurs(out, v)
    BY <1>5, <2>1
  <2>4. Cardinality(Spots(1..n, lists, Test(v))) = 0
    <3>1. Spots(1..n, lists, Test(v)) = {}
      BY <1>3, <2>1, SpotsOccur
    <3> QED BY <3>1, FS_EmptySet
  <2> QED BY <1>2, <2>2, <2>3, <2>4, Zenon DEF CountsOne
<1> QED BY <1>2, <1>6 DEF Counts

\* What each operation on a tree asks for, at an operator of the old and one of
\* the new tree.
LEMMA SinglesAre ==
    ASSUME NEW W, NEW s \in Seq(W), NEW n \in Nat, Len(s) <= n, NEW i \in 1..n
    PROVE  /\ i <= Len(s) => s[i] \in W /\ Singles(s, n)[i] = <<s[i]>>
           /\ ~(i <= Len(s)) => Singles(s, n)[i] = <<>>
           /\ Singles(s, n)[i] \in Seq(W)
BY DEF Singles

\* copy_fast counts the new tree in and the old one out.
LEMMA CopyCounts ==
    ASSUME NEW V, Plain \notin V, NEW old \in Seq(V \cup {Plain}), NEW new \in Seq(V \cup {Plain})
    PROVE  Counts(V, CopyAccesses(old, new), new, old)
<1> DEFINE W == V \cup {Plain}
           n == IF Len(old) > Len(new) THEN Len(old) ELSE Len(new)
           up(i) == IF i <= Len(new) THEN Access("inc", new[i]) ELSE <<>>
           down(i) == IF i <= Len(old) THEN Access("dec", old[i]) ELSE <<>>
           lists == [i \in 1..n |-> up(i) \o down(i)]
<1>1. n \in Nat /\ Len(old) <= n /\ Len(new) <= n /\ old \in Seq(W) /\ new \in Seq(W)
  OBVIOUS
<1>2. CopyAccesses(old, new) = FlattenSeq(lists)
  BY DEF CopyAccesses
<1> HIDE DEF n
<1>3. \A w : Occurs(<<>>, w) = 0
  BY OccursFew
<1>4. Counts(V, <<>>, <<>>, <<>>)
  BY <1>3 DEF Counts, CountsOne
<1>5. ASSUME NEW i \in 1..n
      PROVE  /\ Counts(V, up(i), Singles(new, n)[i], <<>>)
             /\ Counts(V, down(i), <<>>, Singles(old, n)[i])
             /\ Singles(new, n)[i] \in Seq(W) /\ Singles(old, n)[i] \in Seq(W)
  <2>1. /\ i <= Len(new) => new[i] \in W /\ Singles(new, n)[i] = <<new[i]>>
        /\ ~(i <= Len(new)) => Singles(new, n)[i] = <<>>
        /\ Singles(new, n)[i] \in Seq(W)
    BY <1>1, SinglesAre
  <2>2. /\ i <= Len(old) => old[i] \in W /\ Singles(old, n)[i] = <<old[i]>>
        /\ ~(i <= Len(old)) => Singles(old, n)[i] = <<>>
        /\ Singles(old, n)[i] \in Seq(W)
    BY <1>1, SinglesAre
  <2>3. Counts(V, up(i), Singles(new, n)[i], <<>>)
    <3>1. CASE i <= Len(new)
      <4>1. Counts(V, Access("inc", new[i]), <<new[i]>>, <<>>)
        BY <2>1, <3>1, OneAccess
      <4> QED BY <2>1, <3>1, <4>1, Zenon
    <3>2. CASE ~(i <= Len(new))
      BY <1>4, <2>1, <3>2, Zenon
    <3> QED BY <3>1, <3>2
  <2>4. Counts(V, down(i), <<>>, Singles(old, n)[i])
    <3>1. CASE i <= Len(old)
      <4>1. Counts(V, Access("dec", old[i]), <<>>, <<old[i]>>)
        BY <2>2, <3>1, OneAccess
      <4> QED BY <2>2, <3>1, <4>1, Zenon
    <3>2. CASE ~(i <= Len(old))
      BY <1>4, <2>2, <3>2, Zenon
    <3> QED BY <3>1, <3>2
  <2> HIDE DEF up, down
  <2> QED BY <2>1, <2>2, <2>3, <2>4, Zenon
<1> HIDE DEF up, down, W
<1>6. ASSUME NEW i \in 1..n
      PROVE  Counts(V, up(i) \o down(i), Singles(new, n)[i], Singles(old, n)[i])
  BY <1>5, ListsJoined
<1>7. \A i \in 1..n : lists[i] = up(i) \o down(i)
  OBVIOUS
<1>8. \A i \in 1..n : Counts(V, lists[i], Singles(new, n)[i], Singles(old, n)[i])
  BY <1>6, <1>7, Zenon
<1>9. lists \in [1..n -> Seq(AccessesTo(V))]
  BY <1>6 DEF Counts
<1> HIDE DEF lists
<1>10. Counts(V, FlattenSeq(lists), new, old)
  BY <1>1, <1>8, <1>9, ListsFlattened
<1> QED BY <1>2, <1>10, Zenon

\* The increments of all operators and the decrements of all operators.
LEMMA AllCounts ==
    ASSUME NEW V, Plain \notin V, NEW s \in Seq(V \cup {Plain})
    PROVE  Counts(V, Increments(s), s, <<>>) /\ Counts(V, Decrements(s), <<>>, s)
<1> DEFINE W == V \cup {Plain}
           n == Len(s)
           ups == [i \in 1..n |-> Access("inc", s[i])]
           downs == [i \in 1..n |-> Access("dec", s[i])]
<1>1. /\ n \in Nat /\ Len(s) <= n /\ s \in Seq(W)
      /\ <<>> \in Seq(W) /\ Len(<<>>) <= n
  OBVIOUS
<1>2. Increments(s) = FlattenSeq(ups) /\ Decrements(s) = FlattenSeq(downs)
  BY DEF Increments, Decrements
<1>3. ASSUME NEW i \in 1..n
      PROVE  /\ Counts(V, Access("inc", s[i]), Singles(s, n)[i], Singles(<<>>, n)[i])
             /\ Counts(V, Access("dec", s[i]), Singles(<<>>, n)[i], Singles(s, n)[i])
  <2>1. s[i] \in W /\ Singles(s, n)[i] = <<s[i]>> /\ Singles(<<>>, n)[i] = <<>>
    BY <1>1 DEF Singles
  <2> QED BY <2>1, OneAccess, Zenon
<1> HIDE DEF n, W
<1>4. /\ \A i \in 1..n : ups[i] = Access("inc", s[i])
      /\ \A i \in 1..n : downs[i] = Access("dec", s[i])
  OBVIOUS
<1>5. ups \in [1..n -> Seq(AccessesTo(V))] /\ downs \in [1..n -> Seq(AccessesTo(V))]
  BY <1>3 DEF Counts
<1> HIDE DEF ups, downs
<1>6. \A i \in 1..n : Counts(V, ups[i], Singles(s, n)[i], Singles(<<>>, n)[i])
  BY <1>3, <1>4, Zenon
<1>7. \A i \in 1..n : Counts(V, downs[i], Singles(<<>>, n)[i], Singles(s, n)[i])
  BY <1>3, <1>4, Zenon
<1>8. PICK e : e = <<>>
  OBVIOUS
<1>9. Counts(V, FlattenSeq(ups), s, e)
  <2>1. /\ e \in Seq(W) /\ Len(e) <= n
        /\ \A i \in 1..n : Counts(V, ups[i], Singles(s, n)[i], Singles(e, n)[i])
    BY <1>1, <1>6, <1>8, Zenon
  <2> QED BY <1>1, <1>5, <2>1, ListsFlattened
<1>10. Counts(V, FlattenSeq(downs), e, s)
  <2>1. /\ e \in Seq(W) /\ Len(e) <= n
        /\ \A i \in 1..n : Counts(V, downs[i], Singles(e, n)[i], Singles(s, n)[i])
    BY <1>1, <1>7, <1>8, Zenon
  <2> QED BY <1>1, <1>5, <2>1, ListsFlattened
<1> QED BY <1>2, <1>8, <1>9, <1>10, Zenon

\* Lists count the same for sequences with the same occurrences.
LEMMA SameCounts ==
    ASSUME NEW V, NEW A, NEW in, NEW out, NEW r, NEW s, Counts(V, A, in, out),
           \A w : Occurs(r, w) = Occurs(in, w), \A w : Occurs(s, w) = Occurs(out, w)
    PROVE  Counts(V, A, r, s)
BY DEF Counts, CountsOne

\* copy_subtree counts from the end, replace_subtree the old part first.
LEMMA PartCounts ==
    ASSUME NEW V, Plain \notin V, NEW out \in Seq(V \cup {Plain}), NEW in \in Seq(V \cup {Plain})
    PROVE  /\ Counts(V, Increments(Reverse(in)), in, <<>>)
           /\ Counts(V, ReplaceAccesses(out, in), in, out)
<1>1. Reverse(in) \in Seq(V \cup {Plain}) /\ Reverse(out) \in Seq(V \cup {Plain})
  BY OccursReversed
<1>2. \A w : Occurs(Reverse(in), w) = Occurs(in, w) /\ Occurs(Reverse(out), w) = Occurs(out, w)
  BY OccursReversed
<1>3. Counts(V, Increments(Reverse(in)), in, <<>>)
  BY <1>1, <1>2, AllCounts, SameCounts
<1>4. Counts(V, Decrements(Reverse(out)), <<>>, out)
  BY <1>1, <1>2, AllCounts, SameCounts
<1>5. Counts(V, Increments(in), in, <<>>)
  BY AllCounts
<1>6. Counts(V, Decrements(Reverse(out)) \o Increments(in), in, out)
  BY <1>4, <1>5, ListsJoined
<1> QED BY <1>3, <1>6 DEF ReplaceAccesses

-----------------------------------------------------------------------------
(* The trees of a population in some order.                                *)

\* SetToSeq lists each element once.
LEMMA Listed ==
    ASSUME NEW D, IsFiniteSet(D)
    PROVE  /\ Len(SetToSeq(D)) = Cardinality(D) /\ Cardinality(D) \in Nat
           /\ SetToSeq(D) \in Bijection(1..Cardinality(D), D)
<1> DEFINE n == Cardinality(D)
<1>1. n \in Nat /\ ExistsBijection(1..n, D)
  BY FS_CardinalityType
<1>2. PICK g : g \in Bijection(1..n, D)
  BY <1>1 DEF ExistsBijection
<1>3. g \in [1..n -> D] /\ IsInjective(g)
  BY <1>2 DEF Bijection, Injection
<1>4. SetToSeq(D) = CHOOSE f \in [1..n -> D] : IsInjective(f)
  BY DEF SetToSeq
<1> HIDE DEF n
<1>5. SetToSeq(D) \in [1..n -> D] /\ IsInjective(SetToSeq(D))
  BY <1>3, <1>4
<1>6. PICK f : f = SetToSeq(D)
  OBVIOUS
<1>7. f \in Injection(1..n, D) /\ Len(f) = n
  BY <1>1, <1>5, <1>6 DEF Injection
<1>8. Cardinality(1..n) = Cardinality(D)
  <2>1. Cardinality(1..n) = IF 1 > n THEN 0 ELSE n - 1 + 1
    BY <1>1, FS_Interval
  <2>2. Cardinality(1..n) = n
    BY <1>1, <2>1
  <2> QED BY <2>2 DEF n
<1>9. f \in Surjection(1..n, D)
  BY <1>7, <1>8, FS_Injection
<1> QED BY <1>1, <1>6, <1>7, <1>9 DEF n, Bijection

\* An injection into a set of the same size leaves nothing out.
LEMMA Onto ==
    ASSUME NEW C, NEW D, IsFiniteSet(C), IsFiniteSet(D), Cardinality(C) = Cardinality(D)
    PROVE  /\ \E f : f \in [C -> D] /\ IsInjective(f)
           /\ \A f \in [C -> D] : IsInjective(f) => f \in Bijection(C, D)
<1>1. ExistsBijection(C, D)
  BY FS_SameCardinalityBij
<1>2. \E f : f \in [C -> D] /\ IsInjective(f)
  BY <1>1 DEF ExistsBijection, Bijection, Injection
<1>3. ASSUME NEW f \in [C -> D], IsInjective(f) PROVE f \in Bijection(C, D)
  <2>1. f \in Injection(C, D)
    BY <1>3 DEF Injection
  <2>2. f \in Surjection(C, D)
    BY <2>1, FS_Injection
  <2> QED BY <2>1, <2>2 DEF Bijection
<1> QED BY <1>2, <1>3

\* The lists of all trees of D, in the order of SetToSeq.
ListOf(D, k) == FlattenSeq([i \in 1..Len(SetToSeq(D)) |-> k[SetToSeq(D)[i]]])

\* What it holds is what the lists hold.
LEMMA ListsOfTrees ==
    ASSUME NEW V, NEW D, IsFiniteSet(D), NEW k \in [D -> Seq(V)]
    PROVE  /\ ListOf(D, k) \in Seq(V)
           /\ \A w : /\ IsFiniteSet(Spots(D, k, w))
                     /\ Occurs(ListOf(D, k), w) = Cardinality(Spots(D, k, w))
<1>1. PICK e, n, lists : /\ e = SetToSeq(D) /\ n = Cardinality(D)
                         /\ lists = [i \in 1..Len(SetToSeq(D)) |-> k[SetToSeq(D)[i]]]
  OBVIOUS
<1>2. n \in Nat /\ Len(e) = n /\ e \in Bijection(1..n, D)
  BY <1>1, Listed
<1>3. e \in [1..n -> D]
  BY <1>2 DEF Bijection, Injection
<1>4. lists \in Seq(Seq(V)) /\ Len(lists) = n /\ \A i \in 1..n : lists[i] = k[e[i]]
  <2>1. lists = [i \in 1..n |-> k[e[i]]]
    BY <1>1, <1>2, Zenon
  <2> QED BY <1>2, <1>3, <2>1
<1>5. /\ FlattenSeq(lists) \in Seq(V)
      /\ \A w : Occurs(FlattenSeq(lists), w) = Cardinality(Spots(1..Len(lists), lists, w))
  BY <1>4, OccursFlattened
<1>6. PICK U : U = 1..n
  OBVIOUS
<1>7. e \in Bijection(U, D) /\ \A i \in U : lists[i] = k[e[i]]
  BY <1>2, <1>4, <1>6, Zenon
<1>8. \A w : IsFiniteSet(Spots(D, k, w))
  <2>1. \A d \in D : Len(k[d]) \in Nat
    OBVIOUS
  <2> QED BY <2>1, SpotsFinite
<1>9. \A w : Cardinality(Spots(U, lists, w)) = Cardinality(Spots(D, k, w))
  BY <1>7, <1>8, SpotsRenamed
<1>10. ListOf(D, k) = FlattenSeq(lists)
  BY <1>1, Zenon DEF ListOf
<1> QED BY <1>4, <1>5, <1>6, <1>8, <1>9, <1>10, Zenon

-----------------------------------------------------------------------------
(* The inductive invariant.                                                *)

Operators == Values \cup {Plain}
Accesses == AccessesTo(Values)

\* In how many places v is held, and how many accesses w are still to come.
Held(v) == Cardinality(Spots(Trees, ops, v))
Owed(w) == Cardinality(Spots(Threads, todo, w))

Typed ==
    /\ setting \in Settings /\ front \in BOOLEAN /\ generation \in 0..MaxGen
    /\ phase \in {"breed", "exit", "destroy"}
    /\ ops \in [Trees -> Seq(Operators)] /\ \A tr \in Trees : Len(ops[tr]) <= MaxLen
    /\ count \in [Values -> Nat] /\ drops \in [Values -> Nat]
    /\ life \in [Values -> {"unborn", "live", "dropped"}]
    /\ todo \in [Threads -> Seq(Accesses)]
    /\ slot \in [Threads -> SUBSET Next_pop] /\ bred \subseteq Next_pop

\* No slot has two threads, and none has one while the owner resets or once the
\* threads end; a test follows its decrement at once.
Discipline ==
    /\ \A t, u \in Threads : t # u => Apart(slot[t], slot[u])
    /\ \A t \in Threads : slot[t] \subseteq bred
    /\ OwnerBusy \/ phase # "breed" => \A t \in Threads : slot[t] = {}
    /\ \A t \in Threads : \A i \in 1..Len(todo[t]) : todo[t][i].kind = "test" => i = 1

\* The trees whose new operators t may still have to count in: its own tree and
\* its slots, or the next population while the owner resets.
Filling(t) == (IF t = Main /\ OwnerBusy THEN Next_pop ELSE slot[t]) \cup {MyTree(t)}

\* What t has to count in of v lies in the trees it fills, and one more place
\* holds v: in a tree it fills or in the current population.
BackedBy(due, mine, shared) == due # 0 => due <= mine /\ (due < mine \/ shared # 0)

Backed(t, v) ==
    BackedBy(Occurs(todo[t], Inc(v)),
             Cardinality(Spots(Filling(t), ops, v)),
             Cardinality(Spots(Current, ops, v)))

\* A live value is counted exactly, and at zero a test of it is still to come.
LiveOK(held, c, inc, dec, test, d) ==
    c + inc = held + dec /\ (c = 0 => test # 0) /\ d = 0

\* A value that does not live is held in no tree and no list counts it.
GoneOK(held, inc, dec, test, d, unborn, alone) ==
    /\ held = 0 /\ inc = 0 /\ dec = 0
    /\ unborn => test = 0 /\ d = 0
    /\ alone => test = 0 /\ d <= 1

ValueOK(v) ==
    IF life[v] = "live"
    THEN LiveOK(Held(v), count[v], Owed(Inc(v)), Owed(Dec(v)), Owed(Test(v)), drops[v])
    ELSE GoneOK(Held(v), Owed(Inc(v)), Owed(Dec(v)), Owed(Test(v)), drops[v],
                life[v] = "unborn", Alone)

IInv ==
    /\ Typed
    /\ Discipline
    /\ \A t \in Threads, v \in Values : Backed(t, v)
    /\ \A v \in Values : ValueOK(v)

-----------------------------------------------------------------------------
(* What holds in every state.                                              *)

\* What the configurations give.
LEMMA Config ==
    ASSUME setting \in Settings
    PROVE  /\ Main \in Threads /\ Plain \notin Values /\ Apart(PopA, PopB)
           /\ \A t \in Threads : MyTree(t) \in Trees /\ MyTree(t) \notin PopA \cup PopB
           /\ \A t, u \in Threads : MyTree(t) = MyTree(u) => t = u
           /\ IsFiniteSet(Threads) /\ IsFiniteSet(PopA) /\ IsFiniteSet(PopB) /\ IsFiniteSet(Trees)
           /\ Cardinality(PopA) = Cardinality(PopB) /\ MaxLen \in Nat \ {0}
           /\ Scratch = {MyTree(t) : t \in Threads}
           /\ \E f \in [PopA -> Values] : IsInjective(f)
           /\ PopA \subseteq Trees /\ PopB \subseteq Trees
           /\ Trees = PopA \cup PopB \cup Scratch
           /\ Current \cup Next_pop = PopA \cup PopB /\ Apart(Current, Next_pop)
           /\ IsFiniteSet(Current) /\ IsFiniteSet(Next_pop)
           /\ Cardinality(Current) = Cardinality(Next_pop)
<1> DEFINE s == setting
<1>1. /\ Main \notin s.workers /\ Plain \notin s.values
      /\ s.popA \cap s.popB = {} /\ (s.popA \cup s.popB) \cap [owner : s.workers \cup {Main}] = {}
      /\ IsFiniteSet(s.workers) /\ IsFiniteSet(s.popA) /\ IsFiniteSet(s.popB)
      /\ Cardinality(s.popA) = Cardinality(s.popB)
      /\ \E f \in [s.popA -> s.values] : IsInjective(f)
      /\ s.maxLen \in Nat \ {0}
  BY SettingsAssumption
<1>2. /\ Threads = s.workers \cup {Main} /\ Values = s.values
      /\ PopA = s.popA /\ PopB = s.popB /\ MaxLen = s.maxLen
      /\ Scratch = [owner : Threads] /\ Trees = PopA \cup PopB \cup Scratch
      /\ \A t : MyTree(t) = [owner |-> t]
  BY DEF Threads, Values, PopA, PopB, MaxLen, Scratch, Trees, MyTree
<1>3. Main \in Threads /\ Plain \notin Values /\ Apart(PopA, PopB)
  BY <1>1, <1>2 DEF Apart
<1>4. \A t \in Threads : MyTree(t) \in Scratch
  BY <1>2
<1>5. \A t \in Threads : MyTree(t) \in Trees /\ MyTree(t) \notin PopA \cup PopB
  BY <1>1, <1>2, <1>4
<1>6. \A t, u \in Threads : MyTree(t) = MyTree(u) => t = u
  BY <1>2
<1>7. Scratch = {MyTree(t) : t \in Threads}
  <2>1. \A x \in [owner : Threads] : x.owner \in Threads /\ x = [owner |-> x.owner]
    OBVIOUS
  <2>2. \A x \in Scratch : \E t \in Threads : x = MyTree(t)
    BY <1>2, <2>1
  <2> QED BY <1>4, <2>2
<1>8. IsFiniteSet(Threads)
  BY <1>1, <1>2, FS_AddElement
<1>9. IsFiniteSet(Scratch)
  <2> DEFINE f == [t \in Threads |-> MyTree(t)]
  <2>1. f \in Surjection(Threads, Scratch)
    BY <1>7 DEF Surjection
  <2> QED BY <1>8, <2>1, FS_Surjection
<1>10. IsFiniteSet(Trees)
  BY <1>1, <1>2, <1>9, FS_Union
<1>11. /\ Current \cup Next_pop = PopA \cup PopB /\ Apart(Current, Next_pop)
       /\ IsFiniteSet(Current) /\ IsFiniteSet(Next_pop)
       /\ Cardinality(Current) = Cardinality(Next_pop)
  BY <1>1, <1>2, <1>3 DEF Current, Next_pop, Apart
<1> QED BY <1>1, <1>2, <1>3, <1>5, <1>6, <1>7, <1>8, <1>10, <1>11

\* A step keeps the configuration.
LEMMA Fixed ==
    ASSUME setting' = setting
    PROVE  /\ Threads' = Threads /\ PopA' = PopA /\ PopB' = PopB /\ Values' = Values
           /\ MaxLen' = MaxLen /\ Scratch' = Scratch /\ Trees' = Trees /\ Alone' = Alone
           /\ Operators' = Operators /\ Accesses' = Accesses
BY DEF Threads, PopA, PopB, Values, MaxLen, Scratch, Trees, Alone, Operators, Accesses, AccessesTo

\* Lists and trees have lengths, so what they hold can be counted.
LEMMA Countable ==
    ASSUME Typed
    PROVE  /\ \A tr \in Trees : Len(ops[tr]) \in Nat /\ ops[tr] \in Seq(Operators)
           /\ \A t \in Threads : Len(todo[t]) \in Nat /\ todo[t] \in Seq(Accesses)
           /\ \A v : \A D \in SUBSET Trees :
                IsFiniteSet(Spots(D, ops, v)) /\ Cardinality(Spots(D, ops, v)) \in Nat
           /\ \A w : \A T \in SUBSET Threads :
                IsFiniteSet(Spots(T, todo, w)) /\ Cardinality(Spots(T, todo, w)) \in Nat
           /\ \A v : Held(v) \in Nat
           /\ \A w : Owed(w) \in Nat
<1>1. /\ \A tr \in Trees : Len(ops[tr]) \in Nat /\ ops[tr] \in Seq(Operators)
      /\ \A t \in Threads : Len(todo[t]) \in Nat /\ todo[t] \in Seq(Accesses)
  BY DEF Typed
<1>2. IsFiniteSet(Trees) /\ IsFiniteSet(Threads)
  BY Config DEF Typed
<1>3. ASSUME NEW v, NEW D \in SUBSET Trees
      PROVE  IsFiniteSet(Spots(D, ops, v)) /\ Cardinality(Spots(D, ops, v)) \in Nat
  BY <1>1, <1>2, FS_Subset, SpotsFinite
<1>4. ASSUME NEW w, NEW T \in SUBSET Threads
      PROVE  IsFiniteSet(Spots(T, todo, w)) /\ Cardinality(Spots(T, todo, w)) \in Nat
  BY <1>1, <1>2, FS_Subset, SpotsFinite
<1>5. \A v : Held(v) \in Nat
  BY <1>3 DEF Held
<1>6. \A w : Owed(w) \in Nat
  BY <1>4 DEF Owed
<1> QED BY <1>1, <1>3, <1>4, <1>5, <1>6

\* What the threads fill.
LEMMA FillingApart ==
    ASSUME Typed, Discipline
    PROVE  /\ \A t \in Threads : Filling(t) \subseteq Trees /\ Apart(Filling(t), Current)
           /\ \A t, u \in Threads : t # u => Apart(Filling(t), Filling(u))
<1>1. /\ \A t \in Threads : MyTree(t) \in Trees /\ MyTree(t) \notin PopA \cup PopB
      /\ \A t, u \in Threads : MyTree(t) = MyTree(u) => t = u
      /\ Current \cup Next_pop = PopA \cup PopB /\ PopA \cup PopB \subseteq Trees
      /\ Apart(Current, Next_pop)
  BY Config DEF Typed
<1>2. ASSUME NEW t \in Threads
      PROVE  \E S \in SUBSET Next_pop :
               /\ Filling(t) = S \cup {MyTree(t)}
               /\ \A u \in Threads : u # t => Apart(S, slot[u]) /\ (u = Main /\ OwnerBusy => S = {})
  <2>1. slot[t] \in SUBSET Next_pop
    BY DEF Typed
  <2>2. CASE t = Main /\ OwnerBusy
    <3>1. \A u \in Threads : Apart(Next_pop, slot[u])
      BY <2>2 DEF Discipline, Apart
    <3>2. Filling(t) = Next_pop \cup {MyTree(t)}
      BY <2>2 DEF Filling
    <3> QED BY <2>2, <3>1, <3>2
  <2>3. CASE ~(t = Main /\ OwnerBusy)
    <3>1. Filling(t) = slot[t] \cup {MyTree(t)}
      BY <2>3 DEF Filling
    <3>2. \A u \in Threads : u # t => Apart(slot[t], slot[u])
      BY DEF Discipline
    <3>3. OwnerBusy => slot[t] = {}
      BY DEF Discipline
    <3> QED BY <2>1, <3>1, <3>2, <3>3
  <2> QED BY <2>2, <2>3
<1>3. ASSUME NEW t \in Threads PROVE Filling(t) \subseteq Trees /\ Apart(Filling(t), Current)
  <2>1. PICK S \in SUBSET Next_pop : Filling(t) = S \cup {MyTree(t)}
    BY <1>2
  <2> QED BY <1>1, <2>1 DEF Apart
<1>4. ASSUME NEW t \in Threads, NEW u \in Threads, t # u PROVE Apart(Filling(t), Filling(u))
  <2>1. PICK S \in SUBSET Next_pop :
               /\ Filling(t) = S \cup {MyTree(t)}
               /\ Apart(S, slot[u]) /\ (u = Main /\ OwnerBusy => S = {})
    BY <1>2, <1>4
  <2>2. Filling(u) = (IF u = Main /\ OwnerBusy THEN Next_pop ELSE slot[u]) \cup {MyTree(u)}
    BY DEF Filling
  <2>3. MyTree(t) # MyTree(u) /\ MyTree(t) \notin Next_pop /\ MyTree(u) \notin Next_pop
    BY <1>1, <1>4
  <2>4. slot[u] \subseteq Next_pop
    BY DEF Typed
  <2>5. CASE u = Main /\ OwnerBusy
    BY <2>1, <2>2, <2>3, <2>5 DEF Apart
  <2>6. CASE ~(u = Main /\ OwnerBusy)
    BY <2>1, <2>2, <2>3, <2>4, <2>6 DEF Apart
  <2> QED BY <2>5, <2>6
<1> QED BY <1>3, <1>4

\* A value that is held has one place more than the lists have yet to count in.
LEMMA HeldBeyondDue ==
    ASSUME IInv, NEW v \in Values
    PROVE  Owed(Inc(v)) <= Held(v) /\ (Held(v) # 0 => Owed(Inc(v)) < Held(v))
<1>1. Typed /\ Discipline /\ \A t \in Threads : Backed(t, v)
  BY DEF IInv
<1>2. /\ \A t \in Threads : Len(todo[t]) \in Nat
      /\ \A D \in SUBSET Trees : IsFiniteSet(Spots(D, ops, v)) /\ Cardinality(Spots(D, ops, v)) \in Nat
      /\ \A T \in SUBSET Threads : /\ IsFiniteSet(Spots(T, todo, Inc(v)))
                                   /\ Cardinality(Spots(T, todo, Inc(v))) \in Nat
      /\ Held(v) \in Nat /\ Owed(Inc(v)) \in Nat
  BY <1>1, Countable
<1>3. PICK F : F = [t \in Threads |-> Filling(t)]
  OBVIOUS
<1>4. /\ \A t \in Threads : F[t] \in SUBSET Trees /\ Apart(F[t], Current) /\ F[t] = Filling(t)
      /\ \A t, u \in Threads : t # u => Apart(F[t], F[u])
  BY <1>1, <1>3, FillingApart
<1>5. ASSUME NEW t \in Threads
      PROVE  /\ Occurs(todo[t], Inc(v)) \in Nat
             /\ Occurs(todo[t], Inc(v)) <= Cardinality(Spots(F[t], ops, v))
             /\ Occurs(todo[t], Inc(v)) # 0 =>
                  \/ Occurs(todo[t], Inc(v)) < Cardinality(Spots(F[t], ops, v))
                  \/ Cardinality(Spots(Current, ops, v)) # 0
  <2>1. Occurs(todo[t], Inc(v)) \in Nat /\ Cardinality(Spots(F[t], ops, v)) \in Nat
    BY <1>2, <1>4, OccursType
  <2>2. F[t] = Filling(t)
    BY <1>4
  <2>3. BackedBy(Occurs(todo[t], Inc(v)), Cardinality(Spots(F[t], ops, v)),
                 Cardinality(Spots(Current, ops, v)))
    BY <1>1, <2>2 DEF Backed
  <2> QED BY <2>1, <2>3 DEF BackedBy
<1>6. IsFiniteSet(Threads) /\ IsFiniteSet(Trees) /\ Current \in SUBSET Trees
  BY <1>1, Config DEF Typed
<1>7. ASSUME NEW U \in SUBSET Threads
      PROVE  /\ Cover(F, U) \in SUBSET Trees
             /\ Cardinality(Spots(U, todo, Inc(v))) <= Cardinality(Spots(Cover(F, U), ops, v))
  <2>1. Cover(F, U) \in SUBSET Trees
    BY <1>4 DEF Cover
  <2>2. /\ IsFiniteSet(U) /\ \A t, u \in U : t # u => Apart(F[t], F[u])
        /\ \A t \in U : /\ Len(todo[t]) \in Nat
                        /\ Occurs(todo[t], Inc(v)) <= Cardinality(Spots(F[t], ops, v))
        /\ IsFiniteSet(Spots(Cover(F, U), ops, v))
    BY <1>2, <1>4, <1>5, <1>6, <2>1, FS_Subset
  <2> QED BY <2>1, <2>2, SpotsBound
<1>8. ASSUME NEW C \in SUBSET Trees, NEW D \in SUBSET Trees, Apart(C, D)
      PROVE  Cardinality(Spots(C, ops, v)) + Cardinality(Spots(D, ops, v)) <= Held(v)
  <2>1. Cardinality(Spots(C \cup D, ops, v))
          = Cardinality(Spots(C, ops, v)) + Cardinality(Spots(D, ops, v))
    BY <1>2, <1>8, SpotsJoined
  <2>2. Spots(C \cup D, ops, v) \in SUBSET Spots(Trees, ops, v)
    <3>1. C \cup D \subseteq Trees
      OBVIOUS
    <3> QED BY <3>1, SpotsWithin
  <2>3. IsFiniteSet(Spots(Trees, ops, v))
    BY <1>2
  <2>4. Cardinality(Spots(C \cup D, ops, v)) <= Cardinality(Spots(Trees, ops, v))
    BY <2>2, <2>3, FS_Subset
  <2> QED BY <2>1, <2>4, Zenon DEF Held
<1>9. CASE Owed(Inc(v)) = 0
  BY <1>2, <1>9
<1>10. CASE Owed(Inc(v)) # 0
  <2>1. PICK t \in Threads : Occurs(todo[t], Inc(v)) # 0
    <3>1. Spots(Threads, todo, Inc(v)) # {}
      BY <1>10, FS_EmptySet DEF Owed
    <3> QED BY <1>2, <3>1, SpotsOccur
  <2>2. CASE Cardinality(Spots(Current, ops, v)) # 0
    <3>1. Apart(Cover(F, Threads), Current)
      BY <1>4 DEF Cover, Apart
    <3>2. PICK a, b : a = Cardinality(Spots(Cover(F, Threads), ops, v)) /\ b = Cardinality(Spots(Current, ops, v))
      OBVIOUS
    <3>3. Owed(Inc(v)) <= a /\ Cover(F, Threads) \in SUBSET Trees
      BY <1>7, <3>2 DEF Owed
    <3>4. a + b <= Held(v)
      BY <1>6, <1>8, <3>1, <3>2, <3>3, Zenon
    <3>5. a \in Nat /\ b \in Nat /\ b # 0
      BY <1>2, <1>6, <2>2, <3>2, <3>3
    <3> QED BY <1>2, <3>3, <3>4, <3>5
  <2>3. CASE Cardinality(Spots(Current, ops, v)) = 0
    <3>1. PICK U, d : U = Threads \ {t} /\ d = Occurs(todo[t], Inc(v))
      OBVIOUS
    <3>2. OneMore(U, t, Threads) /\ U \in SUBSET Threads
      BY <3>1 DEF OneMore
    <3>3. PICK a, b, c : /\ a = Cardinality(Spots(Cover(F, U), ops, v))
                         /\ b = Cardinality(Spots(F[t], ops, v))
                         /\ c = Cardinality(Spots(U, todo, Inc(v)))
      OBVIOUS
    <3>4. c <= a /\ Cover(F, U) \in SUBSET Trees
      BY <1>7, <3>2, <3>3
    <3>5. d < b /\ d \in Nat
      BY <1>5, <2>1, <2>3, <3>1, <3>3
    <3>6. Owed(Inc(v)) = c + d
      <4>1. Cardinality(Spots(Threads, todo, Inc(v))) = Cardinality(Spots(U, todo, Inc(v))) + Occurs(todo[t], Inc(v))
        BY <1>2, <3>2, SpotsMore
      <4> QED BY <3>1, <3>3, <4>1, Zenon DEF Owed
    <3>7. Apart(Cover(F, U), F[t])
      <4>1. \A u \in U : Apart(F[u], F[t])
        BY <1>4, <3>1
      <4> QED BY <4>1 DEF Apart, Cover
    <3>8. a + b <= Held(v)
      BY <1>4, <1>8, <3>3, <3>4, <3>7, Zenon
    <3>9. a \in Nat /\ b \in Nat /\ c \in Nat
      BY <1>2, <1>4, <3>2, <3>3, <3>4
    <3>10. c + d < Held(v)
      BY <1>2, <3>4, <3>5, <3>8, <3>9
    <3> QED BY <1>2, <3>6, <3>10
  <2> QED BY <2>2, <2>3
<1> QED BY <1>9, <1>10

-----------------------------------------------------------------------------
(* One access.                                                             *)

\* What is still to come when one thread's list changes.
LEMMA OwedAfter ==
    ASSUME Typed, NEW t \in Threads, NEW S \in Seq(Accesses),
           setting' = setting, todo' = [todo EXCEPT ![t] = S], NEW w
    PROVE  /\ Owed(w)' \in Nat /\ Owed(w) \in Nat
           /\ Occurs(todo[t], w) \in Nat /\ Occurs(S, w) \in Nat
           /\ Owed(w)' + Occurs(todo[t], w) = Owed(w) + Occurs(S, w)
<1>1. Threads' = Threads
  BY Fixed
<1>2. PICK k : k = todo'
  OBVIOUS
<1>3. k[t] = S /\ \A u \in Threads : u # t => todo[u] = k[u]
  BY <1>2 DEF Typed
<1>4. Len(todo[t]) \in Nat /\ IsFiniteSet(Spots(Threads, todo, w)) /\ Len(k[t]) \in Nat
  BY <1>3, Countable
<1>5. /\ Cardinality(Spots(Threads, todo, w)) \in Nat /\ Cardinality(Spots(Threads, k, w)) \in Nat
      /\ Occurs(todo[t], w) \in Nat /\ Occurs(k[t], w) \in Nat
      /\ Cardinality(Spots(Threads, k, w)) + Occurs(todo[t], w)
           = Cardinality(Spots(Threads, todo, w)) + Occurs(k[t], w)
  BY <1>3, <1>4, SpotsChange
<1>6. Owed(w)' = Cardinality(Spots(Threads, k, w))
  BY <1>1, <1>2 DEF Owed
<1>7. Owed(w) = Cardinality(Spots(Threads, todo, w))
  BY DEF Owed
<1> QED BY <1>3, <1>5, <1>6, <1>7, Zenon

\* While no tree changes, a step on one thread's list keeps the invariant if
\* each value comes out right.
LEMMA CountKeeps ==
    ASSUME IInv, NEW t \in Threads, NEW S \in Seq(Accesses), todo[t] # <<>>,
           UNCHANGED <<ops, runVars>>, todo' = [todo EXCEPT ![t] = S],
           \A i \in 1..Len(S) : S[i].kind = "test" => i = 1,
           \A v \in Values : Occurs(S, Inc(v)) <= Occurs(todo[t], Inc(v)),
           count' \in [Values -> Nat], drops' \in [Values -> Nat],
           life' \in [Values -> {"unborn", "live", "dropped"}],
           \A v \in Values : ValueOK(v)'
    PROVE  IInv'
<1>1. Typed /\ Discipline /\ \A u \in Threads, v \in Values : Backed(u, v)
  BY DEF IInv
<1>2. /\ setting' = setting /\ ops' = ops /\ slot' = slot /\ bred' = bred /\ front' = front
      /\ phase' = phase /\ generation' = generation
  BY DEF runVars
<1>3. /\ Threads' = Threads /\ Values' = Values /\ MaxLen' = MaxLen /\ Trees' = Trees
      /\ Operators' = Operators /\ Accesses' = Accesses
      /\ Current' = Current /\ Next_pop' = Next_pop
  BY <1>2, Fixed DEF Current, Next_pop
<1>4. todo' \in [Threads -> Seq(Accesses)] /\ todo'[t] = S /\ \A u \in Threads : u # t => todo'[u] = todo[u]
  BY <1>1 DEF Typed
<1>5. Typed'
  BY <1>1, <1>2, <1>3, <1>4 DEF Typed
<1>6. /\ Main \in Threads
      /\ OwnerBusy <=> slot[Main] = {} /\ todo[Main] # <<>>
      /\ OwnerBusy' <=> slot[Main] = {} /\ todo'[Main] # <<>>
  BY <1>1, <1>2, Config DEF OwnerBusy, Free, Typed
<1>7. OwnerBusy' => OwnerBusy
  BY <1>4, <1>6
<1>8. Discipline'
  <2>1. \A u, x \in Threads : u # x => Apart(slot[u], slot[x])
    BY <1>1 DEF Discipline
  <2>2. OwnerBusy' \/ phase # "breed" => \A u \in Threads : slot[u] = {}
    BY <1>1, <1>7 DEF Discipline
  <2>3. ASSUME NEW u \in Threads, NEW i \in 1..Len(todo'[u]), todo'[u][i].kind = "test" PROVE i = 1
    BY <1>1, <1>4, <2>3 DEF Discipline
  <2> QED BY <1>1, <1>2, <1>3, <2>1, <2>2, <2>3 DEF Discipline
<1>9. ASSUME NEW u \in Threads, NEW v \in Values PROVE Backed(u, v)'
  <2>1. Occurs(todo[u], Inc(v)) \in Nat /\ Occurs(todo'[u], Inc(v)) \in Nat
    BY <1>1, <1>4, Countable, OccursType
  <2>2. Occurs(todo'[u], Inc(v)) <= Occurs(todo[u], Inc(v))
    BY <1>4, <2>1
  <2>3. ASSUME Occurs(todo'[u], Inc(v)) # 0 PROVE Filling(u)' = Filling(u)
    <3>1. todo'[u] # <<>>
      BY <2>3, OccursFew
    <3>2. u = Main => (OwnerBusy' <=> OwnerBusy)
      BY <1>4, <1>6, <3>1
    <3>3. MyTree(u)' = MyTree(u)
      BY DEF MyTree
    <3> QED BY <1>2, <1>3, <3>2, <3>3 DEF Filling
  <2>4. Cardinality(Spots(Filling(u), ops, v)) \in Nat
    BY <1>1, FillingApart, Countable
  <2>5. BackedBy(Occurs(todo[u], Inc(v)), Cardinality(Spots(Filling(u), ops, v)),
                 Cardinality(Spots(Current, ops, v)))
    BY <1>1 DEF Backed
  <2>6. BackedBy(Occurs(todo'[u], Inc(v)), Cardinality(Spots(Filling(u), ops, v)),
                 Cardinality(Spots(Current, ops, v)))
    BY <2>1, <2>2, <2>4, <2>5 DEF BackedBy
  <2>7. Inc(v)' = Inc(v)
    BY DEF Inc
  <2>8. CASE Occurs(todo'[u], Inc(v)) = 0
    BY <2>7, <2>8 DEF Backed, BackedBy
  <2>9. CASE Occurs(todo'[u], Inc(v)) # 0
    BY <1>2, <1>3, <2>3, <2>6, <2>7, <2>9, Zenon DEF Backed
  <2> QED BY <2>8, <2>9
<1> QED BY <1>3, <1>5, <1>8, <1>9 DEF IInv

\* The access a thread is at.
LEMMA AtHead ==
    ASSUME IInv, NEW t \in Threads, todo[t] # <<>>
    PROVE  /\ Head(todo[t]) \in Accesses /\ Tail(todo[t]) \in Seq(Accesses)
           /\ \A i \in 1..Len(Tail(todo[t])) : Tail(todo[t])[i].kind # "test"
           /\ \A w : Occurs(todo[t], w) = (IF Head(todo[t]) = w THEN 1 ELSE 0) + Occurs(Tail(todo[t]), w)
           /\ \A w : Occurs(Tail(todo[t]), w) \in Nat
           /\ \A v : Occurs(Tail(todo[t]), Test(v)) = 0
<1>1. todo[t] \in Seq(Accesses)
  BY DEF IInv, Typed
<1>2. /\ Head(todo[t]) \in Accesses /\ Tail(todo[t]) \in Seq(Accesses)
      /\ \A w : Occurs(todo[t], w) = (IF Head(todo[t]) = w THEN 1 ELSE 0) + Occurs(Tail(todo[t]), w)
  BY <1>1, OccursTail
<1>3. ASSUME NEW i \in 1..Len(Tail(todo[t])) PROVE Tail(todo[t])[i].kind # "test"
  <2>1. i + 1 \in 1..Len(todo[t]) /\ Tail(todo[t])[i] = todo[t][i + 1] /\ i + 1 # 1
    BY <1>1
  <2>2. todo[t][i + 1].kind # "test"
    BY <2>1 DEF IInv, Discipline
  <2> QED BY <2>1, <2>2
<1>4. Len(Tail(todo[t])) \in Nat
  BY <1>2
<1>5. ASSUME NEW v PROVE Occurs(Tail(todo[t]), Test(v)) = 0
  <2>1. Where(Tail(todo[t]), Test(v)) = {}
    BY <1>3 DEF Where, Test
  <2> QED BY <1>4, <2>1, OccursType
<1> QED BY <1>2, <1>3, <1>4, <1>5, OccursType

\* In a program of one thread only that thread's list has accesses.
LEMMA OwedAlone ==
    ASSUME Typed, Alone, NEW t \in Threads, NEW w
    PROVE  Owed(w) = Occurs(todo[t], w)
<1>1. Threads = {t}
  BY DEF Threads, Alone
<1>2. Len(todo[t]) \in Nat
  BY Countable
<1>3. Cardinality(Spots({t}, todo, w)) = Occurs(todo[t], w)
  BY <1>2, SpotsOfOne
<1> QED BY <1>1, <1>3, Zenon DEF Owed

\* The three accesses to a value differ, and from those to another value.
LEMMA AccessesDiffer ==
    ASSUME NEW u, NEW v
    PROVE  /\ Inc(u) # Dec(v) /\ Dec(u) # Inc(v) /\ Inc(u) # Test(v)
           /\ Test(u) # Inc(v) /\ Dec(u) # Test(v) /\ Test(u) # Dec(v)
           /\ Inc(u) = Inc(v) <=> u = v
           /\ Dec(u) = Dec(v) <=> u = v
           /\ Test(u) = Test(v) <=> u = v
BY DEF Inc, Dec, Test

\* Before an access: the value it is to, and its numbers.
LEMMA AccessAtHead ==
    ASSUME IInv, NEW t \in Threads, NEW kind, Doing(t, kind)
    PROVE  \E v \in Values :
             /\ Head(todo[t]).of = v /\ Head(todo[t]) = [kind |-> kind, of |-> v]
             /\ Owed([kind |-> kind, of |-> v]) # 0
             /\ Occurs(todo[t], [kind |-> kind, of |-> v]) # 0
<1>1. todo[t] # <<>> /\ Head(todo[t]).kind = kind
  BY DEF Doing
<1>2. PICK v : v = Head(todo[t]).of
  OBVIOUS
<1>3. v \in Values /\ Head(todo[t]) = [kind |-> kind, of |-> v]
  BY <1>1, <1>2, AtHead DEF Accesses, AccessesTo
<1>4. PICK w : w = [kind |-> kind, of |-> v]
  OBVIOUS
<1>5. Occurs(todo[t], w) # 0
  <2>1. /\ Occurs(todo[t], w) = (IF Head(todo[t]) = w THEN 1 ELSE 0) + Occurs(Tail(todo[t]), w)
        /\ Occurs(Tail(todo[t]), w) \in Nat
    BY <1>1, AtHead
  <2> QED BY <1>3, <1>4, <2>1
<1>6. Owed(w) # 0
  <2>1. \A u \in Threads : Len(todo[u]) \in Nat
    BY Countable DEF IInv
  <2>2. Spots(Threads, todo, w) # {}
    BY <1>5, <2>1, SpotsOccur
  <2>3. IsFiniteSet(Spots(Threads, todo, w))
    BY Countable DEF IInv
  <2> QED BY <2>2, <2>3, FS_EmptySet DEF Owed
<1> QED BY <1>2, <1>3, <1>4, <1>5, <1>6

\* A value that a list is to count is live.
LEMMA CountedIsLive ==
    ASSUME IInv, NEW v \in Values, Owed(Inc(v)) # 0 \/ Owed(Dec(v)) # 0 \/ Held(v) # 0
    PROVE  /\ life[v] = "live"
           /\ LiveOK(Held(v), count[v], Owed(Inc(v)), Owed(Dec(v)), Owed(Test(v)), drops[v])
BY DEF IInv, ValueOK, GoneOK

\* Counting in.
LEMMA IncrementKeeps ==
    ASSUME IInv, NEW t \in Threads, Increment(t)
    PROVE  IInv'
<1>1. PICK v \in Values : /\ Head(todo[t]).of = v /\ Head(todo[t]) = Inc(v)
                          /\ Owed(Inc(v)) # 0 /\ todo[t] # <<>>
  BY AccessAtHead DEF Increment, Inc, Doing
<1>2. PICK S : S = Tail(todo[t])
  OBVIOUS
<1>3. /\ count' = [count EXCEPT ![v] = @ + 1] /\ todo' = [todo EXCEPT ![t] = S]
      /\ UNCHANGED <<ops, life, drops, runVars>>
  BY <1>1, <1>2 DEF Increment, Pop
<1>4. /\ S \in Seq(Accesses)
      /\ \A i \in 1..Len(S) : S[i].kind = "test" => i = 1
      /\ \A w : Occurs(todo[t], w) = (IF Inc(v) = w THEN 1 ELSE 0) + Occurs(S, w)
      /\ \A w : Occurs(S, w) \in Nat
  BY <1>1, <1>2, AtHead
<1>5. Typed /\ setting' = setting /\ ops' = ops /\ life' = life /\ drops' = drops
  BY <1>3 DEF IInv, runVars
<1>6. life[v] = "live" /\ LiveOK(Held(v), count[v], Owed(Inc(v)), Owed(Dec(v)), Owed(Test(v)), drops[v])
  BY <1>1, CountedIsLive
<1>7. /\ count' \in [Values -> Nat] /\ count'[v] = count[v] + 1 /\ count[v] \in Nat
      /\ \A u \in Values : u # v => count'[u] = count[u]
  BY <1>3, <1>5 DEF Typed
<1>8. ASSUME NEW u \in Values PROVE ValueOK(u)'
  <2>1. /\ Owed(Inc(u))' \in Nat /\ Owed(Inc(u)) \in Nat
        /\ Owed(Inc(u))' + Occurs(todo[t], Inc(u)) = Owed(Inc(u)) + Occurs(S, Inc(u))
    BY <1>3, <1>4, <1>5, OwedAfter
  <2>2. /\ Owed(Dec(u))' \in Nat /\ Owed(Dec(u)) \in Nat
        /\ Owed(Dec(u))' + Occurs(todo[t], Dec(u)) = Owed(Dec(u)) + Occurs(S, Dec(u))
    BY <1>3, <1>4, <1>5, OwedAfter
  <2>3. /\ Owed(Test(u))' \in Nat /\ Owed(Test(u)) \in Nat
        /\ Owed(Test(u))' + Occurs(todo[t], Test(u)) = Owed(Test(u)) + Occurs(S, Test(u))
    BY <1>3, <1>4, <1>5, OwedAfter
  <2>4. /\ Occurs(todo[t], Inc(u)) = (IF u = v THEN 1 ELSE 0) + Occurs(S, Inc(u))
        /\ Occurs(todo[t], Dec(u)) = 0 + Occurs(S, Dec(u))
        /\ Occurs(todo[t], Test(u)) = 0 + Occurs(S, Test(u))
        /\ Occurs(S, Inc(u)) \in Nat /\ Occurs(S, Dec(u)) \in Nat /\ Occurs(S, Test(u)) \in Nat
    <3>1. Inc(v) # Dec(u) /\ Inc(v) # Test(u) /\ (Inc(v) = Inc(u) <=> u = v)
      BY AccessesDiffer
    <3> QED BY <1>4, <3>1, Zenon
  <2>5. /\ Owed(Dec(u))' = Owed(Dec(u)) /\ Owed(Test(u))' = Owed(Test(u))
        /\ Owed(Inc(u))' + (IF u = v THEN 1 ELSE 0) = Owed(Inc(u))
    BY <2>1, <2>2, <2>3, <2>4
  <2>6. Held(u)' = Held(u) /\ Alone' = Alone
    BY <1>5, Fixed DEF Held
  <2>7. CASE u = v
    <3>1. LiveOK(Held(u), count[v] + 1, Owed(Inc(u))', Owed(Dec(u)), Owed(Test(u)), drops[u])
      <4>1. Held(u) \in Nat
        BY <1>5, Countable
      <4> QED BY <1>6, <1>7, <2>1, <2>2, <2>5, <2>7, <4>1 DEF LiveOK
    <3> QED BY <1>5, <1>6, <1>7, <2>5, <2>6, <2>7, <3>1, Zenon DEF ValueOK
  <2>8. CASE u # v
    <3>1. Owed(Inc(u))' = Owed(Inc(u))
      BY <2>1, <2>5, <2>8
    <3>2. ValueOK(u)
      BY DEF IInv
    <3> QED BY <1>5, <1>7, <2>5, <2>6, <2>8, <3>1, <3>2, Zenon DEF ValueOK
  <2> QED BY <2>7, <2>8
<1>9. ASSUME NEW u \in Values PROVE Occurs(S, Inc(u)) <= Occurs(todo[t], Inc(u))
  BY <1>4
<1> QED
  <2>1. /\ UNCHANGED <<ops, runVars>> /\ drops' \in [Values -> Nat]
        /\ life' \in [Values -> {"unborn", "live", "dropped"}]
    BY <1>3, <1>5 DEF Typed
  <2> QED BY <1>1, <1>3, <1>4, <1>7, <1>8, <1>9, <2>1, CountKeeps

\* Counting out.
LEMMA DecrementKeeps ==
    ASSUME IInv, NEW t \in Threads, Decrement(t)
    PROVE  IInv'
<1>1. PICK v \in Values : /\ Head(todo[t]).of = v /\ Head(todo[t]) = Dec(v)
                          /\ Owed(Dec(v)) # 0 /\ todo[t] # <<>>
  BY AccessAtHead DEF Decrement, Dec, Doing
<1>2. PICK T, S : T = Tail(todo[t]) /\ S = <<Test(v)>> \o T
  OBVIOUS
<1>3. life[v] = "live" /\ LiveOK(Held(v), count[v], Owed(Inc(v)), Owed(Dec(v)), Owed(Test(v)), drops[v])
  BY <1>1, CountedIsLive
<1>4. /\ count' = [count EXCEPT ![v] = @ - 1] /\ todo' = [todo EXCEPT ![t] = S]
      /\ UNCHANGED <<ops, life, drops, runVars>>
  <2>1. /\ count' = [count EXCEPT ![v] = IF life[v] = "live" THEN @ - 1 ELSE @]
        /\ todo' = [todo EXCEPT ![t] = <<Test(v)>> \o Tail(@)]
        /\ UNCHANGED <<ops, life, drops, runVars>>
    BY <1>1 DEF Decrement, Test
  <2> QED BY <1>2, <1>3, <2>1
<1>5. /\ T \in Seq(Accesses)
      /\ \A i \in 1..Len(T) : T[i].kind # "test"
      /\ \A w : Occurs(todo[t], w) = (IF Dec(v) = w THEN 1 ELSE 0) + Occurs(T, w)
      /\ \A w : Occurs(T, w) \in Nat
  BY <1>1, <1>2, AtHead
<1>6. PICK H : H = <<Test(v)>>
  OBVIOUS
<1>7. H \in Seq(Accesses) /\ S = H \o T
  <2>1. Test(v) \in Accesses
    BY DEF Test, Accesses, AccessesTo
  <2> QED BY <1>2, <1>6, <2>1
<1>8. /\ S \in Seq(Accesses) /\ Len(S) = 1 + Len(T) /\ \A k \in 1..Len(T) : S[1 + k] = T[k]
      /\ \A w : Occurs(S, w) = (IF Test(v) = w THEN 1 ELSE 0) + Occurs(T, w)
  <2>1. /\ H \o T \in Seq(Accesses) /\ Len(H \o T) = Len(H) + Len(T)
        /\ \A k \in 1..Len(T) : (H \o T)[Len(H) + k] = T[k]
    BY <1>5, <1>7, Joined
  <2>2. \A w : Occurs(H \o T, w) = Occurs(H, w) + Occurs(T, w)
    BY <1>5, <1>7, OccursJoined
  <2>3. \A w : Occurs(<<Test(v)>>, w) = IF Test(v) = w THEN 1 ELSE 0
    BY OccursFew
  <2>4. Len(H) = 1
    BY <1>6
  <2> QED BY <1>6, <1>7, <2>1, <2>2, <2>3, <2>4, Zenon
<1>9. ASSUME NEW i \in 1..Len(S), S[i].kind = "test" PROVE i = 1
  <2> SUFFICES ASSUME i # 1 PROVE FALSE
    OBVIOUS
  <2>1. i - 1 \in 1..Len(T) /\ 1 + (i - 1) = i
    BY <1>5, <1>8
  <2>2. S[i] = T[i - 1]
    BY <1>8, <2>1
  <2> QED BY <1>5, <1>9, <2>1, <2>2
<1>10. Typed /\ setting' = setting /\ ops' = ops /\ life' = life /\ drops' = drops
  BY <1>4 DEF IInv, runVars
<1>11. Owed(Inc(v)) <= Held(v) /\ Held(v) \in Nat /\ Owed(Inc(v)) \in Nat /\ Owed(Dec(v)) \in Nat
  BY <1>10, HeldBeyondDue, Countable
<1>12. /\ count' \in [Values -> Nat] /\ count'[v] = count[v] - 1 /\ count[v] \in Nat
       /\ \A u \in Values : u # v => count'[u] = count[u]
  <2>1. count \in [Values -> Nat]
    BY <1>10 DEF Typed
  <2>2. count[v] - 1 \in Nat
    BY <1>1, <1>3, <1>11, <2>1 DEF LiveOK
  <2> QED BY <1>4, <2>1, <2>2
<1>13. ASSUME NEW u \in Values
       PROVE  /\ ValueOK(u)'
              /\ Occurs(S, Inc(u)) <= Occurs(todo[t], Inc(u))
  <2>1. /\ Owed(Inc(u))' \in Nat /\ Owed(Inc(u)) \in Nat
        /\ Owed(Inc(u))' + Occurs(todo[t], Inc(u)) = Owed(Inc(u)) + Occurs(S, Inc(u))
    BY <1>4, <1>8, <1>10, OwedAfter
  <2>2. /\ Owed(Dec(u))' \in Nat /\ Owed(Dec(u)) \in Nat
        /\ Owed(Dec(u))' + Occurs(todo[t], Dec(u)) = Owed(Dec(u)) + Occurs(S, Dec(u))
    BY <1>4, <1>8, <1>10, OwedAfter
  <2>3. /\ Owed(Test(u))' \in Nat /\ Owed(Test(u)) \in Nat
        /\ Owed(Test(u))' + Occurs(todo[t], Test(u)) = Owed(Test(u)) + Occurs(S, Test(u))
    BY <1>4, <1>8, <1>10, OwedAfter
  <2>4. /\ Occurs(todo[t], Inc(u)) = 0 + Occurs(T, Inc(u)) /\ Occurs(S, Inc(u)) = 0 + Occurs(T, Inc(u))
        /\ Occurs(todo[t], Dec(u)) = (IF u = v THEN 1 ELSE 0) + Occurs(T, Dec(u))
        /\ Occurs(S, Dec(u)) = 0 + Occurs(T, Dec(u))
        /\ Occurs(todo[t], Test(u)) = 0 + Occurs(T, Test(u))
        /\ Occurs(S, Test(u)) = (IF u = v THEN 1 ELSE 0) + Occurs(T, Test(u))
        /\ Occurs(T, Inc(u)) \in Nat /\ Occurs(T, Dec(u)) \in Nat /\ Occurs(T, Test(u)) \in Nat
    <3>1. /\ Dec(v) # Inc(u) /\ Dec(v) # Test(u) /\ (Dec(v) = Dec(u) <=> u = v)
          /\ Test(v) # Inc(u) /\ Test(v) # Dec(u) /\ (Test(v) = Test(u) <=> u = v)
      BY AccessesDiffer
    <3> QED BY <1>5, <1>8, <3>1, Zenon
  <2>5. /\ Owed(Inc(u))' = Owed(Inc(u)) /\ Occurs(S, Inc(u)) <= Occurs(todo[t], Inc(u))
        /\ Owed(Dec(u))' + (IF u = v THEN 1 ELSE 0) = Owed(Dec(u))
        /\ Owed(Test(u))' = Owed(Test(u)) + (IF u = v THEN 1 ELSE 0)
    BY <2>1, <2>2, <2>3, <2>4
  <2>6. Held(u)' = Held(u) /\ Alone' = Alone
    BY <1>10, Fixed DEF Held
  <2>7. CASE u = v
    <3>1. LiveOK(Held(u), count[v] - 1, Owed(Inc(u)), Owed(Dec(u))', Owed(Test(u))', drops[u])
      BY <1>3, <1>11, <1>12, <2>2, <2>3, <2>5, <2>7 DEF LiveOK
    <3> QED BY <1>3, <1>10, <1>12, <2>5, <2>6, <2>7, <3>1, Zenon DEF ValueOK
  <2>8. CASE u # v
    <3>1. Owed(Dec(u))' = Owed(Dec(u)) /\ Owed(Test(u))' = Owed(Test(u))
      BY <2>2, <2>3, <2>5, <2>8
    <3>2. ValueOK(u)
      BY DEF IInv
    <3>3. ValueOK(u)'
      BY <1>10, <1>12, <2>5, <2>6, <2>8, <3>1, <3>2, Zenon DEF ValueOK
    <3> QED BY <2>5, <3>3
  <2> QED BY <2>5, <2>7, <2>8
<1> QED
  <2>1. /\ UNCHANGED <<ops, runVars>> /\ drops' \in [Values -> Nat]
        /\ life' \in [Values -> {"unborn", "live", "dropped"}]
    BY <1>4, <1>10 DEF Typed
  <2> QED BY <1>1, <1>4, <1>8, <1>9, <1>12, <1>13, <2>1, CountKeeps

\* A step past a test: all is as before, but for the value and its tests.
LEMMA PastTest ==
    ASSUME IInv, NEW t \in Threads, Doing(t, "test"), Pop(t), setting' = setting
    PROVE  \E v \in Values :
             /\ Head(todo[t]).of = v /\ todo[t] # <<>> /\ Owed(Test(v)) # 0
             /\ Tail(todo[t]) \in Seq(Accesses)
             /\ todo' = [todo EXCEPT ![t] = Tail(todo[t])]
             /\ \A i \in 1..Len(Tail(todo[t])) : Tail(todo[t])[i].kind = "test" => i = 1
             /\ Owed(Test(v))' \in Nat /\ (Alone => Owed(Test(v))' = 0)
             /\ \A u \in Values :
                  /\ Occurs(Tail(todo[t]), Inc(u)) <= Occurs(todo[t], Inc(u))
                  /\ Owed(Inc(u))' = Owed(Inc(u)) /\ Owed(Dec(u))' = Owed(Dec(u))
                  /\ u # v => Owed(Test(u))' = Owed(Test(u))
<1>1. PICK v \in Values : /\ Head(todo[t]).of = v /\ Head(todo[t]) = Test(v)
                          /\ Owed(Test(v)) # 0 /\ todo[t] # <<>>
  BY AccessAtHead DEF Test, Doing
<1>2. PICK S : S = Tail(todo[t])
  OBVIOUS
<1>3. todo' = [todo EXCEPT ![t] = S] /\ Typed
  BY <1>2 DEF Pop, IInv
<1>4. /\ S \in Seq(Accesses)
      /\ \A i \in 1..Len(S) : S[i].kind = "test" => i = 1
      /\ \A w : Occurs(todo[t], w) = (IF Test(v) = w THEN 1 ELSE 0) + Occurs(S, w)
      /\ \A w : Occurs(S, w) \in Nat
      /\ \A u : Occurs(S, Test(u)) = 0
  BY <1>1, <1>2, AtHead
<1>5. ASSUME NEW u \in Values
      PROVE  /\ Owed(Inc(u))' = Owed(Inc(u)) /\ Owed(Dec(u))' = Owed(Dec(u))
             /\ u # v => Owed(Test(u))' = Owed(Test(u))
             /\ Owed(Test(u))' \in Nat
             /\ Occurs(S, Inc(u)) <= Occurs(todo[t], Inc(u))
  <2>1. /\ Owed(Inc(u))' \in Nat /\ Owed(Inc(u)) \in Nat
        /\ Owed(Inc(u))' + Occurs(todo[t], Inc(u)) = Owed(Inc(u)) + Occurs(S, Inc(u))
    BY <1>3, <1>4, OwedAfter
  <2>2. /\ Owed(Dec(u))' \in Nat /\ Owed(Dec(u)) \in Nat
        /\ Owed(Dec(u))' + Occurs(todo[t], Dec(u)) = Owed(Dec(u)) + Occurs(S, Dec(u))
    BY <1>3, <1>4, OwedAfter
  <2>3. /\ Owed(Test(u))' \in Nat /\ Owed(Test(u)) \in Nat
        /\ Owed(Test(u))' + Occurs(todo[t], Test(u)) = Owed(Test(u)) + Occurs(S, Test(u))
    BY <1>3, <1>4, OwedAfter
  <2>4. /\ Occurs(todo[t], Inc(u)) = 0 + Occurs(S, Inc(u))
        /\ Occurs(todo[t], Dec(u)) = 0 + Occurs(S, Dec(u))
        /\ Occurs(todo[t], Test(u)) = (IF u = v THEN 1 ELSE 0) + Occurs(S, Test(u))
        /\ Occurs(S, Inc(u)) \in Nat /\ Occurs(S, Dec(u)) \in Nat /\ Occurs(S, Test(u)) \in Nat
    <3>1. Test(v) # Inc(u) /\ Test(v) # Dec(u) /\ (Test(v) = Test(u) <=> u = v)
      BY AccessesDiffer
    <3> QED BY <1>4, <3>1, Zenon
  <2> QED BY <2>1, <2>2, <2>3, <2>4
<1>6. Alone => Owed(Test(v))' = 0
  <2>1. SUFFICES ASSUME Alone PROVE Owed(Test(v))' = 0
    OBVIOUS
  <2>2. Owed(Test(v)) = Occurs(todo[t], Test(v))
    BY <1>3, <2>1, OwedAlone
  <2>3. /\ Owed(Test(v))' \in Nat /\ Owed(Test(v)) \in Nat
        /\ Owed(Test(v))' + Occurs(todo[t], Test(v)) = Owed(Test(v)) + Occurs(S, Test(v))
    BY <1>3, <1>4, OwedAfter
  <2> QED BY <1>4, <2>2, <2>3
<1> QED BY <1>1, <1>2, <1>3, <1>4, <1>5, <1>6, Zenon

\* Dropping.
LEMMA TestDropKeeps ==
    ASSUME IInv, NEW t \in Threads, TestDrop(t)
    PROVE  IInv'
<1>1. Doing(t, "test") /\ Pop(t) /\ UNCHANGED <<ops, count, runVars>> /\ setting' = setting /\ Typed
  BY DEF TestDrop, runVars, IInv
<1>2. PICK v \in Values :
             /\ Head(todo[t]).of = v /\ todo[t] # <<>> /\ Owed(Test(v)) # 0
             /\ Tail(todo[t]) \in Seq(Accesses)
             /\ todo' = [todo EXCEPT ![t] = Tail(todo[t])]
             /\ \A i \in 1..Len(Tail(todo[t])) : Tail(todo[t])[i].kind = "test" => i = 1
             /\ Owed(Test(v))' \in Nat /\ (Alone => Owed(Test(v))' = 0)
             /\ \A u \in Values :
                  /\ Occurs(Tail(todo[t]), Inc(u)) <= Occurs(todo[t], Inc(u))
                  /\ Owed(Inc(u))' = Owed(Inc(u)) /\ Owed(Dec(u))' = Owed(Dec(u))
                  /\ u # v => Owed(Test(u))' = Owed(Test(u))
  BY <1>1, PastTest
<1>3. /\ life[v] = "live" => count[v] = 0
      /\ life' = [life EXCEPT ![v] = "dropped"]
      /\ drops' = [drops EXCEPT ![v] = @ + 1]
  BY <1>2 DEF TestDrop, ReachedZero
<1>4. /\ life' \in [Values -> {"unborn", "live", "dropped"}] /\ drops' \in [Values -> Nat]
      /\ life'[v] = "dropped" /\ drops'[v] = drops[v] + 1
      /\ \A u \in Values : u # v => life'[u] = life[u] /\ drops'[u] = drops[u]
      /\ drops[v] \in Nat /\ count' = count /\ count \in [Values -> Nat]
      /\ life[v] \in {"unborn", "live", "dropped"}
  BY <1>1, <1>3 DEF Typed
<1>5. \A u : Held(u)' = Held(u)
  BY <1>1, Fixed DEF Held
<1>6. Alone' = Alone
  BY <1>1, Fixed
<1>7. ValueOK(v)'
  <2>1. /\ Held(v) = 0 /\ Owed(Inc(v)) = 0 /\ Owed(Dec(v)) = 0
        /\ Alone => drops[v] = 0
    <3>1. CASE life[v] = "live"
      <4>1. LiveOK(Held(v), count[v], Owed(Inc(v)), Owed(Dec(v)), Owed(Test(v)), drops[v])
        BY <3>1 DEF IInv, ValueOK
      <4>2. /\ Owed(Inc(v)) <= Held(v) /\ (Held(v) # 0 => Owed(Inc(v)) < Held(v))
            /\ Held(v) \in Nat /\ Owed(Inc(v)) \in Nat /\ Owed(Dec(v)) \in Nat
        BY <1>1, HeldBeyondDue, Countable
      <4> QED BY <1>3, <3>1, <4>1, <4>2 DEF LiveOK
    <3>2. CASE life[v] # "live"
      <4>1. GoneOK(Held(v), Owed(Inc(v)), Owed(Dec(v)), Owed(Test(v)), drops[v],
                   life[v] = "unborn", Alone)
        BY <3>2 DEF IInv, ValueOK
      <4> QED BY <1>2, <4>1, Zenon DEF GoneOK
    <3> QED BY <3>1, <3>2
  <2>2. Alone => Owed(Test(v))' = 0 /\ drops'[v] <= 1
    BY <1>2, <1>4, <2>1
  <2>3. Held(v)' = 0 /\ Owed(Inc(v))' = 0 /\ Owed(Dec(v))' = 0
    BY <1>2, <1>5, <2>1
  <2>4. life'[v] # "live" /\ life'[v] # "unborn"
    BY <1>4
  <2> QED BY <1>6, <2>2, <2>3, <2>4, Zenon DEF ValueOK, GoneOK
<1>8. ASSUME NEW u \in Values PROVE ValueOK(u)'
  <2>1. CASE u = v
    BY <1>7, <2>1
  <2>2. CASE u # v
    <3>1. ValueOK(u)
      BY DEF IInv
    <3> QED BY <1>2, <1>4, <1>5, <1>6, <2>2, <3>1, Zenon DEF ValueOK
  <2> QED BY <2>1, <2>2
<1> QED BY <1>1, <1>2, <1>4, <1>8, CountKeeps

\* Keeping.
LEMMA TestKeepKeeps ==
    ASSUME IInv, NEW t \in Threads, TestKeep(t)
    PROVE  IInv'
<1>1. /\ Doing(t, "test") /\ Pop(t) /\ UNCHANGED <<ops, runVars>> /\ setting' = setting /\ Typed
      /\ life' = life /\ drops' = drops /\ count' = count
  BY DEF TestKeep, runVars, valueVars, IInv
<1>2. PICK v \in Values :
             /\ Head(todo[t]).of = v /\ todo[t] # <<>> /\ Owed(Test(v)) # 0
             /\ Tail(todo[t]) \in Seq(Accesses)
             /\ todo' = [todo EXCEPT ![t] = Tail(todo[t])]
             /\ \A i \in 1..Len(Tail(todo[t])) : Tail(todo[t])[i].kind = "test" => i = 1
             /\ Owed(Test(v))' \in Nat /\ (Alone => Owed(Test(v))' = 0)
             /\ \A u \in Values :
                  /\ Occurs(Tail(todo[t]), Inc(u)) <= Occurs(todo[t], Inc(u))
                  /\ Owed(Inc(u))' = Owed(Inc(u)) /\ Owed(Dec(u))' = Owed(Dec(u))
                  /\ u # v => Owed(Test(u))' = Owed(Test(u))
  BY <1>1, PastTest
<1>3. life[v] = "live" => count[v] # 0
  BY <1>2 DEF TestKeep, ReachedZero
<1>4. \A u : Held(u)' = Held(u)
  BY <1>1, Fixed DEF Held
<1>5. Alone' = Alone
  BY <1>1, Fixed
<1>6. ASSUME NEW u \in Values PROVE ValueOK(u)'
  <2>1. ValueOK(u)
    BY DEF IInv
  <2>2. CASE u # v
    BY <1>1, <1>2, <1>4, <1>5, <2>1, <2>2, Zenon DEF ValueOK
  <2>3. CASE u = v /\ life[u] = "live"
    <3>1. LiveOK(Held(u), count[u], Owed(Inc(u)), Owed(Dec(u)), Owed(Test(u))', drops[u])
      BY <1>3, <2>1, <2>3, Zenon DEF ValueOK, LiveOK
    <3> QED BY <1>1, <1>2, <1>4, <2>3, <3>1, Zenon DEF ValueOK
  <2>4. CASE u = v /\ life[u] # "live"
    <3>1. GoneOK(Held(u), Owed(Inc(u)), Owed(Dec(u)), Owed(Test(u)), drops[u],
                 life[u] = "unborn", Alone)
      BY <2>1, <2>4, Zenon DEF ValueOK
    <3>2. life[u] # "unborn" /\ ~Alone
      BY <1>2, <2>4, <3>1, Zenon DEF GoneOK
    <3>3. GoneOK(Held(u), Owed(Inc(u)), Owed(Dec(u)), Owed(Test(u))', drops[u],
                 life[u] = "unborn", Alone)
      BY <3>1, <3>2, Zenon DEF GoneOK
    <3> QED BY <1>1, <1>2, <1>4, <1>5, <2>4, <3>3, Zenon DEF ValueOK
  <2> QED BY <2>2, <2>3, <2>4
<1> QED
  <2>1. /\ count' \in [Values -> Nat] /\ drops' \in [Values -> Nat]
        /\ life' \in [Values -> {"unborn", "live", "dropped"}]
    BY <1>1 DEF Typed
  <2> QED BY <1>1, <1>2, <1>6, <2>1, CountKeeps

-----------------------------------------------------------------------------
(* Edits.                                                                  *)

\* What an edit that leaves a thread with the list A has done to v: the counter
\* is as before and A counts what changed, or v is new.
Counted(A, v) ==
    /\ life'[v] = life[v] /\ count'[v] = count[v]
    /\ Held(v)' + Occurs(A, Dec(v)) = Held(v) + Occurs(A, Inc(v))
    /\ Held(v) = 0 => Occurs(A, Inc(v)) = 0
    /\ Occurs(A, Test(v)) = 0

Made(A, v) ==
    /\ life[v] = "unborn" /\ life'[v] = "live" /\ count'[v] = 1
    /\ Held(v)' = 1 + Occurs(A, Inc(v))
    /\ Occurs(A, Dec(v)) = 0 /\ Occurs(A, Test(v)) = 0

\* The steps of a thread that keep the invariant: one that edits its slots or
\* its own tree, or one while no slot is taken.
Edits(t, A) ==
    /\ Free(t) /\ todo' = [todo EXCEPT ![t] = A] /\ A \in Seq(Accesses)
    /\ UNCHANGED <<setting, slot, front, drops>>
    /\ \/ slot[t] # {} /\ phase' = phase /\ bred' = bred
       \/ /\ \A u \in Threads : slot[u] = {}
          /\ phase' \in {"breed", "exit", "destroy"} /\ bred' \subseteq Next_pop
    /\ generation' \in 0..MaxGen
    /\ ops' \in [Trees -> Seq(Operators)] /\ \A tr \in Trees : Len(ops'[tr]) <= MaxLen
    /\ count' \in [Values -> Nat] /\ life' \in [Values -> {"unborn", "live", "dropped"}]
    /\ \A u \in Threads : u # t /\ todo[u] # <<>> =>
         \A tr \in Filling(u) \cup Current : ops'[tr] = ops[tr]
    /\ \A v \in Values : Backed(t, v)'
    /\ \A v \in Values : Counted(A, v) \/ Made(A, v)

\* An edit keeps the invariant.
LEMMA EditKeeps ==
    ASSUME IInv, NEW t \in Threads, NEW A, Edits(t, A)
    PROVE  IInv'
<1>1. Typed /\ Discipline /\ \A u \in Threads, v \in Values : Backed(u, v)
  BY DEF IInv
<1>2. /\ setting' = setting /\ slot' = slot /\ front' = front /\ drops' = drops
      /\ todo[t] = <<>> /\ todo' = [todo EXCEPT ![t] = A] /\ A \in Seq(Accesses)
  BY DEF Edits, Free
<1>3. /\ Threads' = Threads /\ Values' = Values /\ MaxLen' = MaxLen /\ Trees' = Trees
      /\ Operators' = Operators /\ Accesses' = Accesses /\ Alone' = Alone
      /\ Current' = Current /\ Next_pop' = Next_pop
  BY <1>2, Fixed DEF Current, Next_pop
<1>4. todo' \in [Threads -> Seq(Accesses)] /\ todo'[t] = A /\ \A u \in Threads : u # t => todo'[u] = todo[u]
  BY <1>1, <1>2 DEF Typed
<1>5. /\ phase' \in {"breed", "exit", "destroy"} /\ bred' \subseteq Next_pop
      /\ ops' \in [Trees -> Seq(Operators)] /\ \A tr \in Trees : Len(ops'[tr]) <= MaxLen
      /\ count' \in [Values -> Nat] /\ life' \in [Values -> {"unborn", "live", "dropped"}]
      /\ generation' \in 0..MaxGen
  BY <1>1 DEF Edits, Typed
<1>6. Typed'
  BY <1>1, <1>2, <1>3, <1>4, <1>5 DEF Typed
<1>7. /\ Main \in Threads
      /\ OwnerBusy <=> slot[Main] = {} /\ todo[Main] # <<>>
      /\ OwnerBusy' <=> slot[Main] = {} /\ todo'[Main] # <<>>
  BY <1>1, <1>2, Config DEF OwnerBusy, Free, Typed
<1>8. ASSUME NEW v, Occurs(A, Test(v)) # 0, v \in Values PROVE FALSE
  BY <1>8 DEF Edits, Counted, Made
<1>9. \A i \in 1..Len(A) : A[i].kind # "test"
  <2> SUFFICES ASSUME NEW i \in 1..Len(A), A[i].kind = "test" PROVE FALSE
    OBVIOUS
  <2>1. A[i] \in Accesses /\ Len(A) \in Nat
    BY <1>2
  <2>2. PICK v \in Values : A[i] = Test(v)
    BY <2>1 DEF Accesses, AccessesTo, Test
  <2>3. i \in Where(A, Test(v))
    BY <2>2 DEF Where
  <2>4. Occurs(A, Test(v)) # 0
    BY <2>1, <2>3, OccursType
  <2> QED BY <1>8, <2>4
<1>10. Discipline'
  <2>1. \A u, x \in Threads : u # x => Apart(slot[u], slot[x])
    BY <1>1 DEF Discipline
  <2>2. /\ OwnerBusy' \/ phase' # "breed" => \A u \in Threads : slot[u] = {}
        /\ \A u \in Threads : slot[u] \subseteq bred'
    <3>1. CASE slot[t] # {} /\ phase' = phase /\ bred' = bred
      <4>1. OwnerBusy' => OwnerBusy
        BY <1>4, <1>7, <3>1
      <4> QED BY <1>1, <3>1, <4>1 DEF Discipline
    <3>2. CASE \A u \in Threads : slot[u] = {}
      BY <3>2
    <3> QED BY <3>1, <3>2 DEF Edits
  <2>3. ASSUME NEW u \in Threads, NEW i \in 1..Len(todo'[u]), todo'[u][i].kind = "test" PROVE i = 1
    <3>1. CASE u = t
      BY <1>4, <1>9, <2>3, <3>1
    <3>2. CASE u # t
      BY <1>1, <1>4, <2>3, <3>2 DEF Discipline
    <3> QED BY <3>1, <3>2
  <2> QED BY <1>2, <1>3, <2>1, <2>2, <2>3 DEF Discipline
<1>11. ASSUME NEW u \in Threads, NEW v \in Values PROVE Backed(u, v)'
  <2>1. CASE u = t
    BY <2>1 DEF Edits
  <2>2. CASE u # t /\ todo[u] = <<>>
    <3>1. todo'[u] = <<>>
      BY <1>4, <2>2
    <3>2. Occurs(todo'[u], Inc(v)') = 0
      BY <3>1, OccursFew
    <3> QED BY <3>2 DEF Backed, BackedBy
  <2>3. CASE u # t /\ todo[u] # <<>>
    <3>1. \A tr \in Filling(u) \cup Current : ops'[tr] = ops[tr]
      BY <2>3 DEF Edits
    <3>2. PICK g : g = ops'
      OBVIOUS
    <3>3. Spots(Filling(u), ops, v) = Spots(Filling(u), g, v) /\ Spots(Current, ops, v) = Spots(Current, g, v)
      BY <3>1, <3>2, SpotsSame
    <3>4. Filling(u)' = Filling(u)
      <4>1. u = Main => (OwnerBusy' <=> OwnerBusy)
        BY <1>4, <1>7, <2>3
      <4>2. MyTree(u)' = MyTree(u)
        BY DEF MyTree
      <4> QED BY <1>2, <1>3, <4>1, <4>2 DEF Filling
    <3>5. Inc(v)' = Inc(v)
      BY DEF Inc
    <3>6. todo'[u] = todo[u]
      BY <1>4, <2>3
    <3>7. BackedBy(Occurs(todo[u], Inc(v)), Cardinality(Spots(Filling(u), ops, v)),
                   Cardinality(Spots(Current, ops, v)))
      BY <1>1 DEF Backed
    <3>8. BackedBy(Occurs(todo'[u], Inc(v)'), Cardinality(Spots(Filling(u)', g, v)),
                   Cardinality(Spots(Current', g, v)))
      BY <1>3, <3>3, <3>4, <3>5, <3>6, <3>7, Zenon
    <3> QED BY <3>2, <3>8, Zenon DEF Backed
  <2> QED BY <2>1, <2>2, <2>3
<1>12. ASSUME NEW v \in Values PROVE ValueOK(v)'
  <2>1. /\ Owed(Inc(v))' \in Nat /\ Owed(Inc(v)) \in Nat
        /\ Owed(Inc(v))' + Occurs(todo[t], Inc(v)) = Owed(Inc(v)) + Occurs(A, Inc(v))
        /\ Occurs(A, Inc(v)) \in Nat
    BY <1>1, <1>2, OwedAfter
  <2>2. /\ Owed(Dec(v))' \in Nat /\ Owed(Dec(v)) \in Nat
        /\ Owed(Dec(v))' + Occurs(todo[t], Dec(v)) = Owed(Dec(v)) + Occurs(A, Dec(v))
        /\ Occurs(A, Dec(v)) \in Nat
    BY <1>1, <1>2, OwedAfter
  <2>3. /\ Owed(Test(v))' \in Nat /\ Owed(Test(v)) \in Nat
        /\ Owed(Test(v))' + Occurs(todo[t], Test(v)) = Owed(Test(v)) + Occurs(A, Test(v))
        /\ Occurs(A, Test(v)) \in Nat
    BY <1>1, <1>2, OwedAfter
  <2>4. \A w : Occurs(todo[t], w) = 0
    BY <1>2, OccursFew, Zenon
  <2>5. /\ Owed(Inc(v))' = Owed(Inc(v)) + Occurs(A, Inc(v))
        /\ Owed(Dec(v))' = Owed(Dec(v)) + Occurs(A, Dec(v))
        /\ Owed(Test(v))' = Owed(Test(v)) + Occurs(A, Test(v))
    BY <2>1, <2>2, <2>3, <2>4
  <2>6. Held(v) \in Nat /\ Held(v)' \in Nat
    <3>1. PICK g : g = ops'
      OBVIOUS
    <3>2. IsFiniteSet(Trees) /\ \A tr \in Trees : Len(g[tr]) \in Nat
      BY <1>1, <1>5, <3>1, Config DEF Typed
    <3>3. Cardinality(Spots(Trees, g, v)) \in Nat
      BY <3>2, SpotsFinite
    <3>4. Held(v)' = Cardinality(Spots(Trees, g, v))
      BY <1>3, <3>1 DEF Held
    <3> QED BY <1>1, <3>3, <3>4, Countable
  <2>7. ValueOK(v) /\ drops'[v] = drops[v]
    BY <1>2 DEF IInv
  <2>8. CASE Counted(A, v)
    <3>1. CASE life[v] = "live"
      <4>1. LiveOK(Held(v), count[v], Owed(Inc(v)), Owed(Dec(v)), Owed(Test(v)), drops[v])
        BY <2>7, <3>1 DEF ValueOK
      <4>2. count[v] \in Nat
        BY <1>1 DEF Typed
      <4>3. LiveOK(Held(v)', count'[v], Owed(Inc(v))', Owed(Dec(v))', Owed(Test(v))', drops[v])
        BY <2>1, <2>2, <2>3, <2>5, <2>6, <2>8, <4>1, <4>2 DEF LiveOK, Counted
      <4>4. life'[v] = "live"
        BY <2>8, <3>1 DEF Counted
      <4> QED BY <2>7, <4>3, <4>4, Zenon DEF ValueOK
    <3>2. CASE life[v] # "live"
      <4>1. GoneOK(Held(v), Owed(Inc(v)), Owed(Dec(v)), Owed(Test(v)), drops[v],
                   life[v] = "unborn", Alone)
        BY <2>7, <3>2 DEF ValueOK
      <4>2. /\ Held(v)' = 0 /\ Owed(Inc(v))' = Owed(Inc(v)) /\ Owed(Dec(v))' = Owed(Dec(v))
            /\ Owed(Test(v))' = Owed(Test(v))
        BY <2>1, <2>2, <2>3, <2>5, <2>6, <2>8, <4>1 DEF GoneOK, Counted
      <4>3. GoneOK(Held(v)', Owed(Inc(v))', Owed(Dec(v))', Owed(Test(v))', drops[v],
                   life[v] = "unborn", Alone)
        BY <4>1, <4>2, Zenon DEF GoneOK
      <4>4. life'[v] = life[v]
        BY <2>8 DEF Counted
      <4> QED BY <1>3, <2>7, <3>2, <4>3, <4>4, Zenon DEF ValueOK
    <3> QED BY <3>1, <3>2
  <2>9. CASE Made(A, v)
    <3>1. GoneOK(Held(v), Owed(Inc(v)), Owed(Dec(v)), Owed(Test(v)), drops[v], TRUE, Alone)
      <4>1. life[v] # "live" /\ (life[v] = "unborn") = TRUE
        BY <2>9 DEF Made
      <4> QED BY <2>7, <4>1, Zenon DEF ValueOK
    <3>2. LiveOK(Held(v)', count'[v], Owed(Inc(v))', Owed(Dec(v))', Owed(Test(v))', drops[v])
      BY <2>1, <2>2, <2>3, <2>5, <2>6, <2>9, <3>1 DEF GoneOK, LiveOK, Made
    <3>3. life'[v] = "live"
      BY <2>9 DEF Made
    <3> QED BY <2>7, <3>2, <3>3, Zenon DEF ValueOK
  <2> QED BY <2>8, <2>9 DEF Edits
<1> QED BY <1>3, <1>6, <1>10, <1>11, <1>12 DEF IInv

\* The trees of a thread that breeds.
LEMMA Breeding ==
    ASSUME IInv, NEW t \in Threads, slot[t] # {}
    PROVE  /\ Typed /\ Filling(t) = slot[t] \cup {MyTree(t)} /\ Filling(t) \subseteq Trees
           /\ slot[t] \subseteq Filling(t) /\ MyTree(t) \in Filling(t) /\ MyTree(t) \notin slot[t]
           /\ Apart(Filling(t), Current) /\ Current \subseteq Trees /\ phase = "breed"
           /\ (t = Main => ~OwnerBusy)
<1>1. Typed /\ Discipline
  BY DEF IInv
<1>2. t = Main => ~OwnerBusy
  BY DEF OwnerBusy
<1>3. Filling(t) = slot[t] \cup {MyTree(t)}
  BY <1>2 DEF Filling
<1>4. Filling(t) \subseteq Trees /\ Apart(Filling(t), Current)
  BY <1>1, FillingApart
<1>5. Current \subseteq Trees /\ MyTree(t) \notin PopA \cup PopB /\ Next_pop \subseteq PopA \cup PopB
  BY <1>1, Config DEF Typed
<1>6. slot[t] \subseteq Next_pop
  BY <1>1 DEF Typed
<1>7. phase = "breed"
  BY <1>1 DEF Discipline
<1> QED BY <1>1, <1>2, <1>3, <1>4, <1>5, <1>6, <1>7

\* An edit of a thread's slots and its own tree.
LEMMA SlotEditKeeps ==
    ASSUME IInv, NEW t \in Threads, slot[t] # {}, Free(t), NEW A, A \in Seq(Accesses),
           todo' = [todo EXCEPT ![t] = A], UNCHANGED runVars, drops' = drops,
           ops' \in [Trees -> Seq(Operators)], \A tr \in Trees : Len(ops'[tr]) <= MaxLen,
           \A tr \in Trees : tr \notin Filling(t) => ops'[tr] = ops[tr],
           count' \in [Values -> Nat], life' \in [Values -> {"unborn", "live", "dropped"}],
           \A v \in Values : Counted(A, v) \/ Made(A, v),
           \A v \in Values : BackedBy(Occurs(A, Inc(v)),
                                      Cardinality(Spots(Filling(t), ops', v)),
                                      Cardinality(Spots(Current, ops, v)))
    PROVE  IInv'
<1>1. /\ Typed /\ Filling(t) = slot[t] \cup {MyTree(t)}
      /\ Apart(Filling(t), Current) /\ Current \subseteq Trees
  BY Breeding
<1>2. Discipline
  BY DEF IInv
<1>3. /\ setting' = setting /\ slot' = slot /\ front' = front /\ bred' = bred
      /\ phase' = phase /\ generation' = generation /\ generation \in 0..MaxGen
  BY <1>1 DEF runVars, Typed
<1>4. \A tr \in Current : ops'[tr] = ops[tr]
  BY <1>1 DEF Apart
<1>5. ASSUME NEW u \in Threads, u # t, NEW tr \in Filling(u) \cup Current PROVE ops'[tr] = ops[tr]
  <2>1. Apart(Filling(u), Filling(t)) /\ Filling(u) \subseteq Trees
    BY <1>1, <1>2, <1>5, FillingApart
  <2> QED BY <1>4, <1>5, <2>1 DEF Apart
<1>6. ASSUME NEW v \in Values PROVE Backed(t, v)'
  <2>1. todo'[t] = A
    BY <1>1 DEF Typed
  <2>2. PICK g : g = ops'
    OBVIOUS
  <2>3. Spots(Current, ops, v) = Spots(Current, g, v)
    BY <1>4, <2>2, SpotsSame
  <2>4. Filling(t)' = Filling(t)
    <3>1. t = Main => ~OwnerBusy'
      BY <1>3 DEF OwnerBusy
    <3>2. MyTree(t)' = MyTree(t)
      BY DEF MyTree
    <3> QED BY <1>1, <1>3, <3>1, <3>2 DEF Filling
  <2>5. Current' = Current
    BY <1>3 DEF Current, PopA, PopB
  <2>6. Inc(v)' = Inc(v)
    BY DEF Inc
  <2>7. BackedBy(Occurs(A, Inc(v)), Cardinality(Spots(Filling(t), g, v)), Cardinality(Spots(Current, ops, v)))
    BY <2>2, Zenon
  <2>8. BackedBy(Occurs(todo'[t], Inc(v)'), Cardinality(Spots(Filling(t)', g, v)), Cardinality(Spots(Current', g, v)))
    BY <2>1, <2>3, <2>4, <2>5, <2>6, <2>7, Zenon
  <2> QED BY <2>2, <2>8, Zenon DEF Backed
<1>7. Edits(t, A)
  BY <1>3, <1>5, <1>6 DEF Edits
<1> QED BY <1>7, EditKeeps

\* What is held when one tree changes.
LEMMA HeldAfter ==
    ASSUME Typed, NEW d \in Trees, NEW s \in Seq(Operators),
           setting' = setting, ops' = [ops EXCEPT ![d] = s], NEW v
    PROVE  /\ Held(v)' \in Nat /\ Held(v) \in Nat
           /\ Occurs(ops[d], v) \in Nat /\ Occurs(s, v) \in Nat
           /\ Held(v)' + Occurs(ops[d], v) = Held(v) + Occurs(s, v)
<1>1. Trees' = Trees
  BY Fixed
<1>2. PICK k : k = ops'
  OBVIOUS
<1>3. k[d] = s /\ \A e \in Trees : e # d => ops[e] = k[e]
  BY <1>2 DEF Typed
<1>4. Len(ops[d]) \in Nat /\ IsFiniteSet(Spots(Trees, ops, v)) /\ Len(k[d]) \in Nat
  BY <1>3, Countable
<1>5. /\ Cardinality(Spots(Trees, ops, v)) \in Nat /\ Cardinality(Spots(Trees, k, v)) \in Nat
      /\ Occurs(ops[d], v) \in Nat /\ Occurs(k[d], v) \in Nat
      /\ Cardinality(Spots(Trees, k, v)) + Occurs(ops[d], v)
           = Cardinality(Spots(Trees, ops, v)) + Occurs(k[d], v)
  BY <1>3, <1>4, SpotsChange
<1>6. Held(v)' = Cardinality(Spots(Trees, k, v))
  BY <1>1, <1>2 DEF Held
<1>7. Held(v) = Cardinality(Spots(Trees, ops, v))
  BY DEF Held
<1> QED BY <1>3, <1>5, <1>6, <1>7, Zenon

\* What one tree holds is held.
LEMMA HeldIn ==
    ASSUME Typed, NEW d \in Trees, NEW v
    PROVE  Occurs(ops[d], v) <= Held(v) /\ Occurs(ops[d], v) \in Nat /\ Held(v) \in Nat
<1>1. Len(ops[d]) \in Nat /\ IsFiniteSet(Spots(Trees, ops, v)) /\ Held(v) \in Nat
  BY Countable
<1>2. Occurs(ops[d], v) <= Cardinality(Spots(Trees, ops, v))
  BY <1>1, SpotsAtLeast
<1> QED BY <1>1, <1>2, OccursType DEF Held

\* What a tree holds and what it is counted for.
LEMMA Balance ==
    ASSUME NEW h \in Nat, NEW k \in Nat, NEW a \in Nat, NEW b \in Nat, NEW x \in Nat, NEW y \in Nat,
           h + a = k + b, b + y = a + x
    PROVE  h + y = k + x
OBVIOUS

\* An edit of one tree to s, with a list that counts what comes in and goes out.
TreeEdit(t, d, s, A, in, out) ==
    /\ Free(t) /\ slot[t] # {} /\ d \in Filling(t)
    /\ s \in Seq(Operators) /\ Len(s) <= MaxLen /\ ops' = [ops EXCEPT ![d] = s]
    /\ Counts(Values, A, in, out) /\ todo' = [todo EXCEPT ![t] = A]
    /\ UNCHANGED <<valueVars, runVars>>
    /\ \A v \in Values :
         /\ Occurs(s, v) + Occurs(out, v) = Occurs(ops[d], v) + Occurs(in, v)
         /\ Occurs(in, v) \in Nat /\ Occurs(out, v) \in Nat
         /\ Held(v) = 0 => Occurs(in, v) = 0
         /\ BackedBy(Occurs(in, v), Cardinality(Spots(Filling(t), ops', v)),
                     Cardinality(Spots(Current, ops, v)))

\* It keeps the invariant.
LEMMA TreeEditKeeps ==
    ASSUME IInv, NEW t \in Threads, NEW d, NEW s, NEW A, NEW in, NEW out,
           TreeEdit(t, d, s, A, in, out)
    PROVE  IInv'
<1> SUFFICES ASSUME slot[t] # {}, Free(t), d \in Filling(t),
           s \in Seq(Operators), Len(s) <= MaxLen, ops' = [ops EXCEPT ![d] = s],
           Counts(Values, A, in, out),
           todo' = [todo EXCEPT ![t] = A], UNCHANGED <<valueVars, runVars>>,
           \A v \in Values : Occurs(s, v) + Occurs(out, v) = Occurs(ops[d], v) + Occurs(in, v),
           \A v \in Values : /\ Occurs(in, v) \in Nat /\ Occurs(out, v) \in Nat
                             /\ Held(v) = 0 => Occurs(in, v) = 0,
           \A v \in Values : BackedBy(Occurs(in, v),
                                      Cardinality(Spots(Filling(t), ops', v)),
                                      Cardinality(Spots(Current, ops, v)))
             PROVE  IInv'
  BY Zenon DEF TreeEdit
<1>1. Typed /\ Filling(t) \subseteq Trees /\ d \in Trees
  BY Breeding
<1>2. /\ count' = count /\ life' = life /\ drops' = drops /\ setting' = setting /\ UNCHANGED runVars
      /\ count \in [Values -> Nat] /\ life \in [Values -> {"unborn", "live", "dropped"}]
  BY <1>1 DEF valueVars, runVars, Typed
<1>3. A \in Seq(Accesses)
  BY DEF Counts, Accesses
<1>4. /\ ops' \in [Trees -> Seq(Operators)] /\ \A tr \in Trees : Len(ops'[tr]) <= MaxLen
      /\ \A tr \in Trees : tr \notin Filling(t) => ops'[tr] = ops[tr]
  BY <1>1 DEF Typed
<1>5. ASSUME NEW v \in Values PROVE Counted(A, v)
  <2>1. /\ Held(v)' \in Nat /\ Held(v) \in Nat
        /\ Occurs(ops[d], v) \in Nat /\ Occurs(s, v) \in Nat
        /\ Held(v)' + Occurs(ops[d], v) = Held(v) + Occurs(s, v)
    BY <1>1, <1>2, HeldAfter
  <2>2. /\ Occurs(s, v) + Occurs(out, v) = Occurs(ops[d], v) + Occurs(in, v)
        /\ Occurs(in, v) \in Nat /\ Occurs(out, v) \in Nat
    OBVIOUS
  <2>3. Held(v)' + Occurs(out, v) = Held(v) + Occurs(in, v)
    <3>1. PICK h, k, a, b, x, y : /\ h = Held(v)' /\ k = Held(v)
                                  /\ a = Occurs(ops[d], v) /\ b = Occurs(s, v)
                                  /\ x = Occurs(in, v) /\ y = Occurs(out, v)
      OBVIOUS
    <3>2. /\ h \in Nat /\ k \in Nat /\ a \in Nat /\ b \in Nat /\ x \in Nat /\ y \in Nat
          /\ h + a = k + b /\ b + y = a + x
      BY <2>1, <2>2, <3>1, Zenon
    <3>3. h + y = k + x
      BY <3>2, Balance
    <3> QED BY <3>1, <3>3, Zenon
  <2>4. CountsOne(A, v, in, out)
    BY DEF Counts
  <2> QED BY <1>2, <2>3, <2>4, Zenon DEF Counted, CountsOne
<1>6. ASSUME NEW v \in Values
      PROVE  BackedBy(Occurs(A, Inc(v)), Cardinality(Spots(Filling(t), ops', v)),
                      Cardinality(Spots(Current, ops, v)))
  <2>1. Occurs(A, Inc(v)) = Occurs(in, v)
    BY DEF Counts, CountsOne
  <2>2. PICK g : g = ops'
    OBVIOUS
  <2>3. BackedBy(Occurs(in, v), Cardinality(Spots(Filling(t), g, v)), Cardinality(Spots(Current, ops, v)))
    BY <2>2, Zenon
  <2> QED BY <2>1, <2>2, <2>3, Zenon
<1> QED BY <1>2, <1>3, <1>4, <1>5, <1>6, SlotEditKeeps

\* A tree cut in two places, and with another part between the places.
LEMMA SpliceIs ==
    ASSUME Typed, NEW d \in Trees, NEW c \in Cuts(d), NEW in \in Seq(Operators)
    PROVE  /\ Between(d, c[1], c[2]) \in Seq(Operators) /\ Len(Between(d, c[1], c[2])) <= Len(ops[d])
           /\ Splice(d, c[1], c[2], in) \in Seq(Operators)
           /\ \A v : /\ Occurs(Between(d, c[1], c[2]), v) \in Nat /\ Occurs(in, v) \in Nat
                     /\ Occurs(ops[d], v) \in Nat /\ Occurs(Splice(d, c[1], c[2], in), v) \in Nat
                     /\ Occurs(Splice(d, c[1], c[2], in), v) + Occurs(Between(d, c[1], c[2]), v)
                          = Occurs(ops[d], v) + Occurs(in, v)
                     /\ Occurs(Between(d, c[1], c[2]), v) <= Occurs(ops[d], v)
                     /\ Occurs(in, v) <= Occurs(Splice(d, c[1], c[2], in), v)
<1>1. PICK s, i, j : s = ops[d] /\ i = c[1] /\ j = c[2]
  OBVIOUS
<1>2. s \in Seq(Operators) /\ i \in 0..Len(s) /\ j \in 0..Len(s) /\ i <= j
  <2>1. s \in Seq(Operators)
    BY <1>1, Countable
  <2> QED BY <1>1, <2>1 DEF Cuts
<1>3. PICK x, y, z : x = SubSeq(s, 1, i) /\ y = SubSeq(s, i + 1, j) /\ z = SubSeq(s, j + 1, Len(s))
  OBVIOUS
<1>4. x \in Seq(Operators) /\ y \in Seq(Operators) /\ z \in Seq(Operators)
  BY <1>2, <1>3, OccursParts
<1>5. Len(y) <= Len(s)
  BY <1>2, <1>3
<1>6. Between(d, c[1], c[2]) = y
  BY <1>1, <1>3 DEF Between
<1>7. Splice(d, c[1], c[2], in) = x \o in \o z
  <2>1. Between(d, 0, i) = x
    BY <1>1, <1>3 DEF Between
  <2>2. Between(d, j, Len(s)) = z
    BY <1>1, <1>3 DEF Between
  <2> QED BY <1>1, <2>1, <2>2, Zenon DEF Splice
<1>8. x \o in \in Seq(Operators) /\ (x \o in) \o z \in Seq(Operators)
  <2>1. x \o in \in Seq(Operators)
    BY <1>4, Joined
  <2> QED BY <1>4, <2>1, Joined
<1>9. ASSUME NEW v
      PROVE  /\ Occurs(y, v) \in Nat /\ Occurs(in, v) \in Nat
             /\ Occurs(s, v) \in Nat /\ Occurs((x \o in) \o z, v) \in Nat
             /\ Occurs((x \o in) \o z, v) + Occurs(y, v) = Occurs(s, v) + Occurs(in, v)
             /\ Occurs(y, v) <= Occurs(s, v) /\ Occurs(in, v) <= Occurs((x \o in) \o z, v)
  <2>1. Occurs(s, v) = Occurs(x, v) + Occurs(y, v) + Occurs(z, v)
    BY <1>2, <1>3, OccursParts
  <2>2. Occurs(x \o in, v) = Occurs(x, v) + Occurs(in, v)
    BY <1>4, OccursJoined
  <2>3. Occurs((x \o in) \o z, v) = Occurs(x \o in, v) + Occurs(z, v)
    BY <1>4, <1>8, OccursJoined
  <2>4. Occurs(x, v) \in Nat /\ Occurs(y, v) \in Nat /\ Occurs(z, v) \in Nat /\ Occurs(in, v) \in Nat
    <3>1. Len(x) \in Nat /\ Len(y) \in Nat /\ Len(z) \in Nat /\ Len(in) \in Nat
      BY <1>4
    <3> QED BY <3>1, OccursType
  <2> QED BY <2>1, <2>2, <2>3, <2>4
<1> QED BY <1>1, <1>4, <1>5, <1>6, <1>7, <1>8, <1>9, Zenon

\* copy_fast of a parent.
LEMMA CopyParentKeeps ==
    ASSUME IInv, NEW t \in Threads, CopyParent(t)
    PROVE  IInv'
<1>1. PICK d \in Children(t), p \in Current :
        /\ todo' = [todo EXCEPT ![t] = CopyAccesses(ops[d], ops[p])]
        /\ ops' = [ops EXCEPT ![d] = ops[p]]
  BY DEF CopyParent
<1>2. /\ Typed /\ Filling(t) \subseteq Trees /\ Children(t) \subseteq Filling(t)
      /\ Apart(Filling(t), Current) /\ Current \subseteq Trees /\ slot[t] # {}
  <2>1. slot[t] # {}
    BY <1>1, FS_EmptySet DEF Children
  <2> QED BY <2>1, Breeding DEF Children
<1>3. /\ d \in Filling(t) /\ d \in Trees /\ p \in Trees /\ Free(t) /\ UNCHANGED <<valueVars, runVars>>
  BY <1>2 DEF CopyParent
<1>4. PICK old, new : old = ops[d] /\ new = ops[p]
  OBVIOUS
<1>5. old \in Seq(Operators) /\ new \in Seq(Operators) /\ Len(new) <= MaxLen
  BY <1>2, <1>3, <1>4 DEF Typed
<1>6. PICK A : A = CopyAccesses(old, new)
  OBVIOUS
<1>7. Counts(Values, A, new, old)
  <2>1. Plain \notin Values
    BY <1>2, Config DEF Typed
  <2> QED BY <1>5, <1>6, <2>1, CopyCounts DEF Operators
<1>8. ASSUME NEW v \in Values
      PROVE  /\ Occurs(new, v) + Occurs(old, v) = Occurs(old, v) + Occurs(new, v)
             /\ Occurs(new, v) \in Nat /\ Occurs(old, v) \in Nat
             /\ Held(v) = 0 => Occurs(new, v) = 0
  <2>1. Occurs(new, v) <= Held(v) /\ Occurs(new, v) \in Nat /\ Held(v) \in Nat
    BY <1>2, <1>3, <1>4, HeldIn
  <2>2. Occurs(old, v) \in Nat
    BY <1>2, <1>3, <1>4, HeldIn
  <2> QED BY <2>1, <2>2
<1>9. ASSUME NEW v \in Values
      PROVE  BackedBy(Occurs(new, v), Cardinality(Spots(Filling(t), ops', v)),
                      Cardinality(Spots(Current, ops, v)))
  <2>1. PICK g : g = ops'
    OBVIOUS
  <2>2. g[d] = new /\ \A tr \in Filling(t) : Len(g[tr]) \in Nat
    BY <1>1, <1>2, <1>3, <1>4, <1>5, <2>1, Countable DEF Typed
  <2>3. IsFiniteSet(Spots(Filling(t), g, v))
    <3>1. IsFiniteSet(Trees)
      BY <1>2, Config DEF Typed
    <3>2. IsFiniteSet(Filling(t))
      BY <1>2, <3>1, FS_Subset
    <3> QED BY <2>2, <3>2, SpotsFinite
  <2>4. Occurs(g[d], v) <= Cardinality(Spots(Filling(t), g, v))
    BY <1>3, <2>2, <2>3, SpotsAtLeast
  <2>5. Len(ops[p]) \in Nat /\ IsFiniteSet(Spots(Current, ops, v))
        /\ Cardinality(Spots(Current, ops, v)) \in Nat
    BY <1>2, <1>3, Countable
  <2>6. Occurs(ops[p], v) <= Cardinality(Spots(Current, ops, v))
    BY <1>1, <2>5, SpotsAtLeast
  <2>7. PICK m, x, y : m = Occurs(new, v) /\ x = Cardinality(Spots(Filling(t), g, v))
                         /\ y = Cardinality(Spots(Current, ops, v))
    OBVIOUS
  <2>8. m <= x /\ m <= y /\ m \in Nat /\ y \in Nat
    BY <1>4, <1>8, <2>2, <2>4, <2>5, <2>6, <2>7, Zenon
  <2>9. BackedBy(m, x, y)
    BY <2>8 DEF BackedBy
  <2> QED BY <2>1, <2>7, <2>9, Zenon
<1>10. todo' = [todo EXCEPT ![t] = A] /\ ops' = [ops EXCEPT ![d] = new]
  BY <1>1, <1>4, <1>6
<1>11. \A v \in Values : Occurs(new, v) + Occurs(old, v) = Occurs(ops[d], v) + Occurs(new, v)
  BY <1>4, <1>8
<1>12. TreeEdit(t, d, new, A, new, old)
  BY <1>2, <1>3, <1>5, <1>7, <1>8, <1>9, <1>10, <1>11, Zenon DEF TreeEdit
<1> QED BY <1>12, TreeEditKeeps

\* A list that counts nothing in asks for nothing.
LEMMA NothingDue ==
    ASSUME NEW mine, NEW shared PROVE BackedBy(0, mine, shared)
BY DEF BackedBy

\* tree_t::clear.
LEMMA ClearScratchKeeps ==
    ASSUME IInv, NEW t \in Threads, ClearScratch(t)
    PROVE  IInv'
<1>1. PICK m : m = MyTree(t)
  OBVIOUS
<1>2. /\ Free(t) /\ slot[t] # {} /\ UNCHANGED <<valueVars, runVars>>
      /\ todo' = [todo EXCEPT ![t] = Decrements(ops[m])] /\ ops' = [ops EXCEPT ![m] = <<>>]
  BY <1>1 DEF ClearScratch
<1>3. Typed /\ m \in Filling(t) /\ m \in Trees
  BY <1>1, <1>2, Breeding
<1>4. PICK A, old, e : A = Decrements(old) /\ old = ops[m] /\ e = <<>>
  OBVIOUS
<1>5. old \in Seq(Operators) /\ e \in Seq(Operators) /\ Len(e) <= MaxLen /\ Plain \notin Values
  BY <1>3, <1>4, Config DEF Typed
<1>6. Counts(Values, A, e, old)
  BY <1>4, <1>5, AllCounts DEF Operators
<1>7. ASSUME NEW v \in Values
      PROVE  /\ Occurs(e, v) = 0 /\ Occurs(old, v) \in Nat
             /\ Occurs(e, v) + Occurs(old, v) = Occurs(old, v) + Occurs(e, v)
  <2>1. Occurs(e, v) = 0
    BY <1>4, OccursFew
  <2>2. Occurs(old, v) \in Nat
    BY <1>3, <1>4, HeldIn
  <2> QED BY <2>1, <2>2
<1>8. /\ todo' = [todo EXCEPT ![t] = A] /\ ops' = [ops EXCEPT ![m] = e]
      /\ \A v \in Values : Occurs(e, v) + Occurs(old, v) = Occurs(ops[m], v) + Occurs(e, v)
      /\ \A v \in Values : /\ Occurs(e, v) \in Nat /\ Occurs(old, v) \in Nat
                           /\ Held(v) = 0 => Occurs(e, v) = 0
  BY <1>2, <1>4, <1>7
<1>9. \A v \in Values : BackedBy(Occurs(e, v), Cardinality(Spots(Filling(t), ops', v)),
                                 Cardinality(Spots(Current, ops, v)))
  BY <1>7, NothingDue, Zenon
<1>10. TreeEdit(t, m, e, A, e, old)
  BY <1>2, <1>3, <1>5, <1>6, <1>8, <1>9, Zenon DEF TreeEdit
<1> QED BY <1>10, TreeEditKeeps

\* The trees of a thread after an edit.
LEMMA AfterEdit ==
    ASSUME IInv, NEW t \in Threads, slot[t] # {}, NEW g, \A e \in Trees : g[e] \in Seq(Operators)
    PROVE  /\ \A e \in Filling(t) : Len(g[e]) \in Nat
           /\ \A v : IsFiniteSet(Spots(Filling(t), g, v))
<1>1. Typed /\ Filling(t) \subseteq Trees
  BY Breeding
<1>2. \A e \in Filling(t) : Len(g[e]) \in Nat
  BY <1>1
<1>3. IsFiniteSet(Filling(t))
  <2>1. IsFiniteSet(Trees)
    BY <1>1, Config DEF Typed
  <2> QED BY <1>1, <2>1, FS_Subset
<1> QED BY <1>2, <1>3, SpotsFinite

\* What is due is backed when two trees hold as much.
LEMMA BackedTwice ==
    ASSUME NEW F, NEW g, NEW v, NEW d \in F, NEW e \in F, d # e,
           \A x \in F : Len(g[x]) \in Nat, IsFiniteSet(Spots(F, g, v)),
           NEW k \in Nat, k <= Occurs(g[d], v), k <= Occurs(g[e], v), NEW shared
    PROVE  BackedBy(k, Cardinality(Spots(F, g, v)), shared)
<1>1. PICK x, y, n : x = Occurs(g[d], v) /\ y = Occurs(g[e], v) /\ n = Cardinality(Spots(F, g, v))
  OBVIOUS
<1>2. Len(g[d]) \in Nat /\ Len(g[e]) \in Nat
  OBVIOUS
<1>3. x + y <= n
  BY <1>1, <1>2, SpotsAtLeast
<1>4. x \in Nat /\ y \in Nat /\ n \in Nat
  BY <1>1, <1>2, OccursType, FS_CardinalityType
<1>5. k <= x /\ k <= y
  BY <1>1
<1>6. BackedBy(k, n, shared)
  BY <1>3, <1>4, <1>5 DEF BackedBy
<1> QED BY <1>1, <1>6, Zenon

\* copy_subtree.
LEMMA CopySubtreeKeeps ==
    ASSUME IInv, NEW t \in Threads, CopySubtree(t)
    PROVE  IInv'
<1>1. PICK m : m = MyTree(t)
  OBVIOUS
<1>0. PICK d \in slot[t] : \E c \in Cuts(d) :
        /\ todo' = [todo EXCEPT ![t] = Increments(Reverse(Between(d, c[1], c[2])))]
        /\ ops' = [ops EXCEPT ![m] = Between(d, c[1], c[2])]
  BY <1>1, Zenon DEF CopySubtree
<1>2. PICK c \in Cuts(d) :
        /\ todo' = [todo EXCEPT ![t] = Increments(Reverse(Between(d, c[1], c[2])))]
        /\ ops' = [ops EXCEPT ![m] = Between(d, c[1], c[2])]
  BY <1>0, Zenon
<1>3. Free(t) /\ slot[t] # {} /\ UNCHANGED <<valueVars, runVars>> /\ ops[m] = <<>>
  BY <1>1, <1>2 DEF CopySubtree
<1>4. /\ Typed /\ m \in Filling(t) /\ m \in Trees /\ d \in Filling(t) /\ d \in Trees /\ d # m
      /\ Plain \notin Values
  BY <1>1, <1>3, Breeding, Config DEF Typed
<1>5. PICK A, part, e : /\ A = Increments(Reverse(part)) /\ part = Between(d, c[1], c[2])
                        /\ e = <<>>
  OBVIOUS
<1>6. part \in Seq(Operators) /\ Len(part) <= MaxLen
  <2>1. part \in Seq(Operators) /\ Len(part) <= Len(ops[d])
    <3>1. e \in Seq(Operators)
      BY <1>5
    <3> QED BY <1>4, <1>5, <3>1, SpliceIs
  <2>2. Len(ops[d]) <= MaxLen /\ Len(ops[d]) \in Nat /\ MaxLen \in Nat /\ Len(part) \in Nat
    BY <1>4, <2>1, Config DEF Typed
  <2> QED BY <2>1, <2>2
<1>7. Counts(Values, A, part, e)
  BY <1>4, <1>5, <1>6, PartCounts DEF Operators
<1>8. ASSUME NEW v \in Values
      PROVE  /\ Occurs(part, v) + Occurs(e, v) = Occurs(ops[m], v) + Occurs(part, v)
             /\ Occurs(part, v) \in Nat /\ Occurs(e, v) \in Nat
             /\ Held(v) = 0 => Occurs(part, v) = 0
             /\ Occurs(part, v) <= Occurs(ops[d], v)
  <2>1. Occurs(part, v) \in Nat /\ Occurs(part, v) <= Occurs(ops[d], v) /\ Occurs(ops[d], v) \in Nat
    <3>1. e \in Seq(Operators)
      BY <1>5
    <3> QED BY <1>4, <1>5, <3>1, SpliceIs
  <2>2. Occurs(e, v) = 0 /\ Occurs(ops[m], v) = 0
    BY <1>3, <1>5, OccursFew
  <2>3. Occurs(ops[d], v) <= Held(v) /\ Held(v) \in Nat
    BY <1>4, HeldIn
  <2> QED BY <2>1, <2>2, <2>3
<1>9. PICK g : g = ops'
  OBVIOUS
<1>10. g = [ops EXCEPT ![m] = part] /\ todo' = [todo EXCEPT ![t] = A]
  BY <1>2, <1>5, <1>9
<1>11. /\ g[m] = part /\ g[d] = ops[d]
       /\ \A x \in Filling(t) : Len(g[x]) \in Nat
       /\ \A v : IsFiniteSet(Spots(Filling(t), g, v))
  <2>1. g[m] = part /\ g[d] = ops[d] /\ \A x \in Trees : g[x] \in Seq(Operators)
    BY <1>4, <1>6, <1>10 DEF Typed
  <2> QED BY <1>3, <2>1, AfterEdit
<1>12. ASSUME NEW v \in Values
       PROVE  BackedBy(Occurs(part, v), Cardinality(Spots(Filling(t), g, v)),
                       Cardinality(Spots(Current, ops, v)))
  <2>1. /\ Occurs(part, v) \in Nat /\ Occurs(part, v) <= Occurs(g[m], v)
        /\ Occurs(part, v) <= Occurs(g[d], v)
    BY <1>8, <1>11
  <2> QED BY <1>4, <1>11, <2>1, BackedTwice
<1>13. TreeEdit(t, m, part, A, part, e)
  BY <1>3, <1>4, <1>6, <1>7, <1>8, <1>9, <1>10, <1>12, Zenon DEF TreeEdit
<1> QED BY <1>13, TreeEditKeeps

\* replace_subtree, insert_subtree and delete_subtree.
LEMMA ReplaceSubtreeKeeps ==
    ASSUME IInv, NEW t \in Threads, ReplaceSubtree(t)
    PROVE  IInv'
<1>1. PICK m : m = MyTree(t)
  OBVIOUS
<1>0. PICK d \in slot[t], in \in {<<>>, ops[m]} : \E c \in Cuts(d) :
        /\ Len(Splice(d, c[1], c[2], in)) <= MaxLen
        /\ todo' = [todo EXCEPT ![t] = ReplaceAccesses(Between(d, c[1], c[2]), in)]
        /\ ops' = [ops EXCEPT ![d] = Splice(d, c[1], c[2], in)]
  BY <1>1, Zenon DEF ReplaceSubtree
<1>2. PICK c \in Cuts(d) :
        /\ Len(Splice(d, c[1], c[2], in)) <= MaxLen
        /\ todo' = [todo EXCEPT ![t] = ReplaceAccesses(Between(d, c[1], c[2]), in)]
        /\ ops' = [ops EXCEPT ![d] = Splice(d, c[1], c[2], in)]
  BY <1>0, Zenon
<1>3. Free(t) /\ slot[t] # {} /\ UNCHANGED <<valueVars, runVars>>
  BY <1>1, <1>2 DEF ReplaceSubtree
<1>4. /\ Typed /\ m \in Filling(t) /\ m \in Trees /\ d \in Filling(t) /\ d \in Trees /\ d # m
      /\ Plain \notin Values
  BY <1>1, <1>3, Breeding, Config DEF Typed
<1>5. PICK A, s, out : /\ A = ReplaceAccesses(out, in) /\ out = Between(d, c[1], c[2])
                       /\ s = Splice(d, c[1], c[2], in)
  OBVIOUS
<1>6. in \in Seq(Operators)
  <2>1. ops[m] \in Seq(Operators) /\ <<>> \in Seq(Operators)
    BY <1>4, Countable
  <2> QED BY <2>1
<1>7. out \in Seq(Operators) /\ s \in Seq(Operators) /\ Len(s) <= MaxLen
  BY <1>2, <1>4, <1>5, <1>6, SpliceIs
<1>8. Counts(Values, A, in, out)
  BY <1>4, <1>5, <1>6, <1>7, PartCounts DEF Operators
<1>9. ASSUME NEW v \in Values
      PROVE  /\ Occurs(s, v) + Occurs(out, v) = Occurs(ops[d], v) + Occurs(in, v)
             /\ Occurs(in, v) \in Nat /\ Occurs(out, v) \in Nat
             /\ Held(v) = 0 => Occurs(in, v) = 0
             /\ Occurs(in, v) <= Occurs(s, v)
             /\ Occurs(in, v) # 0 => Occurs(in, v) <= Occurs(ops[m], v)
  <2>1. /\ Occurs(s, v) + Occurs(out, v) = Occurs(ops[d], v) + Occurs(in, v)
        /\ Occurs(in, v) \in Nat /\ Occurs(out, v) \in Nat /\ Occurs(in, v) <= Occurs(s, v)
    BY <1>4, <1>5, <1>6, SpliceIs
  <2>2. Occurs(ops[m], v) <= Held(v) /\ Held(v) \in Nat /\ Occurs(ops[m], v) \in Nat
    BY <1>4, HeldIn
  <2>3. Occurs(in, v) = 0 \/ Occurs(in, v) = Occurs(ops[m], v)
    <3>1. Occurs(<<>>, v) = 0
      BY OccursFew
    <3> QED BY <3>1
  <2> QED BY <2>1, <2>2, <2>3
<1>10. PICK g : g = ops'
  OBVIOUS
<1>11. g = [ops EXCEPT ![d] = s] /\ todo' = [todo EXCEPT ![t] = A]
  BY <1>2, <1>5, <1>10
<1>12. /\ g[d] = s /\ g[m] = ops[m]
       /\ \A x \in Filling(t) : Len(g[x]) \in Nat
       /\ \A v : IsFiniteSet(Spots(Filling(t), g, v))
  <2>1. g[d] = s /\ g[m] = ops[m] /\ \A x \in Trees : g[x] \in Seq(Operators)
    BY <1>4, <1>7, <1>11 DEF Typed
  <2> QED BY <1>3, <2>1, AfterEdit
<1>13. ASSUME NEW v \in Values
       PROVE  BackedBy(Occurs(in, v), Cardinality(Spots(Filling(t), g, v)),
                       Cardinality(Spots(Current, ops, v)))
  <2>1. CASE Occurs(in, v) = 0
    BY <2>1, NothingDue, Zenon
  <2>2. CASE Occurs(in, v) # 0
    <3>1. /\ Occurs(in, v) \in Nat /\ Occurs(in, v) <= Occurs(g[d], v)
          /\ Occurs(in, v) <= Occurs(g[m], v)
      BY <1>9, <1>12, <2>2
    <3> QED BY <1>4, <1>12, <3>1, BackedTwice
  <2> QED BY <2>1, <2>2
<1>14. TreeEdit(t, d, s, A, in, out)
  BY <1>3, <1>4, <1>7, <1>8, <1>9, <1>10, <1>11, <1>13, Zenon DEF TreeEdit
<1> QED BY <1>14, TreeEditKeeps

\* No access counts nothing.
LEMMA NoAccess ==
    ASSUME NEW V
    PROVE  Counts(V, <<>>, <<>>, <<>>)
<1>1. \A w : Occurs(<<>>, w) = 0
  BY OccursFew
<1> QED BY <1>1 DEF Counts, CountsOne

\* An edit of one tree that gives it the new value b, and that A counts.
BornEdit(t, d, s, A, out, b) ==
    /\ Free(t) /\ slot[t] # {} /\ d \in Filling(t)
    /\ s \in Seq(Operators) /\ Len(s) <= MaxLen /\ ops' = [ops EXCEPT ![d] = s]
    /\ Counts(Values, A, <<>>, out) /\ todo' = [todo EXCEPT ![t] = A]
    /\ UNCHANGED runVars /\ b \in Values /\ Born(b)
    /\ \A v \in Values :
         /\ Occurs(out, v) \in Nat /\ Occurs(out, v) <= Occurs(ops[d], v)
         /\ Occurs(s, v) + Occurs(out, v) = Occurs(ops[d], v) + (IF b = v THEN 1 ELSE 0)

\* It keeps the invariant.
LEMMA BornEditKeeps ==
    ASSUME IInv, NEW t \in Threads, NEW d, NEW s, NEW A, NEW out, NEW b,
           BornEdit(t, d, s, A, out, b)
    PROVE  IInv'
<1> SUFFICES ASSUME slot[t] # {}, Free(t), d \in Filling(t),
           s \in Seq(Operators), Len(s) <= MaxLen, ops' = [ops EXCEPT ![d] = s],
           Counts(Values, A, <<>>, out), todo' = [todo EXCEPT ![t] = A],
           UNCHANGED runVars, b \in Values, Born(b),
           \A v \in Values :
             /\ Occurs(out, v) \in Nat /\ Occurs(out, v) <= Occurs(ops[d], v)
             /\ Occurs(s, v) + Occurs(out, v) = Occurs(ops[d], v) + (IF b = v THEN 1 ELSE 0)
             PROVE  IInv'
  BY Zenon DEF BornEdit
<1>1. Typed /\ Filling(t) \subseteq Trees /\ d \in Trees
  BY Breeding
<1>2. /\ life[b] = "unborn" /\ life' = [life EXCEPT ![b] = "live"]
      /\ count' = [count EXCEPT ![b] = 1] /\ drops' = drops /\ setting' = setting
  BY DEF Born, BornCount, runVars
<1>3. /\ count' \in [Values -> Nat] /\ life' \in [Values -> {"unborn", "live", "dropped"}]
      /\ life'[b] = "live" /\ count'[b] = 1
      /\ \A v \in Values : v # b => life'[v] = life[v] /\ count'[v] = count[v]
  BY <1>1, <1>2 DEF Typed
<1>4. A \in Seq(Accesses)
  BY DEF Counts, Accesses
<1>5. /\ ops' \in [Trees -> Seq(Operators)] /\ \A tr \in Trees : Len(ops'[tr]) <= MaxLen
      /\ \A tr \in Trees : tr \notin Filling(t) => ops'[tr] = ops[tr]
  BY <1>1 DEF Typed
<1>6. ASSUME NEW v \in Values
      PROVE  Occurs(A, Inc(v)) = 0 /\ Occurs(A, Dec(v)) = Occurs(out, v) /\ Occurs(A, Test(v)) = 0
  <2>1. CountsOne(A, v, <<>>, out) /\ Occurs(<<>>, v) = 0
    BY OccursFew DEF Counts
  <2> QED BY <2>1, Zenon DEF CountsOne
<1>7. ASSUME NEW v \in Values
      PROVE  /\ Held(v)' \in Nat /\ Held(v) \in Nat
             /\ Held(v)' + Occurs(out, v) = Held(v) + (IF b = v THEN 1 ELSE 0)
  <2>1. /\ Held(v)' \in Nat /\ Held(v) \in Nat
        /\ Occurs(ops[d], v) \in Nat /\ Occurs(s, v) \in Nat
        /\ Held(v)' + Occurs(ops[d], v) = Held(v) + Occurs(s, v)
    BY <1>1, <1>2, HeldAfter
  <2>2. PICK h, k, a, c, x, y : /\ h = Held(v)' /\ k = Held(v)
                                /\ a = Occurs(ops[d], v) /\ c = Occurs(s, v)
                                /\ x = (IF b = v THEN 1 ELSE 0) /\ y = Occurs(out, v)
    OBVIOUS
  <2>3. Occurs(s, v) + Occurs(out, v) = Occurs(ops[d], v) + (IF b = v THEN 1 ELSE 0)
        /\ Occurs(out, v) \in Nat
    OBVIOUS
  <2>4. x \in Nat
    BY <2>2
  <2>5. /\ h \in Nat /\ k \in Nat /\ a \in Nat /\ c \in Nat /\ y \in Nat
        /\ h + a = k + c /\ c + y = a + x
    BY <2>1, <2>2, <2>3, Zenon
  <2>6. h + y = k + x
    BY <2>4, <2>5, Balance
  <2> QED BY <2>1, <2>2, <2>6, Zenon
<1>8. Made(A, b)
  <2>1. Held(b) = 0
    <3>1. life[b] # "live"
      BY <1>2
    <3> QED BY <3>1, CountedIsLive
  <2>2. Occurs(out, b) = 0
    <3>1. Occurs(ops[d], b) <= Held(b) /\ Occurs(ops[d], b) \in Nat
      BY <1>1, HeldIn
    <3>2. Occurs(out, b) \in Nat /\ Occurs(out, b) <= Occurs(ops[d], b)
      OBVIOUS
    <3> QED BY <2>1, <3>1, <3>2
  <2>3. Held(b)' = 1
    <3>1. Held(b)' \in Nat /\ Held(b)' + Occurs(out, b) = Held(b) + 1
      BY <1>7
    <3> QED BY <2>1, <2>2, <3>1
  <2>4. Held(b)' = 1 + Occurs(A, Inc(b))
    BY <1>6, <2>3
  <2> QED BY <1>2, <1>3, <1>6, <2>2, <2>4, Zenon DEF Made
<1>9. ASSUME NEW v \in Values, v # b PROVE Counted(A, v)
  <2>1. Held(v)' + Occurs(out, v) = Held(v) + 0
    BY <1>7, <1>9
  <2>2. Held(v)' + Occurs(A, Dec(v)) = Held(v) + Occurs(A, Inc(v))
    BY <1>6, <2>1, Zenon
  <2> QED BY <1>3, <1>6, <1>9, <2>2, Zenon DEF Counted
<1>10. \A v \in Values : Counted(A, v) \/ Made(A, v)
  BY <1>8, <1>9
<1>11. \A v \in Values : BackedBy(Occurs(A, Inc(v)), Cardinality(Spots(Filling(t), ops', v)),
                                  Cardinality(Spots(Current, ops, v)))
  BY <1>6, NothingDue, Zenon
<1> QED BY <1>2, <1>3, <1>4, <1>5, <1>10, <1>11, SlotEditKeeps

\* The generator.
LEMMA GenerateScratchKeeps ==
    ASSUME IInv, NEW t \in Threads, GenerateScratch(t)
    PROVE  IInv'
<1>1. PICK m : m = MyTree(t)
  OBVIOUS
<1>2. PICK b \in Values : Born(b) /\ ops' = [ops EXCEPT ![m] = <<b>>]
  BY <1>1, Zenon DEF GenerateScratch
<1>3. Free(t) /\ slot[t] # {} /\ ops[m] = <<>> /\ todo' = todo /\ UNCHANGED runVars
  BY <1>1 DEF GenerateScratch
<1>4. Typed /\ m \in Filling(t) /\ m \in Trees
  BY <1>1, <1>3, Breeding
<1>5. PICK s, A, out : s = <<b>> /\ A = <<>> /\ out = <<>>
  OBVIOUS
<1>6. s \in Seq(Operators) /\ Len(s) <= MaxLen
  <2>1. MaxLen \in Nat \ {0}
    BY <1>4, Config DEF Typed
  <2> QED BY <1>5, <2>1 DEF Operators
<1>7. todo' = [todo EXCEPT ![t] = A]
  BY <1>3, <1>4, <1>5 DEF Free, Typed
<1>8. Counts(Values, A, <<>>, out)
  BY <1>5, NoAccess, Zenon
<1>9. ASSUME NEW v \in Values
      PROVE  /\ Occurs(out, v) \in Nat /\ Occurs(out, v) <= Occurs(ops[m], v)
             /\ Occurs(s, v) + Occurs(out, v) = Occurs(ops[m], v) + (IF b = v THEN 1 ELSE 0)
  <2>1. Occurs(out, v) = 0 /\ Occurs(ops[m], v) = 0 /\ Occurs(s, v) = IF b = v THEN 1 ELSE 0
    BY <1>3, <1>5, OccursFew
  <2> QED BY <2>1
<1>10. ops' = [ops EXCEPT ![m] = s]
  BY <1>2, <1>5
<1>11. BornEdit(t, m, s, A, out, b)
  BY <1>2, <1>3, <1>4, <1>6, <1>7, <1>8, <1>9, <1>10, Zenon DEF BornEdit
<1> QED BY <1>11, BornEditKeeps

\* modify_operator.
LEMMA ModifyOperatorKeeps ==
    ASSUME IInv, NEW t \in Threads, ModifyOperator(t)
    PROVE  IInv'
<1>1. PICK d \in slot[t] : \E i \in 1..Len(ops[d]) :
         /\ todo' = [todo EXCEPT ![t] = Access("dec", ops[d][i])]
         /\ \/ /\ ops' = [ops EXCEPT ![d][i] = Plain]
               /\ UNCHANGED valueVars
            \/ \E v \in Values : Born(v) /\ ops' = [ops EXCEPT ![d][i] = v]
  BY Zenon DEF ModifyOperator
<1>2. PICK i \in 1..Len(ops[d]) :
         /\ todo' = [todo EXCEPT ![t] = Access("dec", ops[d][i])]
         /\ \/ /\ ops' = [ops EXCEPT ![d][i] = Plain]
               /\ UNCHANGED valueVars
            \/ \E v \in Values : Born(v) /\ ops' = [ops EXCEPT ![d][i] = v]
  BY <1>1, Zenon
<1>3. Free(t) /\ slot[t] # {} /\ UNCHANGED runVars
  BY <1>1 DEF ModifyOperator
<1>4. Typed /\ d \in Filling(t) /\ d \in Trees /\ Plain \notin Values
  BY <1>3, Breeding, Config DEF Typed
<1>5. PICK s, x, A, out : s = ops[d] /\ x = ops[d][i] /\ A = Access("dec", x) /\ out = <<x>>
  OBVIOUS
<1>6. s \in Seq(Operators) /\ i \in 1..Len(s) /\ s[i] = x /\ Len(s) <= MaxLen
  BY <1>4, <1>5 DEF Typed
<1>7. x \in Operators
  BY <1>6
<1>8. Counts(Values, A, <<>>, out)
  BY <1>4, <1>5, <1>7, OneAccess DEF Operators
<1>9. todo' = [todo EXCEPT ![t] = A]
  BY <1>2, <1>5
<1>10. ASSUME NEW y \in Operators
       PROVE  /\ [s EXCEPT ![i] = y] \in Seq(Operators) /\ Len([s EXCEPT ![i] = y]) <= MaxLen
              /\ \A v : Occurs([s EXCEPT ![i] = y], v) + Occurs(out, v) = Occurs(s, v) + (IF y = v THEN 1 ELSE 0)
              /\ \A v : Occurs([s EXCEPT ![i] = y], v) \in Nat
  <2>1. PICK r : r = [s EXCEPT ![i] = y]
    OBVIOUS
  <2>2. r \in Seq(Operators) /\ Len(r) = Len(s)
    BY <1>6, <2>1, OccursReplaced
  <2>3. ASSUME NEW v PROVE Occurs(r, v) + Occurs(<<s[i]>>, v) = Occurs(s, v) + Occurs(<<y>>, v)
    <3>1. Occurs([s EXCEPT ![i] = y], v) + Occurs(<<s[i]>>, v) = Occurs(s, v) + Occurs(<<y>>, v)
      BY <1>6, OccursReplaced
    <3> QED BY <2>1, <3>1, Zenon
  <2>4. \A v : Occurs(<<y>>, v) = IF y = v THEN 1 ELSE 0
    BY OccursFew
  <2>5. \A v : Occurs(r, v) + Occurs(out, v) = Occurs(s, v) + (IF y = v THEN 1 ELSE 0)
    BY <1>5, <1>6, <2>3, <2>4, Zenon
  <2>6. \A v : Occurs(r, v) \in Nat
    <3>1. Len(r) \in Nat
      BY <2>2
    <3> QED BY <3>1, OccursType
  <2>7. Len(r) <= MaxLen
    BY <1>6, <2>2
  <2> QED BY <2>1, <2>2, <2>5, <2>6, <2>7, Zenon
<1>11. ASSUME NEW v \in Values
       PROVE  Occurs(out, v) \in Nat /\ Occurs(out, v) <= Occurs(s, v) /\ Occurs(s, v) \in Nat
  <2>1. Occurs(out, v) \in Nat
    <3>1. Occurs(out, v) = IF x = v THEN 1 ELSE 0
      BY <1>5, OccursFew
    <3> QED BY <3>1
  <2>2. Plain \in Operators /\ Plain # v
    BY <1>4 DEF Operators
  <2>3. PICK n : n = Occurs([s EXCEPT ![i] = Plain], v)
    OBVIOUS
  <2>4. n \in Nat /\ n + Occurs(out, v) = Occurs(s, v) + 0
    BY <1>10, <2>2, <2>3
  <2>5. Occurs(s, v) \in Nat
    BY <1>4, <1>5, HeldIn
  <2> QED BY <2>1, <2>4, <2>5
<1>12. CASE ops' = [ops EXCEPT ![d][i] = Plain] /\ UNCHANGED valueVars
  <2>1. PICK r, e : r = [s EXCEPT ![i] = Plain] /\ e = <<>>
    OBVIOUS
  <2>2. Plain \in Operators
    BY DEF Operators
  <2>3. r \in Seq(Operators) /\ Len(r) <= MaxLen /\ ops' = [ops EXCEPT ![d] = r]
    BY <1>4, <1>5, <1>10, <1>12, <2>1, <2>2 DEF Typed
  <2>4. ASSUME NEW v \in Values
        PROVE  /\ Occurs(r, v) + Occurs(out, v) = Occurs(ops[d], v) + Occurs(e, v)
               /\ Occurs(e, v) \in Nat /\ Occurs(out, v) \in Nat
               /\ Held(v) = 0 => Occurs(e, v) = 0
               /\ Occurs(e, v) = 0
    <3>1. Occurs(r, v) + Occurs(out, v) = Occurs(s, v) + 0
      <4>1. Plain # v
        BY <1>4
      <4> QED BY <1>10, <2>1, <2>2, <4>1
    <3>2. Occurs(e, v) = 0
      BY <2>1, OccursFew
    <3>3. Occurs(out, v) \in Nat /\ 0 \in Nat
      BY <1>11
    <3> QED BY <1>5, <3>1, <3>2, <3>3, Zenon
  <2>5. \A v \in Values : BackedBy(Occurs(e, v), Cardinality(Spots(Filling(t), ops', v)),
                                   Cardinality(Spots(Current, ops, v)))
    BY <2>4, NothingDue, Zenon
  <2>6. Counts(Values, A, e, out) /\ UNCHANGED <<valueVars, runVars>>
    BY <1>3, <1>8, <1>12, <2>1
  <2>7. TreeEdit(t, d, r, A, e, out)
    BY <1>3, <1>4, <1>9, <2>3, <2>4, <2>5, <2>6, Zenon DEF TreeEdit
  <2> QED BY <2>7, TreeEditKeeps
<1>13. ASSUME NEW b \in Values, Born(b), ops' = [ops EXCEPT ![d][i] = b] PROVE IInv'
  <2>1. PICK r : r = [s EXCEPT ![i] = b]
    OBVIOUS
  <2>2. b \in Operators
    BY DEF Operators
  <2>3. r \in Seq(Operators) /\ Len(r) <= MaxLen /\ ops' = [ops EXCEPT ![d] = r]
    BY <1>4, <1>5, <1>10, <1>13, <2>1, <2>2 DEF Typed
  <2>4. ASSUME NEW v \in Values
        PROVE  /\ Occurs(out, v) \in Nat /\ Occurs(out, v) <= Occurs(ops[d], v)
               /\ Occurs(r, v) + Occurs(out, v) = Occurs(ops[d], v) + (IF b = v THEN 1 ELSE 0)
    <3>1. Occurs(r, v) + Occurs(out, v) = Occurs(s, v) + (IF b = v THEN 1 ELSE 0)
      BY <1>10, <2>1, <2>2
    <3> QED BY <1>5, <1>11, <3>1, Zenon
  <2>5. BornEdit(t, d, r, A, out, b)
    BY <1>3, <1>4, <1>8, <1>9, <1>13, <2>3, <2>4, Zenon DEF BornEdit
  <2> QED BY <2>5, BornEditKeeps
<1> QED BY <1>2, <1>12, <1>13

\* A cut tree s and the part p cut out of it hold what the tree and the part put in held.
LEMMA SpliceCounts ==
    ASSUME Typed, NEW d \in Trees, NEW c \in Cuts(d), NEW in \in Seq(Operators), NEW v,
           NEW s, NEW p, p = Between(d, c[1], c[2]), s = Splice(d, c[1], c[2], in)
    PROVE  /\ Occurs(s, v) + Occurs(p, v) = Occurs(ops[d], v) + Occurs(in, v)
           /\ Occurs(s, v) \in Nat /\ Occurs(p, v) \in Nat /\ Occurs(ops[d], v) \in Nat
BY SpliceIs

\* What two trees hold when they exchange parts: h, k and n places before,
\* between and after the two changes.
Exchanged(h, k, n, d, e, newD, newE, p, q) ==
    /\ h \in Nat /\ k \in Nat /\ n \in Nat /\ d \in Nat /\ e \in Nat
    /\ newD \in Nat /\ newE \in Nat /\ p \in Nat /\ q \in Nat
    /\ k + d = h + newD /\ n + e = k + newE /\ newD + p = d + q /\ newE + q = e + p

\* They hold as much as before.
LEMMA SwapBalance ==
    ASSUME NEW h, NEW k, NEW n, NEW d, NEW e, NEW newD, NEW newE, NEW p, NEW q,
           Exchanged(h, k, n, d, e, newD, newE, p, q)
    PROVE  n = h
BY DEF Exchanged

\* swap_subtrees.
LEMMA SwapSubtreesKeeps ==
    ASSUME IInv, NEW t \in Threads, SwapSubtrees(t)
    PROVE  IInv'
<1>1. PICK d \in slot[t], e \in slot[t] : d # e /\ \E a \in Cuts(d), b \in Cuts(e) :
         LET newD == Splice(d, a[1], a[2], Between(e, b[1], b[2]))
             newE == Splice(e, b[1], b[2], Between(d, a[1], a[2]))
         IN  /\ Len(newD) <= MaxLen /\ Len(newE) <= MaxLen
             /\ ops' = [ops EXCEPT ![d] = newD, ![e] = newE]
  BY Zenon DEF SwapSubtrees
<1>2. PICK a \in Cuts(d), b \in Cuts(e) :
         /\ Len(Splice(d, a[1], a[2], Between(e, b[1], b[2]))) <= MaxLen
         /\ Len(Splice(e, b[1], b[2], Between(d, a[1], a[2]))) <= MaxLen
         /\ ops' = [ops EXCEPT ![d] = Splice(d, a[1], a[2], Between(e, b[1], b[2])),
                               ![e] = Splice(e, b[1], b[2], Between(d, a[1], a[2]))]
  BY <1>1, Zenon
<1>3. Free(t) /\ slot[t] # {} /\ UNCHANGED <<valueVars, todo, runVars>>
  BY DEF SwapSubtrees
<1>4. /\ Typed /\ d \in Filling(t) /\ e \in Filling(t) /\ d \in Trees /\ e \in Trees /\ d # e
  BY <1>1, <1>3, Breeding
<1>5. PICK p, q, newD, newE : /\ p = Between(d, a[1], a[2]) /\ q = Between(e, b[1], b[2])
                              /\ newD = Splice(d, a[1], a[2], q) /\ newE = Splice(e, b[1], b[2], p)
  OBVIOUS
<1>6. p \in Seq(Operators) /\ q \in Seq(Operators)
  <2>1. PICK x : x = <<>>
    OBVIOUS
  <2>2. x \in Seq(Operators)
    BY <2>1
  <2> QED BY <1>4, <1>5, <2>2, SpliceIs
<1>7. /\ newD \in Seq(Operators) /\ newE \in Seq(Operators)
      /\ Len(newD) <= MaxLen /\ Len(newE) <= MaxLen
  BY <1>2, <1>4, <1>5, <1>6, SpliceIs
<1>8. PICK k, g : k = [ops EXCEPT ![d] = newD] /\ g = ops'
  OBVIOUS
<1>9. /\ k[d] = newD /\ \A x \in Trees : x # d => ops[x] = k[x]
      /\ g[e] = newE /\ \A x \in Trees : x # e => k[x] = g[x]
      /\ g \in [Trees -> Seq(Operators)] /\ k[e] = ops[e]
      /\ \A tr \in Trees : Len(g[tr]) <= MaxLen
      /\ \A tr \in Trees : tr \notin Filling(t) => g[tr] = ops[tr]
  BY <1>2, <1>4, <1>5, <1>7, <1>8 DEF Typed
<1>10. ASSUME NEW v \in Values PROVE Held(v)' = Held(v)
  <2>1. /\ IsFiniteSet(Spots(Trees, ops, v)) /\ Len(ops[d]) \in Nat /\ Len(ops[e]) \in Nat
        /\ Len(k[d]) \in Nat /\ Len(g[e]) \in Nat /\ Len(k[e]) \in Nat
    BY <1>4, <1>7, <1>9, Countable
  <2>2. /\ IsFiniteSet(Spots(Trees, k, v))
        /\ Cardinality(Spots(Trees, ops, v)) \in Nat /\ Cardinality(Spots(Trees, k, v)) \in Nat
        /\ Cardinality(Spots(Trees, k, v)) + Occurs(ops[d], v)
             = Cardinality(Spots(Trees, ops, v)) + Occurs(k[d], v)
    BY <1>4, <1>9, <2>1, SpotsChange
  <2>3. /\ Cardinality(Spots(Trees, g, v)) \in Nat
        /\ Cardinality(Spots(Trees, g, v)) + Occurs(k[e], v)
             = Cardinality(Spots(Trees, k, v)) + Occurs(g[e], v)
    BY <1>4, <1>9, <2>1, <2>2, SpotsChange, SMTT(30)
  <2>4. /\ Occurs(newD, v) + Occurs(p, v) = Occurs(ops[d], v) + Occurs(q, v)
        /\ Occurs(newD, v) \in Nat /\ Occurs(p, v) \in Nat /\ Occurs(ops[d], v) \in Nat
    BY <1>4, <1>5, <1>6, SpliceCounts
  <2>5. /\ Occurs(newE, v) + Occurs(q, v) = Occurs(ops[e], v) + Occurs(p, v)
        /\ Occurs(newE, v) \in Nat /\ Occurs(q, v) \in Nat /\ Occurs(ops[e], v) \in Nat
    BY <1>4, <1>5, <1>6, SpliceCounts
  <2>6. PICK h, m, n, od, oe, nd, ne, pp, qq :
          /\ h = Cardinality(Spots(Trees, ops, v)) /\ m = Cardinality(Spots(Trees, k, v))
          /\ n = Cardinality(Spots(Trees, g, v))
          /\ od = Occurs(ops[d], v) /\ oe = Occurs(ops[e], v)
          /\ nd = Occurs(newD, v) /\ ne = Occurs(newE, v)
          /\ pp = Occurs(p, v) /\ qq = Occurs(q, v)
    OBVIOUS
  <2>7. /\ h \in Nat /\ m \in Nat /\ n \in Nat /\ od \in Nat /\ oe \in Nat
        /\ nd \in Nat /\ ne \in Nat /\ pp \in Nat /\ qq \in Nat
    BY <2>2, <2>3, <2>4, <2>5, <2>6, Zenon
  <2>8. m + od = h + nd /\ n + oe = m + ne /\ nd + pp = od + qq /\ ne + qq = oe + pp
    BY <1>9, <2>2, <2>3, <2>4, <2>5, <2>6, Zenon
  <2>9. n = h
    <3>1. Exchanged(h, m, n, od, oe, nd, ne, pp, qq)
      BY <2>7, <2>8, Zenon DEF Exchanged
    <3> QED BY <3>1, SwapBalance
  <2>10. Held(v)' = Cardinality(Spots(Trees', g, v)) /\ Trees' = Trees
    BY <1>3, <1>8, Fixed DEF Held, runVars
  <2> QED BY <2>6, <2>9, <2>10, Zenon DEF Held
<1>11. PICK A : A = <<>>
  OBVIOUS
<1>12. A \in Seq(Accesses) /\ todo' = [todo EXCEPT ![t] = A]
  BY <1>3, <1>4, <1>11 DEF Free, Typed
<1>13. ASSUME NEW v \in Values
       PROVE  /\ Counted(A, v)
              /\ Occurs(A, Inc(v)) = 0
  <2>1. \A w : Occurs(A, w) = 0
    BY <1>11, OccursFew
  <2>2. Held(v)' + Occurs(A, Dec(v)) = Held(v) + Occurs(A, Inc(v))
    BY <1>10, <2>1, Zenon
  <2>3. life' = life /\ count' = count
    BY <1>3 DEF valueVars
  <2> QED BY <2>1, <2>2, <2>3, Zenon DEF Counted
<1>14. \A v \in Values : BackedBy(Occurs(A, Inc(v)), Cardinality(Spots(Filling(t), ops', v)),
                                  Cardinality(Spots(Current, ops, v)))
  BY <1>13, NothingDue, Zenon
<1>15. /\ count' \in [Values -> Nat] /\ life' \in [Values -> {"unborn", "live", "dropped"}]
       /\ drops' = drops /\ UNCHANGED runVars
  BY <1>3, <1>4 DEF valueVars, Typed
<1>16. /\ ops' \in [Trees -> Seq(Operators)] /\ \A tr \in Trees : Len(ops'[tr]) <= MaxLen
       /\ \A tr \in Trees : tr \notin Filling(t) => ops'[tr] = ops[tr]
  BY <1>8, <1>9
<1> QED BY <1>3, <1>12, <1>13, <1>14, <1>15, <1>16, SlotEditKeeps

-----------------------------------------------------------------------------
(* Ends, and steps that touch no tree.                                     *)

\* A tree is emptied while no slot is taken, and no other thread has accesses
\* left whose trees it could be.
LEMMA EmptiedKeeps ==
    ASSUME IInv, NEW t \in Threads, Free(t), \A u \in Threads : slot[u] = {}, NEW d \in Trees,
           \A u \in Threads : u # t /\ todo[u] # <<>> => d \notin Filling(u) \cup Current,
           todo' = [todo EXCEPT ![t] = Decrements(ops[d])], ops' = [ops EXCEPT ![d] = <<>>],
           UNCHANGED <<setting, valueVars, slot, bred, front, generation>>,
           phase' \in {"breed", "exit", "destroy"}
    PROVE  IInv'
<1>1. Typed /\ Plain \notin Values
  BY Config DEF IInv, Typed
<1>2. PICK A, s, out : A = Decrements(out) /\ out = ops[d] /\ s = <<>>
  OBVIOUS
<1>3. out \in Seq(Operators) /\ s \in Seq(Operators) /\ Len(s) <= MaxLen
  BY <1>1, <1>2, Config DEF Typed
<1>4. Counts(Values, A, s, out)
  BY <1>1, <1>2, <1>3, AllCounts DEF Operators
<1>5. todo' = [todo EXCEPT ![t] = A] /\ ops' = [ops EXCEPT ![d] = s] /\ A \in Seq(Accesses)
  BY <1>2, <1>4 DEF Counts, Accesses
<1>6. /\ setting' = setting /\ slot' = slot /\ bred' = bred /\ front' = front
      /\ generation' = generation /\ count' = count /\ life' = life /\ drops' = drops
  BY DEF valueVars
<1>7. ASSUME NEW v \in Values PROVE Counted(A, v) /\ Occurs(A, Inc(v)) = 0
  <2>1. CountsOne(A, v, s, out) /\ Occurs(s, v) = 0
    BY <1>2, <1>4, OccursFew DEF Counts
  <2>2. Occurs(A, Inc(v)) = 0 /\ Occurs(A, Dec(v)) = Occurs(out, v) /\ Occurs(A, Test(v)) = 0
    BY <2>1, Zenon DEF CountsOne
  <2>3. Held(v)' + Occurs(ops[d], v) = Held(v) + Occurs(s, v)
    <3>1. Typed /\ s \in Seq(Operators) /\ setting' = setting /\ ops' = [ops EXCEPT ![d] = s]
      BY <1>1, <1>3, <1>5, <1>6, Zenon
    <3> QED BY <3>1, HeldAfter, ZenonT(40)
  <2>4. Held(v)' + Occurs(A, Dec(v)) = Held(v) + Occurs(A, Inc(v))
    BY <1>2, <2>1, <2>2, <2>3, Zenon
  <2> QED BY <1>6, <2>2, <2>4, Zenon DEF Counted
<1>8. /\ ops' \in [Trees -> Seq(Operators)] /\ \A tr \in Trees : Len(ops'[tr]) <= MaxLen
      /\ \A tr \in Trees : tr # d => ops'[tr] = ops[tr]
  BY <1>1, <1>3, <1>5 DEF Typed
<1>9. ASSUME NEW u \in Threads, u # t, todo[u] # <<>>, NEW tr \in Filling(u) \cup Current
      PROVE  ops'[tr] = ops[tr]
  <2>1. Filling(u) \subseteq Trees /\ Current \subseteq Trees
    BY <1>1, FillingApart, Config DEF IInv, Typed
  <2> QED BY <1>8, <1>9, <2>1
<1>10. ASSUME NEW v \in Values PROVE Backed(t, v)'
  <2>1. todo'[t] = A /\ Inc(v)' = Inc(v)
    BY <1>1, <1>5 DEF Typed, Inc
  <2>2. Occurs(todo'[t], Inc(v)') = 0
    BY <1>7, <2>1
  <2> QED BY <2>2, Zenon DEF Backed, BackedBy
<1>11. /\ bred' \subseteq Next_pop /\ generation' \in 0..MaxGen
       /\ count' \in [Values -> Nat] /\ life' \in [Values -> {"unborn", "live", "dropped"}]
  BY <1>1, <1>6 DEF Typed
<1>12. Edits(t, A)
  BY <1>5, <1>6, <1>7, <1>8, <1>9, <1>10, <1>11 DEF Edits
<1> QED BY <1>12, EditKeeps

\* A thread ends.
LEMMA ExitThreadKeeps ==
    ASSUME IInv, NEW t \in Threads, ExitThread(t)
    PROVE  IInv'
<1>1. PICK m : m = MyTree(t)
  OBVIOUS
<1>2. /\ phase # "breed" /\ Free(t) /\ UNCHANGED <<valueVars, runVars>>
      /\ todo' = [todo EXCEPT ![t] = Decrements(ops[m])] /\ ops' = [ops EXCEPT ![m] = <<>>]
  BY <1>1 DEF ExitThread
<1>3. Typed /\ Discipline /\ \A u \in Threads : slot[u] = {}
  BY <1>2 DEF IInv, Discipline
<1>4. m \in Trees /\ m \notin PopA \cup PopB /\ Current \cup Next_pop = PopA \cup PopB
  BY <1>1, <1>3, Config DEF Typed
<1>5. ASSUME NEW u \in Threads, u # t PROVE m \notin Filling(u) \cup Current
  <2>1. Apart(Filling(t), Filling(u)) /\ m \in Filling(t)
    BY <1>1, <1>3, <1>5, FillingApart DEF Filling
  <2> QED BY <1>4, <2>1 DEF Apart
<1>6. /\ UNCHANGED <<setting, valueVars, slot, bred, front, generation>>
      /\ phase' \in {"breed", "exit", "destroy"}
  BY <1>2, <1>3 DEF runVars, Typed
<1> QED BY <1>2, <1>3, <1>4, <1>5, <1>6, EmptiedKeeps

\* A population's tree is destroyed.
LEMMA DestroyTreeKeeps ==
    ASSUME IInv, DestroyTree
    PROVE  IInv'
<1>1. PICK d \in PopA \cup PopB : /\ todo' = [todo EXCEPT ![Main] = Decrements(ops[d])]
                                  /\ ops' = [ops EXCEPT ![d] = <<>>]
  BY DEF DestroyTree
<1>2. /\ \A u \in Threads : todo[u] = <<>> /\ slot[u] = {}
      /\ UNCHANGED <<setting, valueVars, slot, bred, front, generation>>
      /\ phase' \in {"breed", "exit", "destroy"}
  BY DEF DestroyTree, Quiet, Free
<1>3. Main \in Threads /\ d \in Trees
  BY Config DEF IInv, Typed
<1> QED BY <1>1, <1>2, <1>3, EmptiedKeeps DEF Free

\* A step that changes neither trees nor counters nor lists.
LEMMA QuietStepKeeps ==
    ASSUME IInv, UNCHANGED <<setting, ops, valueVars, todo>>,
           front' \in BOOLEAN, generation' \in 0..MaxGen, phase' \in {"breed", "exit", "destroy"},
           slot' \in [Threads -> SUBSET Next_pop'], bred' \subseteq Next_pop', Discipline',
           \A u \in Threads : todo[u] # <<>> => Filling(u)' = Filling(u) /\ front' = front
    PROVE  IInv'
<1>1. Typed /\ \A u \in Threads, v \in Values : Backed(u, v)
  BY DEF IInv
<1>2. /\ setting' = setting /\ ops' = ops /\ todo' = todo
      /\ life' = life /\ count' = count /\ drops' = drops
  BY DEF valueVars
<1>3. /\ Threads' = Threads /\ Values' = Values /\ MaxLen' = MaxLen /\ Trees' = Trees
      /\ Operators' = Operators /\ Accesses' = Accesses /\ Alone' = Alone
  BY <1>2, Fixed
<1>4. Typed'
  BY <1>1, <1>2, <1>3 DEF Typed
<1>5. ASSUME NEW u \in Threads, NEW v \in Values PROVE Backed(u, v)'
  <2>1. Inc(v)' = Inc(v)
    BY DEF Inc
  <2>2. CASE todo[u] = <<>>
    <3>1. Occurs(todo'[u], Inc(v)') = 0
      BY <1>2, <2>2, OccursFew
    <3> QED BY <3>1, Zenon DEF Backed, BackedBy
  <2>3. CASE todo[u] # <<>>
    <3>1. Filling(u)' = Filling(u) /\ Current' = Current
      BY <1>2, <2>3 DEF Current, PopA, PopB
    <3>2. Backed(u, v)
      BY <1>1
    <3> QED BY <1>2, <2>1, <3>1, <3>2, Zenon DEF Backed
  <2> QED BY <2>2, <2>3
<1>6. ASSUME NEW v \in Values PROVE ValueOK(v)'
  <2>1. Held(v)' = Held(v)
    BY <1>2, <1>3 DEF Held
  <2>2. Inc(v)' = Inc(v) /\ Dec(v)' = Dec(v) /\ Test(v)' = Test(v)
    BY DEF Inc, Dec, Test
  <2>3. /\ Owed(Inc(v))' = Owed(Inc(v)) /\ Owed(Dec(v))' = Owed(Dec(v))
        /\ Owed(Test(v))' = Owed(Test(v))
    BY <1>2, <1>3, <2>2 DEF Owed
  <2>4. ValueOK(v)
    BY DEF IInv
  <2> QED BY <1>2, <1>3, <2>1, <2>3, <2>4, Zenon DEF ValueOK
<1> QED BY <1>3, <1>4, <1>5, <1>6 DEF IInv

\* Taking slots.
LEMMA TakeSlotsKeeps ==
    ASSUME IInv, NEW t \in Threads, TakeSlots(t)
    PROVE  IInv'
<1>1. PICK S \in SUBSET (Next_pop \ bred) :
        /\ \A u \in Threads : slot[u] \cap S = {}
        /\ slot' = [slot EXCEPT ![t] = S] /\ bred' = bred \cup S
  BY Zenon DEF TakeSlots
<1>2. /\ phase = "breed" /\ todo[t] = <<>> /\ slot[t] = {} /\ ~OwnerBusy
      /\ UNCHANGED <<setting, ops, valueVars, todo, front, phase, generation>>
  BY DEF TakeSlots, Free
<1>3. Typed /\ Discipline /\ Main \in Threads
  BY Config DEF IInv, Typed
<1>4. /\ Threads' = Threads /\ Next_pop' = Next_pop /\ front' = front /\ phase' = phase /\ todo' = todo
      /\ generation' = generation
  BY <1>2, Fixed DEF Next_pop, PopA, PopB
<1>5. slot'[t] = S /\ \A u \in Threads : u # t => slot'[u] = slot[u]
  BY <1>1, <1>3 DEF Typed
<1>6. /\ OwnerBusy <=> slot[Main] = {} /\ todo[Main] # <<>>
      /\ OwnerBusy' <=> slot'[Main] = {} /\ todo[Main] # <<>>
  BY <1>4 DEF OwnerBusy, Free
<1>7. ~OwnerBusy'
  BY <1>2, <1>3, <1>5, <1>6
<1>8. Discipline'
  <2>1. ASSUME NEW u \in Threads, NEW x \in Threads, u # x PROVE Apart(slot'[u], slot'[x])
    BY <1>1, <1>3, <1>5, <2>1 DEF Discipline, Apart
  <2>2. ASSUME NEW u \in Threads PROVE slot'[u] \subseteq bred'
    BY <1>1, <1>3, <1>5 DEF Discipline
  <2>3. \A u \in Threads : \A i \in 1..Len(todo[u]) : todo[u][i].kind = "test" => i = 1
    BY <1>3 DEF Discipline
  <2> QED BY <1>2, <1>4, <1>7, <2>1, <2>2, <2>3 DEF Discipline
<1>9. ASSUME NEW u \in Threads, todo[u] # <<>> PROVE Filling(u)' = Filling(u) /\ front' = front
  <2>1. u # t
    BY <1>2, <1>9
  <2>2. MyTree(u)' = MyTree(u)
    BY DEF MyTree
  <2> QED BY <1>2, <1>4, <1>5, <1>7, <2>1, <2>2 DEF Filling
<1>10. /\ front' \in BOOLEAN /\ generation' \in 0..MaxGen /\ phase' \in {"breed", "exit", "destroy"}
       /\ slot' \in [Threads -> SUBSET Next_pop'] /\ bred' \subseteq Next_pop'
       /\ UNCHANGED <<setting, ops, valueVars, todo>>
  BY <1>1, <1>2, <1>3, <1>4 DEF Typed
<1> QED BY <1>8, <1>9, <1>10, QuietStepKeeps

\* One child is made with the thread's own tree, of which the rest is cleared.
LEMMA SwapWithScratchKeeps ==
    ASSUME IInv, NEW t \in Threads, SwapWithScratch(t)
    PROVE  IInv'
<1> DEFINE e == MyTree(t)
<1>1. e = MyTree(t)
  OBVIOUS
<1>2. PICK d \in slot[t] : \E a \in Cuts(d), b \in Cuts(e) :
         LET newD == Splice(d, a[1], a[2], Between(e, b[1], b[2]))
             rest == Splice(e, b[1], b[2], Between(d, a[1], a[2]))
         IN  /\ Len(newD) <= MaxLen
             /\ todo' = [todo EXCEPT ![t] = Decrements(rest)]
             /\ ops' = [ops EXCEPT ![d] = newD, ![e] = <<>>]
  BY Zenon DEF SwapWithScratch
<1> HIDE DEF e
<1>3. PICK a \in Cuts(d), b \in Cuts(e) :
         /\ Len(Splice(d, a[1], a[2], Between(e, b[1], b[2]))) <= MaxLen
         /\ todo' = [todo EXCEPT ![t] = Decrements(Splice(e, b[1], b[2], Between(d, a[1], a[2])))]
         /\ ops' = [ops EXCEPT ![d] = Splice(d, a[1], a[2], Between(e, b[1], b[2])), ![e] = <<>>]
  BY <1>2, Zenon
<1>4. Free(t) /\ slot[t] # {} /\ UNCHANGED <<valueVars, runVars>>
  BY <1>2 DEF SwapWithScratch
<1>5. /\ Typed /\ d \in Filling(t) /\ e \in Filling(t) /\ d \in Trees /\ e \in Trees /\ d # e
  BY <1>1, <1>2, <1>4, Breeding
<1>6. PICK p, q, newD, rest, none :
        /\ p = Between(d, a[1], a[2]) /\ q = Between(e, b[1], b[2]) /\ none = <<>>
        /\ newD = Splice(d, a[1], a[2], q) /\ rest = Splice(e, b[1], b[2], p)
  OBVIOUS
<1>7. none \in Seq(Operators) /\ Len(none) <= MaxLen
  BY <1>5, <1>6, Config DEF Typed
<1>8. p \in Seq(Operators) /\ q \in Seq(Operators)
  BY <1>5, <1>6, <1>7, SpliceIs
<1>9. newD \in Seq(Operators) /\ rest \in Seq(Operators) /\ Len(newD) <= MaxLen
  BY <1>3, <1>5, <1>6, <1>8, SpliceIs
<1>10. PICK A : A = Decrements(rest)
  OBVIOUS
<1>11. Counts(Values, A, none, rest)
  <2>1. Plain \notin Values
    BY <1>5, Config DEF Typed
  <2> QED BY <1>6, <1>9, <1>10, <2>1, AllCounts DEF Operators
<1>12. A \in Seq(Accesses) /\ todo' = [todo EXCEPT ![t] = A]
  BY <1>3, <1>6, <1>10, <1>11 DEF Counts, Accesses
<1>13. PICK k, g : k = [ops EXCEPT ![d] = newD] /\ g = ops'
  OBVIOUS
<1>14. /\ k[d] = newD /\ \A x \in Trees : x # d => ops[x] = k[x]
       /\ g[e] = none /\ \A x \in Trees : x # e => k[x] = g[x]
       /\ g \in [Trees -> Seq(Operators)] /\ k[e] = ops[e]
       /\ \A tr \in Trees : Len(g[tr]) <= MaxLen
       /\ \A tr \in Trees : tr \notin Filling(t) => g[tr] = ops[tr]
  BY <1>3, <1>5, <1>6, <1>7, <1>9, <1>13 DEF Typed
<1>15. ASSUME NEW v \in Values PROVE Held(v)' + Occurs(rest, v) = Held(v)
  <2>1. /\ IsFiniteSet(Spots(Trees, ops, v)) /\ Len(ops[d]) \in Nat /\ Len(ops[e]) \in Nat
        /\ Len(k[d]) \in Nat /\ Len(g[e]) \in Nat /\ Len(k[e]) \in Nat
    BY <1>5, <1>7, <1>9, <1>14, Countable
  <2>2. /\ IsFiniteSet(Spots(Trees, k, v))
        /\ Cardinality(Spots(Trees, ops, v)) \in Nat /\ Cardinality(Spots(Trees, k, v)) \in Nat
        /\ Cardinality(Spots(Trees, k, v)) + Occurs(ops[d], v)
             = Cardinality(Spots(Trees, ops, v)) + Occurs(k[d], v)
    BY <1>5, <1>14, <2>1, SpotsChange
  <2>3. /\ Cardinality(Spots(Trees, g, v)) \in Nat
        /\ Cardinality(Spots(Trees, g, v)) + Occurs(k[e], v)
             = Cardinality(Spots(Trees, k, v)) + Occurs(g[e], v)
    BY <1>5, <1>14, <2>1, <2>2, SpotsChange, SMTT(30)
  <2>4. /\ Occurs(newD, v) + Occurs(p, v) = Occurs(ops[d], v) + Occurs(q, v)
        /\ Occurs(newD, v) \in Nat /\ Occurs(p, v) \in Nat /\ Occurs(ops[d], v) \in Nat
    BY <1>5, <1>6, <1>8, SpliceCounts
  <2>5. /\ Occurs(rest, v) + Occurs(q, v) = Occurs(ops[e], v) + Occurs(p, v)
        /\ Occurs(rest, v) \in Nat /\ Occurs(q, v) \in Nat /\ Occurs(ops[e], v) \in Nat
    BY <1>5, <1>6, <1>8, SpliceCounts
  <2>6. PICK h, m, n, od, oe, nd, ne, pp, qq :
          /\ h = Cardinality(Spots(Trees, ops, v)) /\ m = Cardinality(Spots(Trees, k, v))
          /\ n = Cardinality(Spots(Trees, g, v))
          /\ od = Occurs(ops[d], v) /\ oe = Occurs(ops[e], v)
          /\ nd = Occurs(newD, v) /\ ne = Occurs(rest, v)
          /\ pp = Occurs(p, v) /\ qq = Occurs(q, v)
    OBVIOUS
  <2>7. /\ h \in Nat /\ m \in Nat /\ n \in Nat /\ od \in Nat /\ oe \in Nat
        /\ nd \in Nat /\ ne \in Nat /\ pp \in Nat /\ qq \in Nat
    BY <2>2, <2>3, <2>4, <2>5, <2>6, Zenon
  <2>8. Occurs(g[e], v) = 0
    BY <1>6, <1>14, OccursFew
  <2>9. m + od = h + nd /\ n + oe = m + 0 /\ nd + pp = od + qq /\ ne + qq = oe + pp
    BY <1>14, <2>2, <2>3, <2>4, <2>5, <2>6, <2>8, Zenon
  <2>10. n + ne = h
    BY ONLY <2>7, <2>9
  <2>11. Held(v)' = Cardinality(Spots(Trees', g, v)) /\ Trees' = Trees
    BY <1>4, <1>13, Fixed DEF Held, runVars
  <2> QED BY <2>6, <2>10, <2>11, Zenon DEF Held
<1>16. ASSUME NEW v \in Values PROVE Counted(A, v) /\ Occurs(A, Inc(v)) = 0
  <2>1. CountsOne(A, v, none, rest) /\ Occurs(none, v) = 0
    BY <1>6, <1>11, OccursFew DEF Counts
  <2>2. Occurs(A, Inc(v)) = 0 /\ Occurs(A, Dec(v)) = Occurs(rest, v) /\ Occurs(A, Test(v)) = 0
    BY <2>1, Zenon DEF CountsOne
  <2>3. Held(v) + 0 = Held(v)
    BY <1>5, Countable
  <2>4. Held(v)' + Occurs(A, Dec(v)) = Held(v) + Occurs(A, Inc(v))
    BY <1>15, <2>2, <2>3, Zenon
  <2>5. life' = life /\ count' = count
    BY <1>4 DEF valueVars
  <2> QED BY <2>2, <2>4, <2>5, Zenon DEF Counted
<1>17. \A v \in Values : BackedBy(Occurs(A, Inc(v)), Cardinality(Spots(Filling(t), ops', v)),
                                  Cardinality(Spots(Current, ops, v)))
  BY <1>16, NothingDue, Zenon
<1>18. /\ count' \in [Values -> Nat] /\ life' \in [Values -> {"unborn", "live", "dropped"}]
       /\ drops' = drops /\ UNCHANGED runVars
  BY <1>4, <1>5 DEF valueVars, Typed
<1>19. /\ ops' \in [Trees -> Seq(Operators)] /\ \A tr \in Trees : Len(ops'[tr]) <= MaxLen
       /\ \A tr \in Trees : tr \notin Filling(t) => ops'[tr] = ops[tr]
  BY <1>13, <1>14
<1> QED BY <1>4, <1>12, <1>16, <1>17, <1>18, <1>19, SlotEditKeeps

\* The slots' trees are finished.
LEMMA FinishSlotsKeeps ==
    ASSUME IInv, NEW t \in Threads, FinishSlots(t)
    PROVE  IInv'
<1>1. PICK made \in SUBSET slot[t] : made # {} /\ bred' = bred \ (slot[t] \ made)
  BY Zenon DEF FinishSlots
<1>10. /\ todo[t] = <<>> /\ slot[t] # {} /\ slot' = [slot EXCEPT ![t] = {}]
       /\ UNCHANGED <<setting, ops, valueVars, todo, front, phase, generation>>
  BY <1>1 DEF FinishSlots, Free
<1>2. Typed /\ Discipline /\ Main \in Threads
  BY Config DEF IInv, Typed
<1>3. /\ Threads' = Threads /\ Next_pop' = Next_pop /\ front' = front /\ phase' = phase /\ todo' = todo
      /\ generation' = generation
  BY <1>10, Fixed DEF Next_pop, PopA, PopB
<1>4. slot'[t] = {} /\ \A u \in Threads : u # t => slot'[u] = slot[u]
  BY <1>2, <1>10 DEF Typed
<1>5. /\ OwnerBusy <=> slot[Main] = {} /\ todo[Main] # <<>>
      /\ OwnerBusy' <=> slot'[Main] = {} /\ todo[Main] # <<>>
  BY <1>3 DEF OwnerBusy, Free
<1>6. ~OwnerBusy /\ ~OwnerBusy'
  <2>1. ~OwnerBusy
    BY <1>2, <1>10 DEF Discipline
  <2> QED BY <1>2, <1>4, <1>5, <1>10, <2>1
<1>7. Discipline'
  <2>1. ASSUME NEW u \in Threads, NEW x \in Threads, u # x PROVE Apart(slot'[u], slot'[x])
    BY <1>2, <1>4, <2>1 DEF Discipline, Apart
  <2>2. ASSUME NEW u \in Threads PROVE slot'[u] \subseteq bred'
    BY <1>1, <1>2, <1>4 DEF Discipline, Apart
  <2>3. \A u \in Threads : \A i \in 1..Len(todo[u]) : todo[u][i].kind = "test" => i = 1
    BY <1>2 DEF Discipline
  <2>4. phase = "breed"
    BY <1>2, <1>10 DEF Discipline
  <2> QED BY <1>3, <1>6, <2>1, <2>2, <2>3, <2>4 DEF Discipline
<1>8. ASSUME NEW u \in Threads, todo[u] # <<>> PROVE Filling(u)' = Filling(u) /\ front' = front
  <2>1. u # t
    BY <1>8, <1>10
  <2>2. MyTree(u)' = MyTree(u)
    BY DEF MyTree
  <2> QED BY <1>3, <1>4, <1>6, <2>1, <2>2 DEF Filling
<1>9. /\ front' \in BOOLEAN /\ generation' \in 0..MaxGen /\ phase' \in {"breed", "exit", "destroy"}
      /\ slot' \in [Threads -> SUBSET Next_pop'] /\ bred' \subseteq Next_pop'
      /\ UNCHANGED <<setting, ops, valueVars, todo>>
  BY <1>1, <1>2, <1>3, <1>10 DEF Typed
<1> QED BY <1>7, <1>8, <1>9, QuietStepKeeps

\* The owner's steps between generations, and a stutter.
LEMMA OwnerStepKeeps ==
    ASSUME IInv, SwapPopulations \/ BeginExit
    PROVE  IInv'
<1>1. /\ \A u \in Threads : todo[u] = <<>> /\ slot[u] = {}
      /\ UNCHANGED <<setting, ops, valueVars, todo, slot>>
      /\ bred' = {} \/ (bred' = bred /\ front' = front)
  BY DEF SwapPopulations, BeginExit, Quiet, Free
<1>2. Typed /\ Discipline
  BY DEF IInv
<1>3. /\ front' \in BOOLEAN /\ generation' \in 0..MaxGen /\ phase' \in {"breed", "exit", "destroy"}
  <2>1. CASE SwapPopulations
    <3>1. MaxGen \in Nat /\ generation \in 0..MaxGen
      BY <1>2, BoundsAssumption DEF Typed
    <3> QED BY <1>2, <2>1, <3>1 DEF SwapPopulations, Typed
  <2>2. CASE BeginExit
    BY <1>2, <2>2 DEF BeginExit, Typed
  <2> QED BY <2>1, <2>2
<1>4. Threads' = Threads /\ PopA' = PopA /\ PopB' = PopB
  BY <1>1, Fixed
<1>5. slot' \in [Threads -> SUBSET Next_pop'] /\ bred' \subseteq Next_pop'
  BY <1>1, <1>2, <1>4 DEF Typed, Next_pop
<1>6. Discipline'
  BY <1>1, <1>2, <1>4 DEF Discipline, Apart
<1> QED BY <1>1, <1>3, <1>5, <1>6, QuietStepKeeps

\* Nothing happens.
LEMMA StutterKeeps ==
    ASSUME IInv, UNCHANGED vars
    PROVE  IInv'
<1>1. /\ setting' = setting /\ ops' = ops /\ count' = count /\ life' = life /\ drops' = drops
      /\ todo' = todo /\ slot' = slot /\ bred' = bred /\ front' = front /\ phase' = phase
      /\ generation' = generation
  BY DEF vars
<1>2. Typed /\ Discipline
  BY DEF IInv
<1>3. Threads' = Threads /\ Next_pop' = Next_pop /\ OwnerBusy' = OwnerBusy
  BY <1>1, Fixed DEF Next_pop, PopA, PopB, OwnerBusy, Free
<1>4. Discipline'
  BY <1>1, <1>2, <1>3 DEF Discipline
<1>5. \A u \in Threads : Filling(u)' = Filling(u)
  BY <1>1, <1>3 DEF Filling, MyTree
<1> QED BY <1>1, <1>2, <1>3, <1>4, <1>5, QuietStepKeeps DEF Typed, valueVars

\* Sequences that are empty hold nothing.
LEMMA NoSpots ==
    ASSUME NEW D, NEW f, NEW v, \A d \in D : Len(f[d]) \in Nat /\ Occurs(f[d], v) = 0
    PROVE  Spots(D, f, v) = {} /\ Cardinality(Spots(D, f, v)) = 0
<1>1. Spots(D, f, v) = {}
  BY SpotsOccur
<1> QED BY <1>1, FS_EmptySet

\* The lists k of the trees of D count each tree's part of in and out.
CountsAll(V, D, k, in, out) ==
    /\ in \in [D -> Seq(V \cup {Plain})] /\ out \in [D -> Seq(V \cup {Plain})]
    /\ k \in [D -> Seq(AccessesTo(V))]
    /\ \A d \in D : Counts(V, k[d], in[d], out[d])

\* Together they count what each of them counts.
LEMMA PopulationCounts ==
    ASSUME NEW V, NEW D, IsFiniteSet(D), NEW k, NEW in, NEW out, CountsAll(V, D, k, in, out)
    PROVE  /\ ListOf(D, k) \in Seq(AccessesTo(V))
           /\ \A v \in V : /\ Occurs(ListOf(D, k), Inc(v)) = Cardinality(Spots(D, in, v))
                           /\ Occurs(ListOf(D, k), Dec(v)) = Cardinality(Spots(D, out, v))
                           /\ Occurs(ListOf(D, k), Test(v)) = 0
<1>0. k \in [D -> Seq(AccessesTo(V))] /\ \A d \in D : Counts(V, k[d], in[d], out[d])
  BY DEF CountsAll
<1>1. \A d \in D : Len(in[d]) \in Nat /\ Len(out[d]) \in Nat /\ Len(k[d]) \in Nat
  BY DEF CountsAll
<1>2. \A v : IsFiniteSet(Spots(D, in, v)) /\ IsFiniteSet(Spots(D, out, v))
  BY <1>1, SpotsFinite
<1>3. \A v \in V : \A d \in D : /\ Occurs(k[d], Inc(v)) = Occurs(in[d], v)
                                /\ Occurs(k[d], Dec(v)) = Occurs(out[d], v)
                                /\ Occurs(k[d], Test(v)) = 0
  BY <1>0 DEF Counts, CountsOne
<1>4. /\ ListOf(D, k) \in Seq(AccessesTo(V))
      /\ \A w : Occurs(ListOf(D, k), w) = Cardinality(Spots(D, k, w))
  BY <1>0, ListsOfTrees
<1>5. ASSUME NEW v \in V
      PROVE  /\ Cardinality(Spots(D, k, Inc(v))) = Cardinality(Spots(D, in, v))
             /\ Cardinality(Spots(D, k, Dec(v))) = Cardinality(Spots(D, out, v))
             /\ Cardinality(Spots(D, k, Test(v))) = 0
  <2>1. PICK up, down, test : up = Inc(v) /\ down = Dec(v) /\ test = Test(v)
    OBVIOUS
  <2>2. Cardinality(Spots(D, k, up)) = Cardinality(Spots(D, in, v))
    BY <1>1, <1>2, <1>3, <2>1, SpotsEqual
  <2>3. Cardinality(Spots(D, k, down)) = Cardinality(Spots(D, out, v))
    BY <1>1, <1>2, <1>3, <2>1, SpotsEqual
  <2>4. Cardinality(Spots(D, k, test)) = 0
    BY <1>1, <1>3, <2>1, NoSpots
  <2> QED BY <2>1, <2>2, <2>3, <2>4, Zenon
<1> QED BY <1>4, <1>5, Zenon

\* The lists of a reset.
LEMMA ResetLists ==
    ASSUME IsFiniteSet(Current), IsFiniteSet(Next_pop), NEW new
    PROVE  \E a, b, c : /\ ResetAccesses(new) = a \o b \o c
             /\ a = ListOf(Current, [tr \in Current |-> Decrements(ops[tr])])
             /\ b = ListOf(Current, [tr \in Current |-> Increments(new[tr])])
             /\ c = ListOf(Next_pop, [tr \in Next_pop |-> Decrements(ops[tr])])
<1>1. \A D : IsFiniteSet(D) => /\ Len(SetToSeq(D)) \in Nat
                               /\ \A i \in 1..Len(SetToSeq(D)) : SetToSeq(D)[i] \in D
  <2> SUFFICES ASSUME NEW D, IsFiniteSet(D)
               PROVE  /\ Len(SetToSeq(D)) \in Nat
                      /\ \A i \in 1..Len(SetToSeq(D)) : SetToSeq(D)[i] \in D
    OBVIOUS
  <2>1. PICK n, e : n = Cardinality(D) /\ e = SetToSeq(D)
    OBVIOUS
  <2>2. Len(e) = n /\ n \in Nat /\ e \in Bijection(1..n, D)
    BY <2>1, Listed
  <2>3. \A i \in 1..n : e[i] \in D
    BY <2>2 DEF Bijection, Injection
  <2> QED BY <2>1, <2>2, <2>3
<1>2. ASSUME NEW D, IsFiniteSet(D)
      PROVE  /\ ListOf(D, [tr \in D |-> Decrements(ops[tr])])
                  = FlattenSeq([i \in 1..Len(SetToSeq(D)) |-> Decrements(ops[SetToSeq(D)[i]])])
             /\ ListOf(D, [tr \in D |-> Increments(new[tr])])
                  = FlattenSeq([i \in 1..Len(SetToSeq(D)) |-> Increments(new[SetToSeq(D)[i]])])
  <2>1. PICK e, n : e = SetToSeq(D) /\ n = Len(SetToSeq(D))
    OBVIOUS
  <2>2. n \in Nat /\ \A i \in 1..n : e[i] \in D
    BY <1>1, <1>2, <2>1, Zenon
  <2>3. PICK down, up : /\ down = [tr \in D |-> Decrements(ops[tr])]
                        /\ up = [tr \in D |-> Increments(new[tr])]
    OBVIOUS
  <2>4. /\ \A tr \in D : down[tr] = Decrements(ops[tr])
        /\ \A tr \in D : up[tr] = Increments(new[tr])
    BY <2>3
  <2>5. [i \in 1..n |-> down[e[i]]] = [i \in 1..n |-> Decrements(ops[e[i]])]
    BY <2>2, <2>4
  <2>6. [i \in 1..n |-> up[e[i]]] = [i \in 1..n |-> Increments(new[e[i]])]
    BY <2>2, <2>4
  <2>7. ListOf(D, down) = FlattenSeq([i \in 1..n |-> Decrements(ops[e[i]])])
    <3>1. ListOf(D, down) = FlattenSeq([i \in 1..n |-> down[e[i]]])
      BY <2>1, Zenon DEF ListOf
    <3> QED BY <2>5, <3>1, Zenon
  <2>8. ListOf(D, up) = FlattenSeq([i \in 1..n |-> Increments(new[e[i]])])
    <3>1. ListOf(D, up) = FlattenSeq([i \in 1..n |-> up[e[i]]])
      BY <2>1, Zenon DEF ListOf
    <3> QED BY <2>6, <3>1, Zenon
  <2> QED BY <2>1, <2>3, <2>7, <2>8, Zenon
<1>3. /\ ListOf(Current, [tr \in Current |-> Decrements(ops[tr])])
           = FlattenSeq([i \in 1..Len(SetToSeq(Current)) |-> Decrements(ops[SetToSeq(Current)[i]])])
      /\ ListOf(Current, [tr \in Current |-> Increments(new[tr])])
           = FlattenSeq([i \in 1..Len(SetToSeq(Current)) |-> Increments(new[SetToSeq(Current)[i]])])
      /\ ListOf(Next_pop, [tr \in Next_pop |-> Decrements(ops[tr])])
           = FlattenSeq([i \in 1..Len(SetToSeq(Next_pop)) |-> Decrements(ops[SetToSeq(Next_pop)[i]])])
  BY <1>2, Zenon
<1> QED BY <1>3, Zenon DEF ResetAccesses

\* What the accesses of a reset count: the new trees in, all trees out.
LEMMA ResetCounts ==
    ASSUME Typed, NEW new \in [Current -> Seq(Operators)]
    PROVE  /\ ResetAccesses(new) \in Seq(Accesses)
           /\ \A v \in Values :
                /\ Occurs(ResetAccesses(new), Inc(v)) = Cardinality(Spots(Current, new, v))
                /\ Occurs(ResetAccesses(new), Dec(v))
                     = Cardinality(Spots(Current, ops, v)) + Cardinality(Spots(Next_pop, ops, v))
                /\ Occurs(ResetAccesses(new), Test(v)) = 0
<1>1. /\ IsFiniteSet(Current) /\ IsFiniteSet(Next_pop) /\ Plain \notin Values
      /\ Current \subseteq Trees /\ Next_pop \subseteq Trees
  BY Config DEF Typed
<1>2. \A tr \in Trees : ops[tr] \in Seq(Operators)
  BY DEF Typed
<1>3. PICK ups, downs, outs :
        /\ ups = [tr \in Current |-> Increments(new[tr])]
        /\ downs = [tr \in Current |-> Decrements(ops[tr])]
        /\ outs = [tr \in Next_pop |-> Decrements(ops[tr])]
  OBVIOUS
<1>4. PICK old, last, e, none : /\ old = [tr \in Current |-> ops[tr]]
                                /\ last = [tr \in Next_pop |-> ops[tr]]
                                /\ e = [tr \in Current |-> <<>>]
                                /\ none = [tr \in Next_pop |-> <<>>]
  OBVIOUS
<1>5. /\ old \in [Current -> Seq(Operators)] /\ last \in [Next_pop -> Seq(Operators)]
      /\ e \in [Current -> Seq(Operators)] /\ none \in [Next_pop -> Seq(Operators)]
  BY <1>1, <1>2, <1>4
<1>6. ASSUME NEW tr \in Current
      PROVE  /\ Counts(Values, ups[tr], new[tr], e[tr])
             /\ Counts(Values, downs[tr], e[tr], old[tr])
  <2>1. new[tr] \in Seq(Operators) /\ ops[tr] \in Seq(Operators)
    BY <1>1, <1>2
  <2>2. /\ Counts(Values, Increments(new[tr]), new[tr], <<>>)
        /\ Counts(Values, Decrements(ops[tr]), <<>>, ops[tr])
    BY <1>1, <2>1, AllCounts DEF Operators
  <2>3. /\ ups[tr] = Increments(new[tr]) /\ downs[tr] = Decrements(ops[tr])
        /\ e[tr] = <<>> /\ old[tr] = ops[tr]
    BY <1>3, <1>4, Zenon
  <2> QED BY <2>2, <2>3, Zenon
<1>7. ASSUME NEW tr \in Next_pop PROVE Counts(Values, outs[tr], none[tr], last[tr])
  <2>1. ops[tr] \in Seq(Operators)
    BY <1>1, <1>2
  <2>2. Counts(Values, Decrements(ops[tr]), <<>>, ops[tr])
    BY <1>1, <2>1, AllCounts DEF Operators
  <2>3. outs[tr] = Decrements(ops[tr]) /\ none[tr] = <<>> /\ last[tr] = ops[tr]
    BY <1>3, <1>4, Zenon
  <2> QED BY <2>2, <2>3, Zenon
<1>8. /\ ups \in [Current -> Seq(AccessesTo(Values))] /\ downs \in [Current -> Seq(AccessesTo(Values))]
      /\ outs \in [Next_pop -> Seq(AccessesTo(Values))]
  BY <1>3, <1>6, <1>7 DEF Counts
<1> DEFINE Sums(D, k, in, out) ==
             /\ ListOf(D, k) \in Seq(AccessesTo(Values))
             /\ \A v \in Values : /\ Occurs(ListOf(D, k), Inc(v)) = Cardinality(Spots(D, in, v))
                                  /\ Occurs(ListOf(D, k), Dec(v)) = Cardinality(Spots(D, out, v))
                                  /\ Occurs(ListOf(D, k), Test(v)) = 0
<1>9a. ASSUME NEW D, IsFiniteSet(D), NEW k, NEW in, NEW out, CountsAll(Values, D, k, in, out)
      PROVE  Sums(D, k, in, out)
  <2>1. PICK V : V = Values
    OBVIOUS
  <2>2. CountsAll(V, D, k, in, out)
    BY <1>9a, <2>1, Zenon
  <2>3. /\ ListOf(D, k) \in Seq(AccessesTo(V))
        /\ \A v \in V : /\ Occurs(ListOf(D, k), Inc(v)) = Cardinality(Spots(D, in, v))
                        /\ Occurs(ListOf(D, k), Dec(v)) = Cardinality(Spots(D, out, v))
                        /\ Occurs(ListOf(D, k), Test(v)) = 0
    BY <1>9a, <2>2, PopulationCounts
  <2> QED BY <2>1, <2>3, Zenon
<1> HIDE DEF Sums
<1>9. /\ ListOf(Current, ups) \in Seq(AccessesTo(Values))
      /\ \A v \in Values : /\ Occurs(ListOf(Current, ups), Inc(v)) = Cardinality(Spots(Current, new, v))
                           /\ Occurs(ListOf(Current, ups), Dec(v)) = Cardinality(Spots(Current, e, v))
                           /\ Occurs(ListOf(Current, ups), Test(v)) = 0
  <2>1. PICK C : C = Current
    OBVIOUS
  <2>2. /\ IsFiniteSet(C) /\ new \in [C -> Seq(Operators)] /\ e \in [C -> Seq(Operators)]
        /\ ups \in [C -> Seq(AccessesTo(Values))]
    BY <1>1, <1>5, <1>8, <2>1, Zenon
  <2>3. \A d \in C : Counts(Values, ups[d], new[d], e[d])
    BY <1>6, <2>1, Zenon
  <2>4. CountsAll(Values, C, ups, new, e)
    BY <2>2, <2>3, Zenon DEF CountsAll, Operators
  <2>5. Sums(C, ups, new, e)
    BY <1>9a, <2>2, <2>4, Zenon
  <2> QED BY <2>1, <2>5, Zenon DEF Sums
<1>10. /\ ListOf(Current, downs) \in Seq(AccessesTo(Values))
       /\ \A v \in Values : /\ Occurs(ListOf(Current, downs), Inc(v)) = Cardinality(Spots(Current, e, v))
                            /\ Occurs(ListOf(Current, downs), Dec(v)) = Cardinality(Spots(Current, old, v))
                            /\ Occurs(ListOf(Current, downs), Test(v)) = 0
  <2>1. PICK C : C = Current
    OBVIOUS
  <2>2. /\ IsFiniteSet(C) /\ e \in [C -> Seq(Operators)] /\ old \in [C -> Seq(Operators)]
        /\ downs \in [C -> Seq(AccessesTo(Values))]
    BY <1>1, <1>5, <1>8, <2>1, Zenon
  <2>3. \A d \in C : Counts(Values, downs[d], e[d], old[d])
    BY <1>6, <2>1, Zenon
  <2>4. CountsAll(Values, C, downs, e, old)
    BY <2>2, <2>3, Zenon DEF CountsAll, Operators
  <2>5. Sums(C, downs, e, old)
    BY <1>9a, <2>2, <2>4, Zenon
  <2> QED BY <2>1, <2>5, Zenon DEF Sums
<1>11. /\ ListOf(Next_pop, outs) \in Seq(AccessesTo(Values))
       /\ \A v \in Values : /\ Occurs(ListOf(Next_pop, outs), Inc(v)) = Cardinality(Spots(Next_pop, none, v))
                            /\ Occurs(ListOf(Next_pop, outs), Dec(v)) = Cardinality(Spots(Next_pop, last, v))
                            /\ Occurs(ListOf(Next_pop, outs), Test(v)) = 0
  <2>1. PICK C : C = Next_pop
    OBVIOUS
  <2>2. /\ IsFiniteSet(C) /\ none \in [C -> Seq(Operators)] /\ last \in [C -> Seq(Operators)]
        /\ outs \in [C -> Seq(AccessesTo(Values))]
    BY <1>1, <1>5, <1>8, <2>1, Zenon
  <2>3. \A d \in C : Counts(Values, outs[d], none[d], last[d])
    BY <1>7, <2>1, Zenon
  <2>4. CountsAll(Values, C, outs, none, last)
    BY <2>2, <2>3, Zenon DEF CountsAll, Operators
  <2>5. Sums(C, outs, none, last)
    BY <1>9a, <2>2, <2>4, Zenon
  <2> QED BY <2>1, <2>5, Zenon DEF Sums
<1>12. ASSUME NEW v
       PROVE  /\ Cardinality(Spots(Current, e, v)) = 0 /\ Cardinality(Spots(Next_pop, none, v)) = 0
              /\ Spots(Current, old, v) = Spots(Current, ops, v)
              /\ Spots(Next_pop, last, v) = Spots(Next_pop, ops, v)
  <2>1. /\ \A tr \in Current : Len(e[tr]) \in Nat /\ Occurs(e[tr], v) = 0
        /\ \A tr \in Next_pop : Len(none[tr]) \in Nat /\ Occurs(none[tr], v) = 0
    BY <1>4, OccursFew
  <2>2. /\ \A tr \in Current : old[tr] = ops[tr]
        /\ \A tr \in Next_pop : last[tr] = ops[tr]
    BY <1>4
  <2> QED BY <2>1, <2>2, NoSpots, SpotsSame
<1>13. PICK a, b, c : a = ListOf(Current, downs) /\ b = ListOf(Current, ups) /\ c = ListOf(Next_pop, outs)
  OBVIOUS
<1>14. ResetAccesses(new) = (a \o b) \o c
  BY <1>1, <1>3, <1>13, ResetLists, Zenon
<1>15. a \in Seq(Accesses) /\ b \in Seq(Accesses) /\ c \in Seq(Accesses)
  BY <1>9, <1>10, <1>11, <1>13 DEF Accesses
<1>16. a \o b \in Seq(Accesses) /\ (a \o b) \o c \in Seq(Accesses)
  <2>1. a \o b \in Seq(Accesses)
    BY <1>15, Joined
  <2> QED BY <1>15, <2>1, Joined
<1>17. \A w : Occurs((a \o b) \o c, w) = (Occurs(a, w) + Occurs(b, w)) + Occurs(c, w)
  <2>1. \A w : Occurs((a \o b) \o c, w) = Occurs(a \o b, w) + Occurs(c, w)
    BY <1>15, <1>16, OccursJoined
  <2>2. \A w : Occurs(a \o b, w) = Occurs(a, w) + Occurs(b, w)
    BY <1>15, OccursJoined
  <2> QED BY <2>1, <2>2, Zenon
<1>18. ASSUME NEW v \in Values
       PROVE  /\ Occurs((a \o b) \o c, Inc(v)) = Cardinality(Spots(Current, new, v))
              /\ Occurs((a \o b) \o c, Dec(v))
                   = Cardinality(Spots(Current, ops, v)) + Cardinality(Spots(Next_pop, ops, v))
              /\ Occurs((a \o b) \o c, Test(v)) = 0
  <2>1. PICK x, y, z : /\ x = Cardinality(Spots(Current, new, v))
                       /\ y = Cardinality(Spots(Current, ops, v))
                       /\ z = Cardinality(Spots(Next_pop, ops, v))
    OBVIOUS
  <2>2. x \in Nat /\ y \in Nat /\ z \in Nat
    <3>1. \A tr \in Current : Len(new[tr]) \in Nat
      OBVIOUS
    <3>2. x \in Nat
      BY <1>1, <2>1, <3>1, SpotsFinite
    <3> QED BY <1>1, <2>1, <3>2, Countable
  <2>3. /\ Occurs(a, Inc(v)) = 0 /\ Occurs(b, Inc(v)) = x /\ Occurs(c, Inc(v)) = 0
        /\ Occurs(a, Dec(v)) = y /\ Occurs(b, Dec(v)) = 0 /\ Occurs(c, Dec(v)) = z
        /\ Occurs(a, Test(v)) = 0 /\ Occurs(b, Test(v)) = 0 /\ Occurs(c, Test(v)) = 0
    BY <1>9, <1>10, <1>11, <1>12, <1>13, <2>1, Zenon
  <2>4. /\ Occurs((a \o b) \o c, Inc(v)) = (0 + x) + 0
        /\ Occurs((a \o b) \o c, Dec(v)) = (y + 0) + z
        /\ Occurs((a \o b) \o c, Test(v)) = (0 + 0) + 0
    BY <1>17, <2>3, Zenon
  <2>5. (0 + x) + 0 = x /\ (y + 0) + z = y + z /\ (0 + 0) + 0 = 0
    BY <2>2
  <2> QED BY <2>1, <2>4, <2>5, Zenon
<1> QED BY <1>14, <1>16, <1>18, Zenon

-----------------------------------------------------------------------------
(* New populations: the first one and that of a reset.                     *)

\* The trees of one operator each that a new population starts from; no two
\* hold the same value.
FirstTrees(C, new) ==
    /\ \A tr \in C : \E x \in Operators : new[tr] = <<x>>
    /\ \A tr, other \in C : new[tr] = new[other] /\ tr # other => new[tr] = <<Plain>>

\* A new value lies in one tree of them.
LEMMA FirstSpots ==
    ASSUME NEW C, IsFiniteSet(C), NEW new, FirstTrees(C, new), NEW v, v # Plain
    PROVE  Cardinality(Spots(C, new, v)) = IF \E tr \in C : new[tr] = <<v>> THEN 1 ELSE 0
<1>1. \A tr \in C : Len(new[tr]) \in Nat /\ (new[tr] # <<v>> => Occurs(new[tr], v) = 0)
  <2> SUFFICES ASSUME NEW tr \in C
               PROVE  Len(new[tr]) \in Nat /\ (new[tr] # <<v>> => Occurs(new[tr], v) = 0)
    OBVIOUS
  <2>1. PICK x : new[tr] = <<x>>
    BY DEF FirstTrees
  <2>2. Len(<<x>>) \in Nat
    OBVIOUS
  <2>3. x # v => Occurs(<<x>>, v) = 0
    BY OccursFew
  <2> QED BY <2>1, <2>2, <2>3, Zenon
<1>2. CASE \E tr \in C : new[tr] = <<v>>
  <2>1. PICK d \in C : new[d] = <<v>>
    BY <1>2
  <2>2. PICK U : U = C \ {d}
    OBVIOUS
  <2>3. OneMore(U, d, C) /\ IsFiniteSet(U)
    BY <2>2, FS_Subset DEF OneMore
  <2>4. <<v>> # <<Plain>>
    OBVIOUS
  <2>5. \A tr \in U : tr \in C /\ tr # d
    BY <2>2
  <2>6. \A tr \in U : new[tr] # <<v>>
    BY <2>1, <2>4, <2>5, Zenon DEF FirstTrees
  <2>7. \A tr \in U : Len(new[tr]) \in Nat /\ Occurs(new[tr], v) = 0
    BY <1>1, <2>5, <2>6, Zenon
  <2>8. Cardinality(Spots(U, new, v)) = 0
    BY <2>7, NoSpots, Zenon
  <2>9. Occurs(<<v>>, v) = 1
    BY OccursFew
  <2>10. IsFiniteSet(Spots(U, new, v))
    BY <2>3, <2>7, SpotsFinite
  <2>11. Cardinality(Spots(C, new, v)) = Cardinality(Spots(U, new, v)) + Occurs(new[d], v)
    <3>1. \A tr \in C : Len(new[tr]) \in Nat
      BY <1>1
    <3> QED BY <2>3, <2>10, <3>1, SpotsMore
  <2>12. Cardinality(Spots(C, new, v)) = 0 + 1
    BY <2>1, <2>8, <2>9, <2>11, Zenon
  <2> QED BY <1>2, <2>12
<1>3. CASE ~\E tr \in C : new[tr] = <<v>>
  <2>1. \A tr \in C : Len(new[tr]) \in Nat /\ Occurs(new[tr], v) = 0
    BY <1>1, <1>3, Zenon
  <2>2. Cardinality(Spots(C, new, v)) = 0
    BY <2>1, NoSpots, Zenon
  <2> QED BY <1>3, <2>2
<1> QED BY <1>2, <1>3

\* What all trees hold lies in the two populations and the threads' own trees.
LEMMA HeldSum ==
    ASSUME setting \in Settings, NEW f, \A tr \in Trees : Len(f[tr]) \in Nat, NEW v
    PROVE  \A C \in {PopA, PopB} : \A N \in {PopA, PopB} : Apart(C, N) /\ C \cup N = PopA \cup PopB =>
             /\ Cardinality(Spots(Trees, f, v)) = (Cardinality(Spots(C, f, v)) + Cardinality(Spots(N, f, v)))
                                                     + Cardinality(Spots(Scratch, f, v))
             /\ Cardinality(Spots(C, f, v)) \in Nat /\ Cardinality(Spots(N, f, v)) \in Nat
             /\ Cardinality(Spots(Scratch, f, v)) \in Nat
<1>1. /\ IsFiniteSet(Trees) /\ Trees = PopA \cup PopB \cup Scratch
      /\ Apart(PopA \cup PopB, Scratch)
  <2>1. \A t \in Threads : MyTree(t) \notin PopA \cup PopB
    BY Config
  <2>2. Scratch = {MyTree(t) : t \in Threads}
    BY Config
  <2>3. Apart(PopA \cup PopB, Scratch)
    BY <2>1, <2>2 DEF Apart
  <2> QED BY <2>3, Config
<1> SUFFICES ASSUME NEW C \in {PopA, PopB}, NEW N \in {PopA, PopB}, Apart(C, N), C \cup N = PopA \cup PopB
             PROVE  /\ Cardinality(Spots(Trees, f, v)) = (Cardinality(Spots(C, f, v)) + Cardinality(Spots(N, f, v)))
                                                            + Cardinality(Spots(Scratch, f, v))
                    /\ Cardinality(Spots(C, f, v)) \in Nat /\ Cardinality(Spots(N, f, v)) \in Nat
                    /\ Cardinality(Spots(Scratch, f, v)) \in Nat
  OBVIOUS
<1>2. \A D \in SUBSET Trees : IsFiniteSet(Spots(D, f, v)) /\ Cardinality(Spots(D, f, v)) \in Nat
  <2> SUFFICES ASSUME NEW D \in SUBSET Trees
               PROVE  IsFiniteSet(Spots(D, f, v)) /\ Cardinality(Spots(D, f, v)) \in Nat
    OBVIOUS
  <2>1. IsFiniteSet(D) /\ \A tr \in D : Len(f[tr]) \in Nat
    BY <1>1, FS_Subset
  <2> QED BY <2>1, SpotsFinite
<1>3. PICK S, P, T : S = Scratch /\ P = C \cup N /\ T = Trees
  OBVIOUS
<1>4. /\ T = P \cup S /\ Apart(P, S) /\ C \in SUBSET Trees /\ N \in SUBSET Trees
      /\ P \in SUBSET Trees /\ S \in SUBSET Trees
  BY <1>1, <1>3
<1>5. Cardinality(Spots(P \cup S, f, v)) = Cardinality(Spots(P, f, v)) + Cardinality(Spots(S, f, v))
  BY <1>2, <1>4, SpotsJoined
<1>6. Cardinality(Spots(C \cup N, f, v)) = Cardinality(Spots(C, f, v)) + Cardinality(Spots(N, f, v))
  <2>1. PICK X, Y : X = C /\ Y = N
    OBVIOUS
  <2>2. IsFiniteSet(Spots(X, f, v)) /\ IsFiniteSet(Spots(Y, f, v)) /\ Apart(X, Y)
    BY <1>2, <1>4, <2>1, Zenon
  <2>3. Cardinality(Spots(X \cup Y, f, v)) = Cardinality(Spots(X, f, v)) + Cardinality(Spots(Y, f, v))
    BY <2>2, SpotsJoined
  <2> QED BY <2>1, <2>3, Zenon
<1> QED BY <1>2, <1>3, <1>4, <1>5, <1>6, Zenon

\* A population and its copy, by the program's injection from N to C.
LEMMA CopySpots ==
    ASSUME NEW C, NEW N, IsFiniteSet(C), IsFiniteSet(N), Cardinality(C) = Cardinality(N),
           NEW new, NEW f, NEW v, \A tr \in C : Len(new[tr]) \in Nat,
           \A tr \in N : f[tr] = new[(CHOOSE g \in [N -> C] : IsInjective(g))[tr]]
    PROVE  Cardinality(Spots(N, f, v)) = Cardinality(Spots(C, new, v))
<1>1. PICK e : e = CHOOSE g \in [N -> C] : IsInjective(g)
  OBVIOUS
<1>2. e \in [N -> C] /\ IsInjective(e)
  BY <1>1, Onto
<1>3. e \in Bijection(N, C)
  BY <1>2, Onto
<1>4. \A tr \in N : f[tr] = new[e[tr]]
  BY <1>1, Zenon
<1>5. IsFiniteSet(Spots(C, new, v))
  BY SpotsFinite
<1> QED BY <1>3, <1>4, <1>5, SpotsRenamed

\* What a reset does to the trees and values, with the trees it makes.
Resets(new, made) ==
    /\ made = {v \in Values : \E tr \in Current : new[tr] = <<v>>}
    /\ \A v \in made : life[v] = "unborn"
    /\ life' = [v \in Values |-> IF v \in made THEN "live" ELSE life[v]]
    /\ count' = [v \in Values |-> IF v \in made THEN BornCount ELSE count[v]]
    /\ todo' = [todo EXCEPT ![Main] = ResetAccesses(new)]
    /\ ops' = [tr \in Trees |->
                 IF tr \in Current THEN new[tr]
                 ELSE IF tr \in Next_pop
                      THEN new[(CHOOSE g \in [Next_pop -> Current] : IsInjective(g))[tr]]
                      ELSE ops[tr]]

\* The reset makes first trees.
LEMMA ResetMakes ==
    ASSUME Reset
    PROVE  \E new \in [Current -> Seq(Operators)] : \E made :
             /\ Resets(new, made) /\ FirstTrees(Current, new)
             /\ \A tr \in Current : Len(new[tr]) = 1
<1>1. PICK new \in [Current -> {<<v>> : v \in Values \cup {Plain}}] :
        /\ \A tr, other \in Current : new[tr] = new[other] /\ tr # other => new[tr] = <<Plain>>
        /\ \E made : Resets(new, made)
  BY Zenon DEF Reset, Resets
<1>2. PICK made : Resets(new, made)
  BY <1>1
<1>3. \A tr \in Current : \E x \in Operators : new[tr] = <<x>>
  BY DEF Operators
<1>4. FirstTrees(Current, new)
  BY <1>1, <1>3 DEF FirstTrees
<1>5. ASSUME NEW tr \in Current PROVE new[tr] \in Seq(Operators) /\ Len(new[tr]) = 1
  <2>1. PICK x \in Operators : new[tr] = <<x>>
    BY <1>3
  <2>2. <<x>> \in Seq(Operators) /\ Len(<<x>>) = 1
    OBVIOUS
  <2> QED BY <2>1, <2>2, Zenon
<1>6. new \in [Current -> Seq(Operators)]
  BY <1>5
<1> QED BY <1>2, <1>4, <1>5, <1>6

\* The trees after it.
LEMMA ResetTrees ==
    ASSUME Typed, NEW new \in [Current -> Seq(Operators)], NEW made, Resets(new, made),
           FirstTrees(Current, new), \A tr \in Current : Len(new[tr]) = 1
    PROVE  /\ ops' \in [Trees -> Seq(Operators)] /\ \A tr \in Trees : Len(ops'[tr]) <= MaxLen
           /\ \A tr \in Current : ops'[tr] = new[tr]
           /\ \A tr \in Next_pop :
                ops'[tr] = new[(CHOOSE g \in [Next_pop -> Current] : IsInjective(g))[tr]]
           /\ \A tr \in Scratch : ops'[tr] = ops[tr]
<1>1. /\ Trees = PopA \cup PopB \cup Scratch /\ Current \cup Next_pop = PopA \cup PopB
      /\ Apart(Current, Next_pop) /\ MaxLen \in Nat \ {0}
      /\ Scratch = {MyTree(t) : t \in Threads} /\ \A t \in Threads : MyTree(t) \notin PopA \cup PopB
      /\ IsFiniteSet(Current) /\ IsFiniteSet(Next_pop) /\ Cardinality(Current) = Cardinality(Next_pop)
  BY Config DEF Typed
<1> DEFINE e == CHOOSE g \in [Next_pop -> Current] : IsInjective(g)
<1>2. ops' = [tr \in Trees |-> IF tr \in Current THEN new[tr]
                               ELSE IF tr \in Next_pop THEN new[e[tr]] ELSE ops[tr]]
  BY DEF Resets
<1>3. e \in [Next_pop -> Current]
  BY <1>1, Onto
<1>4. \A tr \in Next_pop : new[e[tr]] = new[(CHOOSE g \in [Next_pop -> Current] : IsInjective(g))[tr]]
  BY DEF e
<1> HIDE DEF e
<1>5. /\ \A tr \in Current : tr \in Trees
      /\ \A tr \in Next_pop : tr \in Trees /\ tr \notin Current
      /\ \A tr \in Scratch : tr \in Trees /\ tr \notin Current /\ tr \notin Next_pop
  BY <1>1 DEF Apart
<1>6. /\ \A tr \in Current : ops'[tr] = new[tr]
      /\ \A tr \in Next_pop : ops'[tr] = new[e[tr]]
      /\ \A tr \in Scratch : ops'[tr] = ops[tr]
  BY <1>2, <1>5
<1>7. \A tr \in Trees : tr \in Current \/ tr \in Next_pop \/ tr \in Scratch
  BY <1>1
<1>8. \A tr \in Trees : ops'[tr] \in Seq(Operators) /\ Len(ops'[tr]) <= MaxLen
  <2> SUFFICES ASSUME NEW tr \in Trees PROVE ops'[tr] \in Seq(Operators) /\ Len(ops'[tr]) <= MaxLen
    OBVIOUS
  <2>0. \A d \in Current : new[d] \in Seq(Operators) /\ Len(new[d]) <= MaxLen
    <3>1. 1 <= MaxLen
      BY <1>1
    <3> QED BY <3>1, Zenon
  <2>1. CASE tr \in Current
    BY <1>6, <2>0, <2>1, Zenon
  <2>2. CASE tr \in Next_pop
    <3>1. e[tr] \in Current
      BY <1>3, <2>2
    <3> QED BY <1>6, <2>0, <2>2, <3>1, Zenon
  <2>3. CASE tr \in Scratch
    BY <1>6, <2>3 DEF Typed
  <2> QED BY <1>7, <2>1, <2>2, <2>3
<1>9. ops' \in [Trees -> Seq(Operators)]
  BY <1>2, <1>8
<1> QED BY <1>4, <1>6, <1>8, <1>9, Zenon

\* What the trees after it hold.
LEMMA ResetHeld ==
    ASSUME Typed, NEW new \in [Current -> Seq(Operators)], NEW made, Resets(new, made),
           FirstTrees(Current, new), \A tr \in Current : Len(new[tr]) = 1,
           setting' = setting, NEW v \in Values
    PROVE  \E n, x, y, s \in Nat :
             /\ n = IF v \in made THEN 1 ELSE 0
             /\ n = Cardinality(Spots(Current, new, v))
             /\ x = Cardinality(Spots(Current, ops, v)) /\ y = Cardinality(Spots(Next_pop, ops, v))
             /\ n = Cardinality(Spots(Current, ops', v)) /\ n = Cardinality(Spots(Next_pop, ops', v))
             /\ Held(v) = (x + y) + s /\ Held(v)' = (n + n) + s
<1>1. /\ IsFiniteSet(Current) /\ IsFiniteSet(Next_pop) /\ Cardinality(Current) = Cardinality(Next_pop)
      /\ Apart(Current, Next_pop) /\ Current \cup Next_pop = PopA \cup PopB /\ Plain \notin Values
      /\ setting \in Settings
  BY Config DEF Typed
<1>2. Current \in {PopA, PopB} /\ Next_pop \in {PopA, PopB}
  BY DEF Current, Next_pop
<1>3. PICK g : g = ops'
  OBVIOUS
<1>4. /\ \A tr \in Trees : Len(g[tr]) \in Nat
      /\ \A tr \in Current : g[tr] = new[tr]
      /\ \A tr \in Next_pop : g[tr] = new[(CHOOSE h \in [Next_pop -> Current] : IsInjective(h))[tr]]
      /\ \A tr \in Scratch : g[tr] = ops[tr]
  <2>1. g \in [Trees -> Seq(Operators)]
    BY <1>3, ResetTrees
  <2>2. \A tr \in Trees : Len(g[tr]) \in Nat
    BY <2>1
  <2> QED BY <1>3, <2>2, ResetTrees, Zenon
<1>5. \A tr \in Trees : Len(ops[tr]) \in Nat
  BY Countable
<1>6. PICK n, x, y, s : /\ n = Cardinality(Spots(Current, new, v))
                        /\ x = Cardinality(Spots(Current, ops, v))
                        /\ y = Cardinality(Spots(Next_pop, ops, v))
                        /\ s = Cardinality(Spots(Scratch, ops, v))
  OBVIOUS
<1>7. Cardinality(Spots(Trees, ops, v)) = (x + y) + s /\ x \in Nat /\ y \in Nat /\ s \in Nat
  BY <1>1, <1>2, <1>5, <1>6, HeldSum, ZenonT(40)
<1>8. /\ Cardinality(Spots(Trees, g, v))
           = (Cardinality(Spots(Current, g, v)) + Cardinality(Spots(Next_pop, g, v)))
               + Cardinality(Spots(Scratch, g, v))
      /\ Cardinality(Spots(Current, g, v)) \in Nat
  BY <1>1, <1>2, <1>4, HeldSum, ZenonT(40)
<1>9. Cardinality(Spots(Current, g, v)) = n /\ Cardinality(Spots(Scratch, g, v)) = s
  <2>1. Spots(Current, g, v) = Spots(Current, new, v)
    BY <1>4, SpotsSame
  <2>2. Spots(Scratch, g, v) = Spots(Scratch, ops, v)
    BY <1>4, SpotsSame
  <2> QED BY <1>6, <2>1, <2>2, Zenon
<1>10. Cardinality(Spots(Next_pop, g, v)) = n
  <2>1. \A tr \in Current : Len(new[tr]) \in Nat
    OBVIOUS
  <2>2. PICK C, N : C = Current /\ N = Next_pop
    OBVIOUS
  <2>3. /\ IsFiniteSet(C) /\ IsFiniteSet(N) /\ Cardinality(C) = Cardinality(N)
        /\ \A tr \in C : Len(new[tr]) \in Nat
    BY <1>1, <2>1, <2>2, Zenon
  <2>4. \A tr \in N : g[tr] = new[(CHOOSE h \in [N -> C] : IsInjective(h))[tr]]
    BY <1>4, <2>2, Zenon
  <2>5. Cardinality(Spots(N, g, v)) = Cardinality(Spots(C, new, v))
    BY <2>3, <2>4, CopySpots
  <2> QED BY <1>6, <2>2, <2>5, Zenon
<1>11. n \in Nat
  BY <1>8, <1>9
<1>12. n = IF v \in made THEN 1 ELSE 0
  <2>1. v # Plain
    BY <1>1
  <2>2. Cardinality(Spots(Current, new, v)) = IF \E tr \in Current : new[tr] = <<v>> THEN 1 ELSE 0
    BY <1>1, <2>1, FirstSpots, Zenon
  <2>3. v \in made <=> \E tr \in Current : new[tr] = <<v>>
    BY DEF Resets
  <2> QED BY <1>6, <2>2, <2>3, Zenon
<1>13. Trees' = Trees
  BY Fixed
<1>14. Held(v) = (x + y) + s /\ Held(v)' = (n + n) + s
  BY <1>3, <1>7, <1>8, <1>9, <1>10, <1>13, Zenon DEF Held
<1>15. n = Cardinality(Spots(Current, ops', v)) /\ n = Cardinality(Spots(Next_pop, ops', v))
  BY <1>3, <1>9, <1>10, Zenon
<1> QED BY <1>6, <1>7, <1>11, <1>12, <1>14, <1>15, Zenon

\* A reset keeps the invariant: what it has still to count in of a new value
\* lies in the next population, and the current one holds the value too.
LEMMA ResetKeeps ==
    ASSUME IInv, Reset
    PROVE  IInv'
<1>1. PICK new \in [Current -> Seq(Operators)] : \E made :
        /\ Resets(new, made) /\ FirstTrees(Current, new)
        /\ \A tr \in Current : Len(new[tr]) = 1
  BY ResetMakes
<1>2. PICK made : /\ Resets(new, made) /\ FirstTrees(Current, new)
                  /\ \A tr \in Current : Len(new[tr]) = 1
  BY <1>1
<1>3. /\ \A u \in Threads : todo[u] = <<>> /\ slot[u] = {}
      /\ generation' = 0 /\ bred' = {}
      /\ setting' = setting /\ drops' = drops /\ slot' = slot /\ front' = front /\ phase' = phase
  BY DEF Reset, Quiet, Free
<1>4. Typed /\ Main \in Threads /\ \A v \in Values : ValueOK(v)
  BY Config DEF IInv, Typed
<1>5. PICK A : A = ResetAccesses(new)
  OBVIOUS
<1>6. /\ todo' = [todo EXCEPT ![Main] = A] /\ todo'[Main] = A
      /\ life' = [v \in Values |-> IF v \in made THEN "live" ELSE life[v]]
      /\ count' = [v \in Values |-> IF v \in made THEN 1 ELSE count[v]]
      /\ \A v \in made : life[v] = "unborn"
  <2>1. todo' = [todo EXCEPT ![Main] = A]
    BY <1>2, <1>5, Zenon DEF Resets
  <2>2. todo'[Main] = A
    BY <1>4, <2>1 DEF Typed
  <2> QED BY <1>2, <2>1, <2>2 DEF Resets, BornCount
<1>7. /\ A \in Seq(Accesses)
      /\ \A v \in Values :
           /\ Occurs(A, Inc(v)) = Cardinality(Spots(Current, new, v))
           /\ Occurs(A, Dec(v)) = Cardinality(Spots(Current, ops, v)) + Cardinality(Spots(Next_pop, ops, v))
           /\ Occurs(A, Test(v)) = 0
  BY <1>4, <1>5, ResetCounts, Zenon
<1>8. ASSUME NEW v \in Values PROVE (Counted(A, v) \/ Made(A, v)) /\ Backed(Main, v)'
  <2>1. PICK n, x, y, s \in Nat :
             /\ n = IF v \in made THEN 1 ELSE 0
             /\ n = Cardinality(Spots(Current, new, v))
             /\ x = Cardinality(Spots(Current, ops, v)) /\ y = Cardinality(Spots(Next_pop, ops, v))
             /\ n = Cardinality(Spots(Current, ops', v)) /\ n = Cardinality(Spots(Next_pop, ops', v))
             /\ Held(v) = (x + y) + s /\ Held(v)' = (n + n) + s
    BY <1>2, <1>3, <1>4, ResetHeld, SMTT(30)
  <2>2. Occurs(A, Inc(v)) = n /\ Occurs(A, Dec(v)) = x + y /\ Occurs(A, Test(v)) = 0
    BY <1>7, <2>1, Zenon
  <2>3. Counted(A, v) \/ Made(A, v)
    <3>1. CASE v \in made
      <4>1. life[v] = "unborn" /\ life'[v] = "live" /\ count'[v] = 1 /\ n = 1
        BY <1>6, <2>1, <3>1
      <4>2. Held(v) = 0
        BY <1>4, <4>1, Zenon DEF ValueOK, GoneOK
      <4>3. x = 0 /\ y = 0 /\ s = 0
        BY <2>1, <4>2
      <4>4. Held(v)' = 1 + n /\ x + y = 0
        BY <2>1, <4>1, <4>3
      <4> QED BY <2>2, <4>1, <4>4, Zenon DEF Made
    <3>2. CASE v \notin made
      <4>1. life'[v] = life[v] /\ count'[v] = count[v] /\ n = 0
        BY <1>6, <2>1, <3>2
      <4>2. Held(v)' + (x + y) = Held(v) + n
        BY <2>1, <4>1
      <4> QED BY <2>2, <4>1, <4>2, Zenon DEF Counted
    <3> QED BY <3>1, <3>2
  <2>4. Backed(Main, v)'
    <3>1. CASE A = <<>>
      <4>1. Occurs(todo'[Main], Inc(v)') = 0
        BY <1>6, <3>1, OccursFew
      <4> QED BY <4>1, Zenon DEF Backed, BackedBy
    <3>2. CASE A # <<>>
      <4>1. OwnerBusy' /\ Next_pop' = Next_pop /\ Current' = Current
        BY <1>3, <1>4, <1>6, <3>2 DEF OwnerBusy, Free, Next_pop, Current, PopA, PopB
      <4>2. Filling(Main)' = Next_pop \cup {MyTree(Main)}
        BY <4>1 DEF Filling, MyTree
      <4>3. PICK g, F, m : g = ops' /\ F = Next_pop \cup {MyTree(Main)} /\ m = Cardinality(Spots(F, g, v))
        OBVIOUS
      <4>4. F \in SUBSET Trees /\ IsFiniteSet(Trees)
        BY <1>4, <4>3, Config DEF Typed
      <4>5. \A tr \in F : Len(g[tr]) \in Nat
        <5>1. g \in [Trees -> Seq(Operators)]
          BY <1>2, <1>4, <4>3, ResetTrees
        <5> QED BY <4>4, <5>1
      <4>6. IsFiniteSet(Spots(F, g, v)) /\ m \in Nat
        BY <4>3, <4>4, <4>5, FS_Subset, SpotsFinite
      <4>7. Spots(Next_pop, g, v) \subseteq Spots(F, g, v)
        <5>1. Next_pop \subseteq F
          BY <4>3
        <5> QED BY <5>1, SpotsWithin
      <4>8. Cardinality(Spots(Next_pop, g, v)) <= m
        BY <4>3, <4>6, <4>7, FS_Subset
      <4>9. n <= m
        BY <2>1, <4>3, <4>8, Zenon
      <4>10. BackedBy(n, m, n)
        BY <2>1, <4>6, <4>9 DEF BackedBy
      <4>11. Inc(v)' = Inc(v)
        BY DEF Inc
      <4>12. /\ Occurs(todo'[Main], Inc(v)') = n
             /\ Cardinality(Spots(Filling(Main)', ops', v)) = m
             /\ Cardinality(Spots(Current', ops', v)) = n
        BY <1>6, <2>1, <2>2, <4>1, <4>2, <4>3, <4>11, Zenon
      <4> QED BY <4>10, <4>12, Zenon DEF Backed
    <3> QED BY <3>1, <3>2
  <2> QED BY <2>3, <2>4
<1>9. ops' \in [Trees -> Seq(Operators)] /\ \A tr \in Trees : Len(ops'[tr]) <= MaxLen
  BY <1>2, <1>4, ResetTrees
<1>10. /\ generation' \in 0..MaxGen /\ bred' \subseteq Next_pop
       /\ count' \in [Values -> Nat] /\ life' \in [Values -> {"unborn", "live", "dropped"}]
       /\ phase' \in {"breed", "exit", "destroy"}
  BY <1>3, <1>4, <1>6, BoundsAssumption DEF Typed
<1>11. Edits(Main, A)
  BY <1>3, <1>4, <1>6, <1>7, <1>8, <1>9, <1>10 DEF Edits, Free
<1> QED BY <1>4, <1>11, EditKeeps

\* The first state, with the values it begins with and the copies' trees.
Begins(born, mirror) ==
    /\ born \in [PopA -> Values] /\ IsInjective(born)
    /\ mirror = CHOOSE g \in [PopB -> PopA] : IsInjective(g)
    /\ ops = [tr \in Trees |-> IF tr \in PopA THEN <<born[tr]>>
                               ELSE IF tr \in PopB THEN <<born[mirror[tr]]>>
                               ELSE <<>>]
    /\ count = [v \in Values |-> IF \E a \in PopA : born[a] = v THEN 2 ELSE 0]
    /\ life = [v \in Values |-> IF \E a \in PopA : born[a] = v THEN "live" ELSE "unborn"]

\* Init is such a state.
LEMMA InitBegins ==
    ASSUME Init
    PROVE  \E born, mirror : Begins(born, mirror)
<1>1. setting \in Settings
  BY DEF Init
<1> DEFINE b == CHOOSE f \in [PopA -> Values] : IsInjective(f)
           m == CHOOSE g \in [PopB -> PopA] : IsInjective(g)
<1>2. b \in [PopA -> Values] /\ IsInjective(b)
  BY <1>1, Config
<1>3. /\ ops = [tr \in Trees |-> IF tr \in PopA THEN <<b[tr]>>
                                 ELSE IF tr \in PopB THEN <<b[m[tr]]>>
                                 ELSE <<>>]
      /\ count = [v \in Values |-> IF \E a \in PopA : b[a] = v THEN 2 ELSE 0]
      /\ life = [v \in Values |-> IF \E a \in PopA : b[a] = v THEN "live" ELSE "unborn"]
  BY DEF Init
<1>4. m = CHOOSE g \in [PopB -> PopA] : IsInjective(g)
  BY DEF m
<1> HIDE DEF b, m
<1>5. Begins(b, m)
  BY <1>2, <1>3, <1>4 DEF Begins
<1> QED BY <1>5

\* The first trees: one value each in PopA, the same ones in PopB.
LEMMA FirstState ==
    ASSUME setting \in Settings, NEW born, NEW mirror, Begins(born, mirror)
    PROVE  /\ ops \in [Trees -> Seq(Operators)] /\ \A tr \in Trees : Len(ops[tr]) <= MaxLen
           /\ \A tr \in PopA : ops[tr] = <<born[tr]>>
           /\ \A tr \in PopB : ops[tr] = ops[mirror[tr]]
           /\ \A tr \in Scratch : ops[tr] = <<>>
           /\ FirstTrees(PopA, ops)
<1>1. /\ Trees = PopA \cup PopB \cup Scratch /\ Apart(PopA, PopB) /\ MaxLen \in Nat \ {0}
      /\ Scratch = {MyTree(t) : t \in Threads} /\ \A t \in Threads : MyTree(t) \notin PopA \cup PopB
      /\ IsFiniteSet(PopA) /\ IsFiniteSet(PopB) /\ Cardinality(PopA) = Cardinality(PopB)
      /\ Plain \notin Values
  BY Config
<1>2. mirror \in [PopB -> PopA]
  BY <1>1, Onto DEF Begins
<1>3. born \in [PopA -> Values] /\ \A a, c \in PopA : born[a] = born[c] => a = c
  BY DEF Begins, IsInjective
<1>4. /\ \A tr \in PopA : tr \in Trees
      /\ \A tr \in PopB : tr \in Trees /\ tr \notin PopA
      /\ \A tr \in Scratch : tr \in Trees /\ tr \notin PopA /\ tr \notin PopB
  BY <1>1 DEF Apart
<1>5. ops = [tr \in Trees |-> IF tr \in PopA THEN <<born[tr]>>
                              ELSE IF tr \in PopB THEN <<born[mirror[tr]]>>
                              ELSE <<>>]
  BY DEF Begins
<1>6. /\ \A tr \in PopA : ops[tr] = <<born[tr]>>
      /\ \A tr \in PopB : ops[tr] = <<born[mirror[tr]]>>
      /\ \A tr \in Scratch : ops[tr] = <<>>
  BY <1>4, <1>5
<1>7. \A tr \in PopB : ops[tr] = ops[mirror[tr]]
  BY <1>2, <1>6
<1>8. \A tr \in PopA : \E x \in Operators : ops[tr] = <<x>>
  BY <1>3, <1>6 DEF Operators
<1>9. \A x \in Operators : <<x>> \in Seq(Operators) /\ Len(<<x>>) = 1
  OBVIOUS
<1>10. ASSUME NEW tr \in Trees PROVE ops[tr] \in Seq(Operators) /\ Len(ops[tr]) <= MaxLen
  <2>1. 1 <= MaxLen /\ 0 <= MaxLen /\ <<>> \in Seq(Operators) /\ Len(<<>>) = 0
    BY <1>1
  <2>2. CASE tr \in PopA
    BY <1>8, <1>9, <2>1, <2>2, Zenon
  <2>3. CASE tr \in PopB
    <3>1. mirror[tr] \in PopA /\ ops[tr] = ops[mirror[tr]]
      BY <1>2, <1>7, <2>3
    <3> QED BY <1>8, <1>9, <2>1, <3>1, Zenon
  <2>4. CASE tr \in Scratch
    BY <1>6, <2>1, <2>4, Zenon
  <2> QED BY <1>1, <2>2, <2>3, <2>4
<1>11. ops \in [Trees -> Seq(Operators)]
  BY <1>5, <1>10
<1>12. ASSUME NEW tr \in PopA, NEW other \in PopA, ops[tr] = ops[other], tr # other PROVE FALSE
  <2>1. born[tr] = born[other]
    BY <1>6, <1>12
  <2> QED BY <1>3, <1>12, <2>1
<1>13. FirstTrees(PopA, ops)
  BY <1>8, <1>12 DEF FirstTrees
<1> QED BY <1>6, <1>7, <1>10, <1>11, <1>13

\* What they hold.
LEMMA FirstHeld ==
    ASSUME setting \in Settings, NEW born, NEW mirror, Begins(born, mirror), NEW v \in Values
    PROVE  Held(v) = IF \E a \in PopA : born[a] = v THEN 2 ELSE 0
<1>1. /\ \A tr \in PopA : ops[tr] = <<born[tr]>>
      /\ \A tr \in PopB : ops[tr] = ops[mirror[tr]]
      /\ \A tr \in Scratch : ops[tr] = <<>>
      /\ FirstTrees(PopA, ops)
  BY FirstState
<1>2. /\ IsFiniteSet(PopA) /\ IsFiniteSet(PopB) /\ Cardinality(PopA) = Cardinality(PopB)
      /\ Apart(PopA, PopB) /\ Plain \notin Values /\ PopA \subseteq Trees
  BY Config
<1>3. \A tr \in Trees : Len(ops[tr]) \in Nat
  <2>1. ops \in [Trees -> Seq(Operators)]
    BY FirstState
  <2> QED BY <2>1
<1>4. PICK n : n = Cardinality(Spots(PopA, ops, v))
  OBVIOUS
<1>5. n = IF \E a \in PopA : born[a] = v THEN 1 ELSE 0
  <2>1. v # Plain
    BY <1>2
  <2>2. Cardinality(Spots(PopA, ops, v)) = IF \E tr \in PopA : ops[tr] = <<v>> THEN 1 ELSE 0
    <3>1. PICK C, f : C = PopA /\ f = ops
      OBVIOUS
    <3>2. FirstTrees(C, f) /\ IsFiniteSet(C)
      BY <1>1, <1>2, <3>1, Zenon
    <3>3. Cardinality(Spots(C, f, v)) = IF \E tr \in C : f[tr] = <<v>> THEN 1 ELSE 0
      BY <2>1, <3>2, FirstSpots
    <3> QED BY <3>1, <3>3, Zenon
  <2>3. \A tr \in PopA : ops[tr] = <<v>> <=> born[tr] = v
    BY <1>1
  <2> QED BY <1>4, <2>2, <2>3, Zenon
<1>6. Cardinality(Spots(PopB, ops, v)) = n
  <2>1. PICK C, N : C = PopA /\ N = PopB
    OBVIOUS
  <2>2. /\ IsFiniteSet(C) /\ IsFiniteSet(N) /\ Cardinality(C) = Cardinality(N)
        /\ \A tr \in C : Len(ops[tr]) \in Nat
    BY <1>2, <1>3, <2>1
  <2>3. mirror = CHOOSE g \in [N -> C] : IsInjective(g)
    BY <2>1, Zenon DEF Begins
  <2>4. \A tr \in N : ops[tr] = ops[(CHOOSE g \in [N -> C] : IsInjective(g))[tr]]
    BY <1>1, <2>1, <2>3, Zenon
  <2>5. Cardinality(Spots(N, ops, v)) = Cardinality(Spots(C, ops, v))
    BY <2>2, <2>4, CopySpots
  <2> QED BY <1>4, <2>1, <2>5, Zenon
<1>7. Cardinality(Spots(Scratch, ops, v)) = 0
  <2>1. \A tr \in Scratch : Len(ops[tr]) \in Nat /\ Occurs(ops[tr], v) = 0
    <3>1. Occurs(<<>>, v) = 0 /\ Len(<<>>) \in Nat
      BY OccursFew
    <3> QED BY <1>1, <3>1, Zenon
  <2> QED BY <2>1, NoSpots, Zenon
<1>8. Cardinality(Spots(Trees, ops, v)) = (Cardinality(Spots(PopA, ops, v)) + Cardinality(Spots(PopB, ops, v)))
                                             + Cardinality(Spots(Scratch, ops, v))
  BY <1>2, <1>3, HeldSum
<1>9. Held(v) = (n + n) + 0
  BY <1>4, <1>6, <1>7, <1>8, Zenon DEF Held
<1> QED BY <1>5, <1>9

\* The invariant holds in the first state.
LEMMA InitOK ==
    ASSUME Init
    PROVE  IInv
<1>1. PICK born, mirror : Begins(born, mirror)
  BY InitBegins
<1>2. /\ setting \in Settings /\ bred = {} /\ front = TRUE /\ phase = "breed" /\ generation = 0
      /\ drops = [v \in Values |-> 0] /\ todo = [t \in Threads |-> <<>>]
      /\ slot = [t \in Threads |-> {}]
  BY DEF Init
<1>3. /\ ops \in [Trees -> Seq(Operators)] /\ \A tr \in Trees : Len(ops[tr]) <= MaxLen
  BY <1>1, <1>2, FirstState
<1>4. /\ count = [v \in Values |-> IF \E a \in PopA : born[a] = v THEN 2 ELSE 0]
      /\ life = [v \in Values |-> IF \E a \in PopA : born[a] = v THEN "live" ELSE "unborn"]
  BY <1>1 DEF Begins
<1>5. /\ count \in [Values -> Nat] /\ life \in [Values -> {"unborn", "live", "dropped"}]
      /\ drops \in [Values -> Nat] /\ generation \in 0..MaxGen
  BY <1>2, <1>4, BoundsAssumption
<1>6. /\ todo \in [Threads -> Seq(Accesses)] /\ slot \in [Threads -> SUBSET Next_pop]
      /\ \A t \in Threads : todo[t] = <<>> /\ slot[t] = {}
  BY <1>2
<1>7. Typed
  BY <1>2, <1>3, <1>5, <1>6 DEF Typed
<1>8. Discipline
  BY <1>2, <1>6 DEF Discipline, Apart
<1>9. ASSUME NEW t \in Threads, NEW v \in Values PROVE Backed(t, v)
  <2>1. Occurs(todo[t], Inc(v)) = 0
    BY <1>6, OccursFew, Zenon
  <2> QED BY <2>1, Zenon DEF Backed, BackedBy
<1>10. \A w : Owed(w) = 0
  <2> SUFFICES ASSUME NEW w PROVE Owed(w) = 0
    OBVIOUS
  <2>1. \A t \in Threads : Len(todo[t]) \in Nat /\ Occurs(todo[t], w) = 0
    <3>1. Occurs(<<>>, w) = 0 /\ Len(<<>>) \in Nat
      BY OccursFew
    <3> QED BY <1>6, <3>1, Zenon
  <2> QED BY <2>1, NoSpots, Zenon DEF Owed
<1>11. ASSUME NEW v \in Values PROVE ValueOK(v)
  <2>1. Held(v) = IF \E a \in PopA : born[a] = v THEN 2 ELSE 0
    BY <1>1, <1>2, FirstHeld
  <2>2. drops[v] = 0
    BY <1>2
  <2>3. CASE \E a \in PopA : born[a] = v
    <3>1. life[v] = "live" /\ count[v] = 2 /\ Held(v) = 2
      BY <1>4, <2>1, <2>3
    <3>2. LiveOK(2, 2, 0, 0, 0, 0)
      BY DEF LiveOK
    <3> QED BY <1>10, <2>2, <3>1, <3>2, Zenon DEF ValueOK
  <2>4. CASE ~\E a \in PopA : born[a] = v
    <3>1. life[v] = "unborn" /\ life[v] # "live" /\ Held(v) = 0
      BY <1>4, <2>1, <2>4
    <3>2. GoneOK(0, 0, 0, 0, 0, life[v] = "unborn", Alone)
      BY DEF GoneOK
    <3> QED BY <1>10, <2>2, <3>1, <3>2, Zenon DEF ValueOK
  <2> QED BY <2>3, <2>4
<1> QED BY <1>7, <1>8, <1>9, <1>11 DEF IInv

-----------------------------------------------------------------------------
(* The theorems.                                                           *)

\* Every step keeps the invariant.
LEMMA NextKeeps ==
    ASSUME IInv, [Next]_vars
    PROVE  IInv'
<1>1. ASSUME NEW t \in Threads, Count(t) PROVE IInv'
  <2>1. CASE Increment(t)
    BY <2>1, IncrementKeeps
  <2>2. CASE Decrement(t)
    BY <2>2, DecrementKeeps
  <2>3. CASE TestDrop(t)
    BY <2>3, TestDropKeeps
  <2>4. CASE TestKeep(t)
    BY <2>4, TestKeepKeeps
  <2> QED BY <1>1, <2>1, <2>2, <2>3, <2>4 DEF Count
<1>2. ASSUME NEW t \in Threads, Edit(t) PROVE IInv'
  <2>1. CASE TakeSlots(t)
    BY <2>1, TakeSlotsKeeps
  <2>2. CASE CopyParent(t)
    BY <2>2, CopyParentKeeps
  <2>3. CASE SwapSubtrees(t)
    BY <2>3, SwapSubtreesKeeps
  <2>4. CASE FinishSlots(t)
    BY <2>4, FinishSlotsKeeps
  <2>5. CASE ClearScratch(t)
    BY <2>5, ClearScratchKeeps
  <2>6. CASE GenerateScratch(t)
    BY <2>6, GenerateScratchKeeps
  <2>7. CASE CopySubtree(t)
    BY <2>7, CopySubtreeKeeps
  <2>8. CASE ReplaceSubtree(t)
    BY <2>8, ReplaceSubtreeKeeps
  <2>9. CASE ModifyOperator(t)
    BY <2>9, ModifyOperatorKeeps
  <2>10. CASE SwapWithScratch(t)
    BY <2>10, SwapWithScratchKeeps
  <2> QED BY <1>2, <2>1, <2>2, <2>3, <2>4, <2>5, <2>6, <2>7, <2>8, <2>9, <2>10 DEF Edit
<1>3. ASSUME NEW t \in Threads, ExitThread(t) PROVE IInv'
  BY <1>3, ExitThreadKeeps
<1>4. CASE SwapPopulations
  BY <1>4, OwnerStepKeeps
<1>5. CASE Reset
  BY <1>5, ResetKeeps
<1>6. CASE BeginExit
  BY <1>6, OwnerStepKeeps
<1>7. CASE DestroyTree
  BY <1>7, DestroyTreeKeeps
<1>8. CASE Destroyed
  BY <1>8, StutterKeeps DEF Destroyed
<1>9. CASE UNCHANGED vars
  BY <1>9, StutterKeeps
<1> QED BY <1>1, <1>2, <1>3, <1>4, <1>5, <1>6, <1>7, <1>8, <1>9, Zenon DEF Next

\* Counters are exact, up to what the running operations owe, at zero a test
\* is to come, and what is to be counted in is held elsewhere too.
THEOREM InvariantHolds == Spec => []IInv
<1>1. Init => IInv
  BY InitOK
<1>2. IInv /\ [Next]_vars => IInv'
  BY NextKeeps
<1> QED BY <1>1, <1>2, PTL DEF Spec

\* The model's places are those counted here.
LEMMA PlacesAre ==
    ASSUME IInv
    PROVE  /\ \A v : Holders(v) = Spots(Trees, ops, v)
           /\ \A kind, v : Pending(kind, v) = Spots(Threads, todo, [kind |-> kind, of |-> v])
<1>1. DOMAIN ops = Trees /\ DOMAIN todo = Threads
  BY DEF IInv, Typed
<1>2. \A D, f, v : DOMAIN f = D => Places(f, v) = Spots(D, f, v)
  BY Zenon DEF Places, Spots, Where
<1> QED BY <1>1, <1>2, Zenon DEF Holders, Pending

\* Holds and debts as the invariant counts them.
LEMMA Numbers ==
    ASSUME IInv, NEW v \in Values
    PROVE  /\ Cardinality(Holders(v)) = Held(v) /\ Held(v) \in Nat /\ count[v] \in Nat
           /\ Held(v) # 0 <=> Holders(v) # {}
           /\ Cardinality(Pending("inc", v)) = Owed(Inc(v)) /\ Owed(Inc(v)) \in Nat
           /\ Cardinality(Pending("dec", v)) = Owed(Dec(v)) /\ Owed(Dec(v)) \in Nat
<1>1. Typed
  BY DEF IInv
<1>2. /\ Holders(v) = Spots(Trees, ops, v)
      /\ Pending("inc", v) = Spots(Threads, todo, Inc(v))
      /\ Pending("dec", v) = Spots(Threads, todo, Dec(v))
  BY PlacesAre DEF Inc, Dec
<1>3. Held(v) \in Nat /\ Owed(Inc(v)) \in Nat /\ Owed(Dec(v)) \in Nat
  BY <1>1, Countable
<1>4. IsFiniteSet(Spots(Trees, ops, v))
  BY <1>1, Countable
<1>5. Cardinality(Spots(Trees, ops, v)) = 0 <=> Spots(Trees, ops, v) = {}
  BY <1>4, FS_EmptySet
<1>6. count[v] \in Nat
  BY <1>1 DEF Typed
<1> QED BY <1>2, <1>3, <1>5, <1>6, Zenon DEF Held, Owed

\* Counters, trees and lists are what the code can hold.
THEOREM TypesHold == Spec => []TypeOK
<1>1. ASSUME IInv PROVE TypeOK
  <2>1. Typed
    BY <1>1 DEF IInv
  <2>2. ops \in [Trees -> BoundedSeq(Values \cup {Plain}, MaxLen)]
    <3>1. ASSUME NEW s \in Seq(Operators), Len(s) <= MaxLen PROVE s \in BoundedSeq(Operators, MaxLen)
      <4>1. MaxLen \in Nat
        BY <2>1, Config DEF Typed
      <4>2. Len(s) \in 0..MaxLen /\ s \in [1..Len(s) -> Operators]
        BY <3>1, <4>1
      <4>3. \E n \in 0..MaxLen : s \in [1..n -> Operators]
        BY <4>2
      <4> QED BY <4>3 DEF BoundedSeq, SeqOf
    <3>2. \A tr \in Trees : ops[tr] \in BoundedSeq(Operators, MaxLen)
      BY <2>1, <3>1 DEF Typed
    <3> QED BY <2>1, <3>2 DEF Typed, Operators
  <2>3. ASSUME NEW t \in Threads, NEW i \in 1..Len(todo[t])
        PROVE  todo[t][i] \in [kind : {"inc", "dec", "test"}, of : Values]
    <3>1. todo[t] \in Seq(Accesses)
      BY <2>1 DEF Typed
    <3>2. todo[t][i] \in Accesses
      BY <3>1
    <3> QED BY <3>2 DEF Accesses, AccessesTo
  <2>4. slot \in [Threads -> SUBSET (PopA \cup PopB)]
    <3>1. Next_pop \subseteq PopA \cup PopB
      BY DEF Next_pop
    <3> QED BY <2>1, <3>1 DEF Typed
  <2> QED BY <2>1, <2>2, <2>3, <2>4 DEF TypeOK, Typed
<1> QED BY <1>1, InvariantHolds, PTL

\* A counter and the counts that running operations owe give the number of
\* operators that hold the value, over all trees: the copies, edits, swaps,
\* resets and ends of src/tree.cpp count what they change.
THEOREM CountersAreExact == Spec => []CounterExact
<1>1. ASSUME IInv PROVE CounterExact
  <2> SUFFICES ASSUME NEW v \in Values, life[v] = "live"
               PROVE  count[v] + Cardinality(Pending("inc", v)) - Cardinality(Pending("dec", v))
                        = Cardinality(Holders(v))
    BY DEF CounterExact
  <2>1. LiveOK(Held(v), count[v], Owed(Inc(v)), Owed(Dec(v)), Owed(Test(v)), drops[v])
    BY <1>1 DEF IInv, ValueOK
  <2>2. count[v] + Owed(Inc(v)) = Held(v) + Owed(Dec(v))
    BY <2>1 DEF LiveOK
  <2>3. PICK h, c, m, d : /\ h = Held(v) /\ c = count[v] /\ m = Owed(Inc(v)) /\ d = Owed(Dec(v))
    OBVIOUS
  <2>4. h \in Nat /\ c \in Nat /\ m \in Nat /\ d \in Nat /\ c + m = h + d
    BY <1>1, <2>2, <2>3, Numbers
  <2>5. c + m - d = h
    BY <2>4
  <2>6. /\ Cardinality(Holders(v)) = h /\ Cardinality(Pending("inc", v)) = m
        /\ Cardinality(Pending("dec", v)) = d
    BY <1>1, <2>3, Numbers, Zenon
  <2> QED BY <2>3, <2>5, <2>6, Zenon
<1> QED BY <1>1, InvariantHolds, PTL

\* No tree holds a value that was dropped, whichever thread drops it: no
\* evaluation reads one.
THEOREM HeldValuesLive == Spec => []HeldIsLive
<1>1. ASSUME IInv PROVE HeldIsLive
  BY <1>1, Numbers, CountedIsLive DEF HeldIsLive
<1> QED BY <1>1, InvariantHolds, PTL

\* When no operation runs and no slot is taken every live value is held: none
\* is lost without drop().
THEOREM NothingIsLost == Spec => []NothingLeaks
<1>1. ASSUME IInv PROVE NothingLeaks
  <2> SUFFICES ASSUME Quiet, NEW v \in Values, life[v] = "live" PROVE Holders(v) # {}
    BY DEF NothingLeaks
  <2>1. LiveOK(Held(v), count[v], Owed(Inc(v)), Owed(Dec(v)), Owed(Test(v)), drops[v])
    BY <1>1 DEF IInv, ValueOK
  <2>2. \A w : Owed(w) = 0
    <3> SUFFICES ASSUME NEW w PROVE Owed(w) = 0
      OBVIOUS
    <3>1. \A t \in Threads : Len(todo[t]) \in Nat /\ Occurs(todo[t], w) = 0
      <4>1. Occurs(<<>>, w) = 0 /\ Len(<<>>) \in Nat
        BY OccursFew
      <4> QED BY <4>1, Zenon DEF Quiet, Free
    <3> QED BY <3>1, NoSpots, Zenon DEF Owed
  <2>3. count[v] + 0 = Held(v) + 0 /\ count[v] # 0
    BY <2>1, <2>2, Zenon DEF LiveOK
  <2>4. Held(v) # 0
    BY <1>1, <2>3, Numbers
  <2> QED BY <1>1, <2>4, Numbers
<1> QED BY <1>1, InvariantHolds, PTL

\* A program of one thread drops no value twice, though the decrement of a
\* counter and its test are two accesses.
THEOREM AloneDropsOnce == Spec => []DroppedOnceAlone
<1>1. ASSUME IInv PROVE DroppedOnceAlone
  <2> SUFFICES ASSUME Alone, NEW v \in Values PROVE drops[v] <= 1
    BY DEF DroppedOnceAlone, DroppedOnce
  <2>1. ValueOK(v)
    BY <1>1 DEF IInv
  <2>2. CASE life[v] = "live"
    <3>1. drops[v] = 0
      BY <2>1, <2>2, Zenon DEF ValueOK, LiveOK
    <3> QED BY <3>1
  <2>3. CASE life[v] # "live"
    BY <2>1, <2>3, Zenon DEF ValueOK, GoneOK
  <2> QED BY <2>2, <2>3
<1> QED BY <1>1, InvariantHolds, PTL

\* No thread counts a value in or out after its counter was deleted; in a
\* program of one thread none is tested after that either.
THEOREM CountersOutliveUse == Spec => []CounterOutlivesUse
<1>1. ASSUME IInv PROVE CounterOutlivesUse
  <2> SUFFICES ASSUME NEW t \in Threads, todo[t] # <<>>, Alone \/ Head(todo[t]).kind # "test"
               PROVE  life[Head(todo[t]).of] = "live"
    BY DEF CounterOutlivesUse
  <2>1. PICK kind : kind = Head(todo[t]).kind
    OBVIOUS
  <2>2. PICK v \in Values : /\ Head(todo[t]).of = v /\ Head(todo[t]) = [kind |-> kind, of |-> v]
                            /\ Owed([kind |-> kind, of |-> v]) # 0
    BY <1>1, <2>1, AccessAtHead DEF Doing
  <2>3. kind \in {"inc", "dec", "test"}
    <3>1. Head(todo[t]) \in Accesses
      BY <1>1, AtHead
    <3> QED BY <2>1, <3>1 DEF Accesses, AccessesTo
  <2>4. CASE kind = "inc"
    <3>1. Owed(Inc(v)) # 0
      BY <2>2, <2>4 DEF Inc
    <3> QED BY <1>1, <2>2, <3>1, CountedIsLive
  <2>5. CASE kind = "dec"
    <3>1. Owed(Dec(v)) # 0
      BY <2>2, <2>5 DEF Dec
    <3> QED BY <1>1, <2>2, <3>1, CountedIsLive
  <2>6. CASE kind = "test"
    <3>1. Alone /\ Owed(Test(v)) # 0
      BY <2>1, <2>2, <2>6 DEF Test
    <3>2. ValueOK(v)
      BY <1>1 DEF IInv
    <3> QED BY <2>2, <3>1, <3>2, Zenon DEF ValueOK, GoneOK
  <2> QED BY <2>3, <2>4, <2>5, <2>6
<1> QED BY <1>1, InvariantHolds, PTL

=============================================================================
