------------------------- MODULE SerializationProofs -------------------------
(***************************************************************************)
(* Loading a saved program restores it, or leaves the loader as it was:    *)
(* for any number of operators, statistics and individuals.                *)
(***************************************************************************)
EXTENDS Serialization, SequenceLemmas

-----------------------------------------------------------------------------
(* Where the fields of a program lie in what is written.                   *)

\* What the layout depends on.
IsProgram(p) ==
    /\ Len(p.operators) \in Nat
    /\ p.operators = [k \in 1..Len(p.operators) |->
                        [name |-> p.operators[k].name, types |-> p.operators[k].types]]
    /\ Len(p.history) \in Nat
    /\ p.history = [k \in 1..Len(p.history) |-> p.history[k]]
    /\ Len(p.pop) \in Nat
    /\ p.pop = [k \in 1..Len(p.pop) |->
                  [fitness |-> p.pop[k].fitness, tree |-> p.pop[k].tree]]
    /\ p = [operators |-> p.operators, history |-> p.history,
            stats |-> p.stats, pop |-> p.pop]

\* A function on 1..n is a sequence of length n.
LEMMA FunctionLength ==
    ASSUME NEW V, NEW n \in Nat, NEW f \in [1..n -> V]
    PROVE  f \in Seq(V) /\ Len(f) = n
OBVIOUS

\* Both the saving and the loading program have that layout.
LEMMA ProgramsAre ==
    ASSUME NEW v, NEW m \in Nat, NEW p \in Programs(v, m)
    PROVE  IsProgram(p)
<1>1. /\ p.operators \in OperatorTables /\ p.stats = <<v, 0>>
      /\ p = [operators |-> p.operators, history |-> p.history,
              stats |-> p.stats, pop |-> p.pop]
  BY DEF Programs
<1>2. Len(p.operators) \in Nat
      /\ p.operators = [k \in 1..Len(p.operators) |->
                          [name |-> p.operators[k].name, types |-> p.operators[k].types]]
  BY <1>1, SerializationAssumption
<1>3. PICK h \in 0..MaxHistory : p.history = [j \in 1..h |-> <<v, j>>]
  BY DEF Programs, Stats
<1>4. PICK n \in m..MaxPop : p.pop = [j \in 1..n |-> [fitness |-> <<v, j>>, tree |-> <<v, j>>]]
  BY DEF Programs, Individuals
<1>5. h \in Nat /\ n \in Nat
  BY SerializationAssumption
<1>6. Len(p.history) = h
  <2>1. p.history \in [1..h -> {<<v, j>> : j \in 1..h}]
    BY <1>3
  <2> QED BY <1>5, <2>1, FunctionLength
<1>7. Len(p.pop) = n
  <2>1. p.pop \in [1..n -> {[fitness |-> <<v, j>>, tree |-> <<v, j>>] : j \in 1..n}]
    BY <1>4
  <2> QED BY <1>5, <2>1, FunctionLength
<1>8. p.history = [k \in 1..Len(p.history) |-> p.history[k]]
  BY <1>3, <1>6
<1>9. p.pop = [k \in 1..Len(p.pop) |-> [fitness |-> p.pop[k].fitness, tree |-> p.pop[k].tree]]
  BY <1>4, <1>7
<1> QED BY <1>1, <1>2, <1>5, <1>6, <1>7, <1>8, <1>9 DEF IsProgram

\* The values that a program writes, and the fields that carry them.
Values(p) ==
    Nat \cup BOOLEAN
    \cup {p.operators[k].name : k \in 1..Len(p.operators)}
    \cup {p.operators[k].types : k \in 1..Len(p.operators)}
    \cup {p.history[k] : k \in 1..Len(p.history)} \cup {p.stats}
    \cup {p.pop[k].fitness : k \in 1..Len(p.pop)}
    \cup {p.pop[k].tree : k \in 1..Len(p.pop)}

Kinds == {"count", "index", "has_name", "name", "types", "stat", "fitness", "tree"}
Fields(p) == {Field(kind, value) : kind \in Kinds, value \in Values(p)}

\* A field has the kind and the value it was made with.
LEMMA FieldIs ==
    ASSUME NEW kind, NEW value
    PROVE  Field(kind, value).kind = kind /\ Field(kind, value).value = value
BY DEF Field

\* What is written of a program consists of its fields.
LEMMA FieldsAre ==
    ASSUME NEW p, NEW kind \in Kinds, NEW value \in Values(p)
    PROVE  Field(kind, value) \in Fields(p)
BY DEF Fields

\* Adding the name, or the types of an operator without one.
LEMMA TwoAndOne ==
    ASSUME NEW V, NEW s \in Seq(V), NEW u \in Seq(V)
    PROVE  Len(s) = 2 /\ Len(u) = 1 =>
             /\ s \o u \in Seq(V) /\ Len(s \o u) = 3 /\ (s \o u)[3] = u[1]
             /\ (s \o u)[1] = s[1] /\ (s \o u)[2] = s[2]
<1>1. PICK t : t = s \o u
  OBVIOUS
<1>2. /\ t \in Seq(V) /\ Len(t) = Len(s) + Len(u)
      /\ \A k \in 1..Len(s) : t[k] = s[k]
      /\ \A k \in 1..Len(u) : t[Len(s) + k] = u[k]
  BY <1>1, Joined
<1>3. Len(s) = 2 /\ Len(u) = 1 =>
        t \in Seq(V) /\ Len(t) = 3 /\ t[3] = u[1] /\ t[1] = s[1] /\ t[2] = s[2]
  BY <1>2
<1> QED BY <1>1, <1>3, Zenon

\* Adding the types behind the name.
LEMMA ThreeAndOne ==
    ASSUME NEW V, NEW s \in Seq(V), NEW u \in Seq(V)
    PROVE  Len(s) = 3 /\ Len(u) = 1 =>
             /\ s \o u \in Seq(V) /\ Len(s \o u) = 4 /\ (s \o u)[4] = u[1]
             /\ (s \o u)[1] = s[1] /\ (s \o u)[2] = s[2] /\ (s \o u)[3] = s[3]
<1>1. PICK t : t = s \o u
  OBVIOUS
<1>2. /\ t \in Seq(V) /\ Len(t) = Len(s) + Len(u)
      /\ \A k \in 1..Len(s) : t[k] = s[k]
      /\ \A k \in 1..Len(u) : t[Len(s) + k] = u[k]
  BY <1>1, Joined
<1>3. Len(s) = 3 /\ Len(u) = 1 =>
        t \in Seq(V) /\ Len(t) = 4 /\ t[4] = u[1] /\ t[1] = s[1] /\ t[2] = s[2] /\ t[3] = s[3]
  BY <1>2
<1> QED BY <1>1, <1>3, Zenon

\* An operator is three fields, or four if it has a name.
LEMMA OperatorFieldsAre ==
    ASSUME NEW p, NEW j \in 1..Len(p.operators), Len(p.operators) \in Nat
    PROVE  LET op == p.operators[j]
               fields == OperatorFields(op, j)
           IN  /\ fields \in Seq(Fields(p))
               /\ fields[1] = Field("index", j)
               /\ fields[2] = Field("has_name", op.name # NoName)
               /\ op.name # NoName =>
                    /\ Len(fields) = 4
                    /\ fields[3] = Field("name", op.name)
                    /\ fields[4] = Field("types", op.types)
               /\ op.name = NoName =>
                    Len(fields) = 3 /\ fields[3] = Field("types", op.types)
<1> DEFINE op == p.operators[j]
           one == Field("index", j)
           two == Field("has_name", op.name # NoName)
           three == Field("name", op.name)
           four == Field("types", op.types)
<1>1. one \in Fields(p) /\ two \in Fields(p) /\ three \in Fields(p) /\ four \in Fields(p)
  <2>1. /\ j \in Values(p) /\ (op.name # NoName) \in Values(p)
        /\ op.name \in Values(p) /\ op.types \in Values(p)
    BY DEF Values
  <2>2. "index" \in Kinds /\ "has_name" \in Kinds /\ "name" \in Kinds /\ "types" \in Kinds
    BY DEF Kinds
  <2>3. one \in Fields(p)
    BY <2>1, <2>2, FieldsAre
  <2>4. two \in Fields(p)
    BY <2>1, <2>2, FieldsAre
  <2>5. three \in Fields(p)
    BY <2>1, <2>2, FieldsAre
  <2>6. four \in Fields(p)
    BY <2>1, <2>2, FieldsAre
  <2> QED BY <2>3, <2>4, <2>5, <2>6
<1>2. OperatorFields(op, j) = << one, two >> \o (IF op.name = NoName THEN <<>> ELSE << three >>)
                                 \o << four >>
  BY DEF OperatorFields
<1> HIDE DEF one, two, three, four
<1>3. PICK ab, c, d : ab = << one, two >> /\ c = << three >> /\ d = << four >>
  OBVIOUS
<1>4. /\ ab \in Seq(Fields(p)) /\ Len(ab) = 2 /\ ab[1] = one /\ ab[2] = two
      /\ c \in Seq(Fields(p)) /\ Len(c) = 1 /\ c[1] = three
      /\ d \in Seq(Fields(p)) /\ Len(d) = 1 /\ d[1] = four
  BY <1>1, <1>3
<1>5. OperatorFields(op, j) = ab \o (IF op.name = NoName THEN <<>> ELSE c) \o d
  BY <1>2, <1>3, Zenon
<1>6. CASE op.name = NoName
  <2>1. OperatorFields(op, j) = ab \o d
    BY <1>4, <1>5, <1>6
  <2>2. /\ ab \o d \in Seq(Fields(p)) /\ Len(ab \o d) = 3
        /\ (ab \o d)[1] = one /\ (ab \o d)[2] = two /\ (ab \o d)[3] = four
    BY <1>4, TwoAndOne
  <2> QED BY <1>6, <2>1, <2>2 DEF one, two, three, four
<1>7. CASE op.name # NoName
  <2>1. OperatorFields(op, j) = (ab \o c) \o d
    BY <1>5, <1>7
  <2>2. PICK s : s = ab \o c
    OBVIOUS
  <2>3. /\ s \in Seq(Fields(p)) /\ Len(s) = 3
        /\ s[1] = one /\ s[2] = two /\ s[3] = three
    BY <1>4, <2>2, TwoAndOne
  <2>4. /\ s \o d \in Seq(Fields(p)) /\ Len(s \o d) = 4 /\ (s \o d)[4] = four
        /\ (s \o d)[1] = one /\ (s \o d)[2] = two /\ (s \o d)[3] = three
    BY <1>4, <2>3, ThreeAndOne
  <2>5. OperatorFields(op, j) = s \o d
    BY <2>1, <2>2
  <2> QED BY <1>7, <2>4, <2>5 DEF one, two, three, four
<1> QED BY <1>6, <1>7

-----------------------------------------------------------------------------

\* Where the j-th group of four fields starts.
LEMMA Offsets ==
    ASSUME NEW j \in Nat, NEW at0 \in Nat, at0 = 4 * j - 4, NEW l \in Nat, NEW m \in Nat,
           at0 + l <= m
    PROVE  /\ 4 * j - 3 + l <= 1 + m
           /\ \A x \in 1..l : at0 + x \in 1..m /\ 1 + (at0 + x) = 4 * j - 3 + x
OBVIOUS

\* As long as all operators before one have names, each took four fields.
LEMMA TableLayout ==
    ASSUME NEW p, IsProgram(p)
    PROVE  LET n == Len(p.operators)
               table == OperatorTableFields(p)
               Before(j) == \A k \in 1..(j - 1) : p.operators[k].name # NoName
           IN  /\ table \in Seq(Fields(p)) /\ Len(table) \in Nat \ {0}
               /\ table[1] = Field("count", n)
               /\ \A j \in 1..n : Before(j) =>
                    LET fields == OperatorFields(p.operators[j], j) IN
                    /\ 4 * j - 3 + Len(fields) <= Len(table)
                    /\ \A x \in 1..Len(fields) : table[4 * j - 3 + x] = fields[x]
               /\ Before(n + 1) => Len(table) = 1 + 4 * n
<1> DEFINE n == Len(p.operators)
           parts == [j \in DOMAIN p.operators |-> OperatorFields(p.operators[j], j)]
           flat == FlattenSeq(parts)
           Before(j) == \A k \in 1..(j - 1) : p.operators[k].name # NoName
           table == OperatorTableFields(p)
<1>1. n \in Nat /\ DOMAIN p.operators = 1..n
  BY DEF IsProgram
<1>2. \A j \in 1..n : /\ parts[j] = OperatorFields(p.operators[j], j)
                      /\ parts[j] \in Seq(Fields(p))
                      /\ p.operators[j].name # NoName => Len(parts[j]) = 4
  BY <1>1, OperatorFieldsAre
<1>3. parts \in Seq(Seq(Fields(p))) /\ Len(parts) = n
  <2>1. parts \in [1..n -> Seq(Fields(p))]
    BY <1>1, <1>2
  <2> HIDE DEF parts
  <2> QED BY <1>1, <2>1, FunctionLength
<1> DEFINE one == Field("count", n)
<1>4. << one >> \in Seq(Fields(p)) /\ Len(<< one >>) = 1 /\ << one >>[1] = one
  <2>1. n \in Values(p) /\ "count" \in Kinds
    BY <1>1 DEF Values, Kinds
  <2>2. one \in Fields(p)
    BY <2>1, FieldsAre
  <2> QED BY <2>2
<1>5. table = << one >> \o flat
  BY DEF OperatorTableFields
<1> HIDE DEF parts, table, one
<1>6. flat \in Seq(Fields(p))
  <2>1. CASE n = 0
    <3>1. flat = parts /\ parts = <<>>
      BY <1>3, <2>1 DEF FlattenSeq
    <3> QED BY <3>1
  <2>2. CASE n # 0
    BY <1>3, <2>2, FlattenLayout
  <2> QED BY <2>1, <2>2
<1> HIDE DEF flat
<1>7. /\ table \in Seq(Fields(p)) /\ Len(table) = 1 + Len(flat) /\ Len(flat) \in Nat
      /\ table[1] = one
      /\ \A k \in 1..Len(flat) : table[1 + k] = flat[k]
  <2>1. PICK s \in Seq(Fields(p)) : s = << one >> /\ Len(s) = 1 /\ s[1] = one
    BY <1>4
  <2>2. /\ s \o flat \in Seq(Fields(p)) /\ Len(s \o flat) = Len(s) + Len(flat)
        /\ \A k \in 1..Len(s) : (s \o flat)[k] = s[k]
        /\ \A k \in 1..Len(flat) : (s \o flat)[Len(s) + k] = flat[k]
    BY <1>6, Joined
  <2>3. table = s \o flat
    BY <1>5, <2>1
  <2> QED BY <1>6, <2>1, <2>2, <2>3
<1>8. CASE n = 0
  <2>1. Len(flat) = 0
    <3>1. flat = parts /\ parts = <<>>
      BY <1>3, <1>8 DEF FlattenSeq, flat
    <3> QED BY <3>1
  <2>2. Len(table) = 1 + 4 * n /\ Len(table) \in Nat \ {0}
    BY <1>7, <1>8, <2>1
  <2>3. 1..n = {}
    BY <1>8
  <2> QED BY <1>7, <2>2, <2>3 DEF one, table
<1>9. CASE n # 0
  <2>1. PICK start \in [1..n -> Nat] :
          /\ start[1] = 0
          /\ \A j \in 1..n :
               /\ LaidIn(parts, start, j, flat)
               /\ j + 1 \in 1..n => start[j + 1] = start[j] + Len(parts[j])
               /\ j = n => Len(flat) = start[j] + Len(parts[j])
    <3> HIDE DEF n
    <3> QED BY <1>3, <1>9, FlattenLayout DEF flat
  <2> DEFINE T == {m \in Nat : m + 1 \in 1..n /\ Before(m + 1) => start[m + 1] = 4 * m}
  <2>2. 0 \in T
    BY <2>1
  <2>3. ASSUME NEW m \in Nat, m \in T PROVE m + 1 \in T
    <3> SUFFICES ASSUME (m + 1) + 1 \in 1..n, Before((m + 1) + 1)
                 PROVE  start[(m + 1) + 1] = 4 * (m + 1)
      OBVIOUS
    <3>1. m + 1 \in 1..n /\ Before(m + 1) /\ p.operators[m + 1].name # NoName
      BY <1>1
    <3>2. start[m + 1] = 4 * m /\ Len(parts[m + 1]) = 4
      BY <1>2, <2>3, <3>1
    <3>3. start[(m + 1) + 1] = start[m + 1] + Len(parts[m + 1])
      BY <2>1, <3>1
    <3> QED BY <3>2, <3>3
  <2>4. Nat \subseteq T
    <3> HIDE DEF T
    <3> QED BY <2>2, <2>3, Induction
  <2>5. ASSUME NEW j \in 1..n, Before(j) PROVE start[j] = 4 * j - 4
    <3>1. j - 1 \in Nat /\ (j - 1) + 1 = j
      BY <1>1
    <3>2. j - 1 \in T
      BY <2>4, <3>1
    <3>3. start[j] = 4 * (j - 1)
      BY <2>5, <3>1, <3>2
    <3> QED BY <3>1, <3>3
  <2> HIDE DEF T
  <2>6. ASSUME NEW j \in 1..n, Before(j)
        PROVE  /\ 4 * j - 3 + Len(parts[j]) <= Len(table)
               /\ \A x \in 1..Len(parts[j]) : table[4 * j - 3 + x] = parts[j][x]
    <3> HIDE DEF Before
    <3>1. /\ start[j] = 4 * j - 4 /\ start[j] \in Nat /\ j \in Nat
          /\ start[j] + Len(parts[j]) <= Len(flat) /\ Len(parts[j]) \in Nat
          /\ \A x \in 1..Len(parts[j]) : flat[start[j] + x] = parts[j][x]
      BY <1>1, <1>2, <2>1, <2>5, <2>6 DEF LaidIn
    <3>2. /\ 4 * j - 3 + Len(parts[j]) <= 1 + Len(flat)
          /\ \A x \in 1..Len(parts[j]) :
               start[j] + x \in 1..Len(flat) /\ 1 + (start[j] + x) = 4 * j - 3 + x
      <4>1. PICK at0 \in Nat, l \in Nat, m \in Nat :
              at0 = start[j] /\ l = Len(parts[j]) /\ m = Len(flat)
        BY <1>7, <3>1
      <4>2. j \in Nat /\ at0 = 4 * j - 4 /\ at0 + l <= m
        BY <3>1, <4>1
      <4>3. /\ 4 * j - 3 + l <= 1 + m
            /\ \A x \in 1..l : at0 + x \in 1..m /\ 1 + (at0 + x) = 4 * j - 3 + x
        BY <4>2, Offsets
      <4> QED BY <4>1, <4>3
    <3>3. ASSUME NEW x \in 1..Len(parts[j]) PROVE table[4 * j - 3 + x] = parts[j][x]
      <4>1. start[j] + x \in 1..Len(flat) /\ 1 + (start[j] + x) = 4 * j - 3 + x
        BY <3>2
      <4>2. table[1 + (start[j] + x)] = flat[start[j] + x]
        BY <1>7, <4>1
      <4> QED BY <3>1, <4>1, <4>2
    <3>4. 4 * j - 3 + Len(parts[j]) <= Len(table)
      BY <1>7, <3>2
    <3> QED BY <3>3, <3>4
  <2>7. Before(n + 1) => Len(table) = 1 + 4 * n
    <3> SUFFICES ASSUME Before(n + 1) PROVE Len(table) = 1 + 4 * n
      OBVIOUS
    <3>1. n \in 1..n /\ Before(n) /\ p.operators[n].name # NoName
      BY <1>1, <1>9
    <3>2. start[n] = 4 * n - 4 /\ Len(parts[n]) = 4
      BY <1>2, <2>5, <3>1
    <3>3. Len(flat) = start[n] + Len(parts[n])
      BY <2>1, <3>1
    <3> QED BY <1>1, <1>7, <3>2, <3>3
  <2>8. Len(table) \in Nat \ {0}
    BY <1>7
  <2>9. \A j \in 1..n : Before(j) =>
          /\ 4 * j - 3 + Len(OperatorFields(p.operators[j], j)) <= Len(table)
          /\ \A x \in 1..Len(OperatorFields(p.operators[j], j)) :
               table[4 * j - 3 + x] = OperatorFields(p.operators[j], j)[x]
    <3> SUFFICES ASSUME NEW j \in 1..n, Before(j)
                 PROVE  /\ 4 * j - 3 + Len(OperatorFields(p.operators[j], j)) <= Len(table)
                        /\ \A x \in 1..Len(OperatorFields(p.operators[j], j)) :
                             table[4 * j - 3 + x] = OperatorFields(p.operators[j], j)[x]
      OBVIOUS
    <3>1. parts[j] = OperatorFields(p.operators[j], j)
      BY <1>2
    <3>2. /\ 4 * j - 3 + Len(parts[j]) <= Len(table)
          /\ \A x \in 1..Len(parts[j]) : table[4 * j - 3 + x] = parts[j][x]
      BY <2>6
    <3> QED BY <3>1, <3>2
  <2> QED BY <1>7, <2>7, <2>8, <2>9 DEF one, table
<1> QED BY <1>8, <1>9

\* A count in front moves everything by one.
LEMMA OneFirst ==
    ASSUME NEW V, NEW one \in V, NEW flat \in Seq(V), NEW s, s = << one >> \o flat
    PROVE  /\ s \in Seq(V) /\ Len(s) = 1 + Len(flat) /\ Len(flat) \in Nat /\ s[1] = one
           /\ \A k \in 1..Len(flat) : s[1 + k] = flat[k]
<1>1. PICK t : t = << one >>
  OBVIOUS
<1>2. t \in Seq(V) /\ t[1] = one
  BY <1>1
<1>3. /\ t \o flat \in Seq(V) /\ Len(t \o flat) = Len(t) + Len(flat)
      /\ \A k \in 1..Len(t) : (t \o flat)[k] = t[k]
      /\ \A k \in 1..Len(flat) : (t \o flat)[Len(t) + k] = flat[k]
  BY <1>2, Joined
<1>4. s = t \o flat
  BY <1>1
<1>5. Len(t) = 1
  BY <1>1
<1>6. /\ s \in Seq(V) /\ Len(s) = Len(t) + Len(flat)
      /\ \A k \in 1..Len(t) : s[k] = t[k]
      /\ \A k \in 1..Len(flat) : s[Len(t) + k] = flat[k]
  BY <1>3, <1>4, Zenon
<1> QED BY <1>2, <1>5, <1>6

\* The fitness of the j-th individual is behind those of the ones before, its
\* tree behind its fitness.
LEMMA GenerationLayout ==
    ASSUME NEW p, IsProgram(p)
    PROVE  LET n == Len(p.pop)
               fields == GenerationFields(p.pop)
           IN  /\ fields \in Seq(Fields(p)) /\ Len(fields) = 1 + 2 * n
               /\ fields[1] = Field("count", n)
               /\ \A j \in 1..n : /\ fields[2 * j] = Field("fitness", p.pop[j].fitness)
                                  /\ fields[2 * j + 1] = TreeField(p.pop[j].tree)
<1> DEFINE n == Len(p.pop)
           parts == [j \in DOMAIN p.pop |->
                       << Field("fitness", p.pop[j].fitness), TreeField(p.pop[j].tree) >>]
           flat == FlattenSeq(parts)
           one == Field("count", n)
           fields == GenerationFields(p.pop)
<1>1. n \in Nat /\ DOMAIN p.pop = 1..n
  BY DEF IsProgram
<1>2. ASSUME NEW j \in 1..n
      PROVE  /\ parts[j] \in Seq(Fields(p)) /\ Len(parts[j]) = 2
             /\ parts[j][1] = Field("fitness", p.pop[j].fitness)
             /\ parts[j][2] = TreeField(p.pop[j].tree)
  <2>1. /\ p.pop[j].fitness \in Values(p) /\ p.pop[j].tree \in Values(p)
        /\ "fitness" \in Kinds /\ "tree" \in Kinds
    BY DEF Values, Kinds
  <2>2. PICK f \in Fields(p), t \in Fields(p) :
          f = Field("fitness", p.pop[j].fitness) /\ t = TreeField(p.pop[j].tree)
    BY <2>1, FieldsAre DEF TreeField
  <2>3. parts[j] = << f, t >>
    BY <1>1, <2>2
  <2> QED BY <2>2, <2>3
<1>3. parts \in Seq(Seq(Fields(p))) /\ Len(parts) = n
  <2>1. parts \in [1..n -> Seq(Fields(p))]
    BY <1>1, <1>2
  <2> HIDE DEF parts
  <2> QED BY <1>1, <2>1, FunctionLength
<1>4. one \in Fields(p)
  <2>1. n \in Values(p) /\ "count" \in Kinds
    BY <1>1 DEF Values, Kinds
  <2> QED BY <2>1, FieldsAre
<1>5. fields = << one >> \o flat
  BY DEF GenerationFields
<1> HIDE DEF parts, one, fields
<1>6. /\ flat \in Seq(Fields(p))
      /\ n = 0 => Len(flat) = 0
  <2>1. CASE n = 0
    <3>1. flat = parts /\ parts = <<>>
      BY <1>3, <2>1 DEF FlattenSeq
    <3> QED BY <3>1
  <2>2. CASE n # 0
    BY <1>3, <2>2, FlattenLayout
  <2> QED BY <2>1, <2>2
<1> HIDE DEF flat
<1>7. /\ fields \in Seq(Fields(p)) /\ Len(fields) = 1 + Len(flat) /\ Len(flat) \in Nat
      /\ fields[1] = one
      /\ \A k \in 1..Len(flat) : fields[1 + k] = flat[k]
  BY <1>4, <1>5, <1>6, OneFirst
<1>8. CASE n = 0
  <2>1. Len(fields) = 1 + 2 * n /\ 1..n = {}
    BY <1>6, <1>7, <1>8
  <2> QED BY <1>7, <2>1 DEF one, fields
<1>9. CASE n # 0
  <2>1. PICK start \in [1..n -> Nat] :
          /\ start[1] = 0
          /\ \A j \in 1..n :
               /\ LaidIn(parts, start, j, flat)
               /\ j + 1 \in 1..n => start[j + 1] = start[j] + Len(parts[j])
               /\ j = n => Len(flat) = start[j] + Len(parts[j])
    <3> HIDE DEF n
    <3> QED BY <1>3, <1>9, FlattenLayout DEF flat
  <2> DEFINE T == {m \in Nat : m + 1 \in 1..n => start[m + 1] = 2 * m}
  <2>2. 0 \in T
    BY <2>1
  <2>3. ASSUME NEW m \in Nat, m \in T PROVE m + 1 \in T
    <3> SUFFICES ASSUME (m + 1) + 1 \in 1..n PROVE start[(m + 1) + 1] = 2 * (m + 1)
      OBVIOUS
    <3>1. m + 1 \in 1..n
      BY <1>1
    <3>2. start[m + 1] = 2 * m /\ Len(parts[m + 1]) = 2
      BY <1>2, <2>3, <3>1
    <3>3. start[(m + 1) + 1] = start[m + 1] + Len(parts[m + 1])
      BY <2>1, <3>1
    <3> QED BY <3>2, <3>3
  <2>4. Nat \subseteq T
    <3> HIDE DEF T
    <3> QED BY <2>2, <2>3, Induction
  <2>5. ASSUME NEW j \in 1..n PROVE start[j] = 2 * j - 2
    <3>1. j - 1 \in Nat /\ (j - 1) + 1 = j
      BY <1>1
    <3>2. j - 1 \in T
      BY <2>4, <3>1
    <3>3. start[j] = 2 * (j - 1)
      BY <3>1, <3>2
    <3> QED BY <3>1, <3>3
  <2> HIDE DEF T
  <2>6. ASSUME NEW j \in 1..n
        PROVE  /\ fields[2 * j] = parts[j][1] /\ fields[2 * j + 1] = parts[j][2]
    <3>1. PICK m \in Nat : m = Len(flat)
      BY <1>7
    <3>2. /\ j \in Nat /\ start[j] = 2 * j - 2 /\ start[j] + 2 <= m
          /\ flat[start[j] + 1] = parts[j][1] /\ flat[start[j] + 2] = parts[j][2]
      <4>1. LaidIn(parts, start, j, flat) /\ start[j] = 2 * j - 2 /\ Len(parts[j]) = 2 /\ j \in Nat
        BY <1>1, <1>2, <2>1, <2>5
      <4>2. /\ start[j] + Len(parts[j]) <= Len(flat)
            /\ \A x \in 1..Len(parts[j]) : flat[start[j] + x] = parts[j][x]
        BY <4>1 DEF LaidIn
      <4>3. \A x \in 1..2 : flat[start[j] + x] = parts[j][x]
        BY <4>1, <4>2
      <4> QED BY <3>1, <4>1, <4>2, <4>3
    <3>3. /\ flat[2 * j - 1] = parts[j][1] /\ flat[2 * j] = parts[j][2]
          /\ 2 * j - 1 \in 1..m /\ 2 * j \in 1..m
      <4>1. 2 * j - 2 + 1 = 2 * j - 1 /\ 2 * j - 2 + 2 = 2 * j
        OBVIOUS
      <4>2. 2 * j - 1 \in 1..m /\ 2 * j \in 1..m
        BY <3>2
      <4> QED BY <3>2, <4>1, <4>2
    <3>4. fields[1 + (2 * j - 1)] = parts[j][1] /\ fields[1 + 2 * j] = parts[j][2]
      BY <1>7, <3>1, <3>3
    <3> QED BY <3>4
  <2>7. Len(fields) = 1 + 2 * n
    <3>1. n \in 1..n
      BY <1>1, <1>9
    <3>2. start[n] = 2 * n - 2 /\ Len(parts[n]) = 2 /\ Len(flat) = start[n] + Len(parts[n])
      BY <1>2, <2>1, <2>5, <3>1
    <3> QED BY <1>1, <1>7, <3>2
  <2> QED BY <1>2, <1>7, <2>6, <2>7 DEF one, fields
<1> QED BY <1>8, <1>9

\* Two sequences one after the other.
LEMMA JoinedAs ==
    ASSUME NEW V, NEW s \in Seq(V), NEW u \in Seq(V), NEW t, t = s \o u
    PROVE  /\ t \in Seq(V) /\ Len(t) = Len(s) + Len(u) /\ Len(s) \in Nat /\ Len(u) \in Nat
           /\ \A k \in 1..Len(s) : t[k] = s[k]
           /\ \A k \in 1..Len(u) : t[Len(s) + k] = u[k]
BY Joined

\* s is what the five join to.
InOrder(V, a, b, c, d, e, s) ==
    /\ s \in Seq(V)
    /\ Len(a) \in Nat /\ Len(b) \in Nat /\ Len(c) \in Nat /\ Len(d) \in Nat /\ Len(e) \in Nat
    /\ Len(s) = Len(a) + Len(b) + Len(c) + Len(d) + Len(e)
    /\ \A k \in 1..Len(a) : s[k] = a[k]
    /\ \A k \in 1..Len(b) : s[Len(a) + k] = b[k]
    /\ \A k \in 1..Len(c) : s[Len(a) + Len(b) + k] = c[k]
    /\ \A k \in 1..Len(d) : s[Len(a) + Len(b) + Len(c) + k] = d[k]
    /\ \A k \in 1..Len(e) : s[Len(a) + Len(b) + Len(c) + Len(d) + k] = e[k]

\* Five sequences one after the other.
LEMMA FiveParts ==
    ASSUME NEW V, NEW a \in Seq(V), NEW b \in Seq(V), NEW c \in Seq(V), NEW d \in Seq(V),
           NEW e \in Seq(V), NEW s, s = a \o b \o c \o d \o e
    PROVE  InOrder(V, a, b, c, d, e, s)
<1>1. PICK ab : ab = a \o b
  OBVIOUS
<1>2. PICK abc : abc = ab \o c
  OBVIOUS
<1>3. PICK abcd : abcd = abc \o d
  OBVIOUS
<1>4. s = abcd \o e
  BY <1>1, <1>2, <1>3
<1>5. /\ ab \in Seq(V) /\ Len(ab) = Len(a) + Len(b) /\ Len(a) \in Nat /\ Len(b) \in Nat
      /\ \A k \in 1..Len(a) : ab[k] = a[k]
      /\ \A k \in 1..Len(b) : ab[Len(a) + k] = b[k]
  BY <1>1, JoinedAs
<1>6. ab \in Seq(V)
  BY <1>5
<1>7. /\ abc \in Seq(V) /\ Len(abc) = Len(ab) + Len(c) /\ Len(ab) \in Nat /\ Len(c) \in Nat
      /\ \A k \in 1..Len(ab) : abc[k] = ab[k]
      /\ \A k \in 1..Len(c) : abc[Len(ab) + k] = c[k]
  BY <1>2, <1>6, JoinedAs
<1>8. abc \in Seq(V)
  BY <1>7
<1>9. /\ abcd \in Seq(V) /\ Len(abcd) = Len(abc) + Len(d) /\ Len(abc) \in Nat /\ Len(d) \in Nat
      /\ \A k \in 1..Len(abc) : abcd[k] = abc[k]
      /\ \A k \in 1..Len(d) : abcd[Len(abc) + k] = d[k]
  BY <1>3, <1>8, JoinedAs
<1>10. abcd \in Seq(V)
  BY <1>9
<1>11. /\ s \in Seq(V) /\ Len(s) = Len(abcd) + Len(e) /\ Len(abcd) \in Nat /\ Len(e) \in Nat
       /\ \A k \in 1..Len(abcd) : s[k] = abcd[k]
       /\ \A k \in 1..Len(e) : s[Len(abcd) + k] = e[k]
  BY <1>4, <1>10, JoinedAs
<1>12. PICK la \in Nat, lb \in Nat, lc \in Nat, ld \in Nat, le \in Nat :
         la = Len(a) /\ lb = Len(b) /\ lc = Len(c) /\ ld = Len(d) /\ le = Len(e)
  BY <1>5, <1>7, <1>9, <1>11
<1>13. /\ \A k \in 1..la : ab[k] = a[k]
       /\ \A k \in 1..lb : ab[la + k] = b[k]
       /\ \A k \in 1..(la + lb) : abc[k] = ab[k]
       /\ \A k \in 1..lc : abc[la + lb + k] = c[k]
       /\ \A k \in 1..(la + lb + lc) : abcd[k] = abc[k]
       /\ \A k \in 1..ld : abcd[la + lb + lc + k] = d[k]
       /\ \A k \in 1..(la + lb + lc + ld) : s[k] = abcd[k]
       /\ \A k \in 1..le : s[la + lb + lc + ld + k] = e[k]
       /\ Len(s) = la + lb + lc + ld + le
  BY <1>5, <1>7, <1>9, <1>11, <1>12
<1>14. /\ \A k \in 1..la : k \in 1..(la + lb) /\ k \in 1..(la + lb + lc)
                           /\ k \in 1..(la + lb + lc + ld)
       /\ \A k \in 1..lb : la + k \in 1..(la + lb) /\ la + k \in 1..(la + lb + lc)
                           /\ la + k \in 1..(la + lb + lc + ld)
       /\ \A k \in 1..lc : la + lb + k \in 1..(la + lb + lc)
                           /\ la + lb + k \in 1..(la + lb + lc + ld)
       /\ \A k \in 1..ld : la + lb + lc + k \in 1..(la + lb + lc + ld)
  OBVIOUS
<1>15. \A k \in 1..la : s[k] = a[k]
  BY <1>13, <1>14
<1>16. \A k \in 1..lb : s[la + k] = b[k]
  BY <1>13, <1>14
<1>17. \A k \in 1..lc : s[la + lb + k] = c[k]
  BY <1>13, <1>14
<1>18. \A k \in 1..ld : s[la + lb + lc + k] = d[k]
  BY <1>13, <1>14
<1> QED BY <1>11, <1>12, <1>13, <1>15, <1>16, <1>17, <1>18 DEF InOrder

\* The table of operators, the count of the history, the history, the current
\* statistics and the generation lie one after the other.
LEMMA StateLayout ==
    ASSUME NEW p, IsProgram(p)
    PROVE  LET table == OperatorTableFields(p)
               h == Len(p.history)
               gen == GenerationFields(p.pop)
               fields == StateFields(p)
           IN  /\ fields \in Seq(Fields(p)) /\ Len(fields) = Len(table) + h + 2 + Len(gen)
               /\ \A k \in 1..Len(table) : fields[k] = table[k]
               /\ fields[Len(table) + 1] = Field("count", h)
               /\ \A k \in 1..h : fields[Len(table) + 1 + k] = StatField(p.history[k])
               /\ fields[Len(table) + h + 2] = StatField(p.stats)
               /\ \A k \in 1..Len(gen) : fields[Len(table) + h + 2 + k] = gen[k]
<1> DEFINE one == Field("count", Len(p.history))
           two == StatField(p.stats)
<1>1. PICK a, b, c, d, e, h :
        /\ a = OperatorTableFields(p) /\ b = << one >>
        /\ c = [j \in DOMAIN p.history |-> StatField(p.history[j])]
        /\ d = << two >> /\ e = GenerationFields(p.pop) /\ h = Len(p.history)
  OBVIOUS
<1>2. a \in Seq(Fields(p)) /\ e \in Seq(Fields(p))
  BY <1>1, TableLayout, GenerationLayout
<1>3. h \in Nat /\ DOMAIN p.history = 1..h
  BY <1>1 DEF IsProgram
<1>4. one \in Fields(p) /\ two \in Fields(p)
  <2>1. Len(p.history) \in Values(p) /\ p.stats \in Values(p) /\ "count" \in Kinds /\ "stat" \in Kinds
    BY <1>1, <1>3 DEF Values, Kinds
  <2> QED BY <2>1, FieldsAre DEF StatField
<1>5. c \in [1..h -> Fields(p)] /\ \A k \in 1..h : c[k] = StatField(p.history[k])
  <2>1. \A k \in 1..h : StatField(p.history[k]) \in Fields(p)
    <3> SUFFICES ASSUME NEW k \in 1..h PROVE StatField(p.history[k]) \in Fields(p)
      OBVIOUS
    <3>1. p.history[k] \in Values(p) /\ "stat" \in Kinds
      BY <1>1 DEF Values, Kinds
    <3> QED BY <3>1, FieldsAre DEF StatField
  <2> QED BY <1>1, <1>3, <2>1
<1>6. c \in Seq(Fields(p)) /\ Len(c) = h
  BY <1>3, <1>5, FunctionLength
<1> HIDE DEF one, two
<1>7. /\ b \in Seq(Fields(p)) /\ Len(b) = 1 /\ b[1] = one
      /\ d \in Seq(Fields(p)) /\ Len(d) = 1 /\ d[1] = two
  BY <1>1, <1>4
<1>8. b \in Seq(Fields(p)) /\ c \in Seq(Fields(p)) /\ d \in Seq(Fields(p))
  BY <1>6, <1>7
<1>9. PICK s : s = a \o b \o c \o d \o e
  OBVIOUS
<1>10. StateFields(p) = s
  BY <1>1, <1>9 DEF StateFields, one, two
<1>11. /\ s \in Seq(Fields(p))
       /\ Len(a) \in Nat /\ Len(b) \in Nat /\ Len(c) \in Nat /\ Len(d) \in Nat /\ Len(e) \in Nat
       /\ Len(s) = Len(a) + Len(b) + Len(c) + Len(d) + Len(e)
       /\ \A k \in 1..Len(a) : s[k] = a[k]
       /\ \A k \in 1..Len(b) : s[Len(a) + k] = b[k]
       /\ \A k \in 1..Len(c) : s[Len(a) + Len(b) + k] = c[k]
       /\ \A k \in 1..Len(d) : s[Len(a) + Len(b) + Len(c) + k] = d[k]
       /\ \A k \in 1..Len(e) : s[Len(a) + Len(b) + Len(c) + Len(d) + k] = e[k]
  <2>1. InOrder(Fields(p), a, b, c, d, e, s)
    BY <1>2, <1>8, <1>9, FiveParts
  <2> QED BY <2>1 DEF InOrder
<1>12. PICK t \in Nat, g \in Nat : t = Len(a) /\ g = Len(e)
  BY <1>11
<1>13. /\ Len(s) = t + h + 2 + g
       /\ s[t + 1] = one
       /\ \A k \in 1..h : s[t + 1 + k] = c[k]
       /\ s[t + h + 2] = two
       /\ \A k \in 1..g : s[t + h + 2 + k] = e[k]
  <2>1. /\ Len(s) = t + 1 + h + 1 + g
        /\ \A k \in 1..1 : s[t + k] = b[k]
        /\ \A k \in 1..h : s[t + 1 + k] = c[k]
        /\ \A k \in 1..1 : s[t + 1 + h + k] = d[k]
        /\ \A k \in 1..g : s[t + 1 + h + 1 + k] = e[k]
    BY <1>6, <1>7, <1>11, <1>12
  <2>2. t + 1 + h + 1 = t + h + 2
    BY <1>3
  <2>3. s[t + 1] = b[1] /\ s[t + 1 + h + 1] = d[1]
    BY <2>1
  <2> QED BY <1>3, <1>7, <2>1, <2>2, <2>3
<1>14. /\ s \in Seq(Fields(p)) /\ \A k \in 1..t : s[k] = a[k]
  BY <1>11, <1>12
<1> QED BY <1>1, <1>5, <1>10, <1>12, <1>13, <1>14 DEF one, two

TableLen(p) == Len(OperatorTableFields(p))
Behind(p, w) == IF w THEN TableLen(p) + Len(p.history) + 2 ELSE 0
NamedBefore(p, j) == \A k \in 1..(j - 1) : p.operators[k].name # NoName

\* full holds the j-th operator of p.
OperatorIn(p, j, full) ==
    LET op == p.operators[j] IN
    /\ full[4 * j - 2] = Field("index", j)
    /\ full[4 * j - 1] = Field("has_name", op.name # NoName)
    /\ 4 * j <= TableLen(p)
    /\ op.name = NoName => full[4 * j] = Field("types", op.types)
    /\ op.name # NoName => /\ 4 * j + 1 <= TableLen(p)
                           /\ full[4 * j] = Field("name", op.name)
                           /\ full[4 * j + 1] = Field("types", op.types)

\* full holds all of p, or its population alone.
Holds(p, w, full) ==
    /\ full \in Seq(Fields(p)) /\ Len(full) = Behind(p, w) + 1 + 2 * Len(p.pop)
    /\ TableLen(p) \in Nat \ {0} /\ Behind(p, w) \in Nat
    /\ w => /\ full[1] = Field("count", Len(p.operators))
            /\ \A j \in 1..Len(p.operators) : NamedBefore(p, j) => OperatorIn(p, j, full)
            /\ NamedBefore(p, Len(p.operators) + 1) => TableLen(p) = 1 + 4 * Len(p.operators)
            /\ full[TableLen(p) + 1] = Field("count", Len(p.history))
            /\ \A k \in 1..Len(p.history) : full[TableLen(p) + 1 + k] = StatField(p.history[k])
            /\ full[TableLen(p) + Len(p.history) + 2] = StatField(p.stats)
    /\ full[Behind(p, w) + 1] = Field("count", Len(p.pop))
    /\ \A j \in 1..Len(p.pop) :
         /\ full[Behind(p, w) + 2 * j] = Field("fitness", p.pop[j].fitness)
         /\ full[Behind(p, w) + 2 * j + 1] = TreeField(p.pop[j].tree)

\* The fields of an operator are where the table of operators has them.
LEMMA OperatorsWritten ==
    ASSUME NEW p, IsProgram(p), NEW full, \A k \in 1..TableLen(p) : full[k] = OperatorTableFields(p)[k],
           NEW j \in 1..Len(p.operators), NamedBefore(p, j)
    PROVE  OperatorIn(p, j, full)
<1> DEFINE op == p.operators[j]
           fields == OperatorFields(op, j)
           table == OperatorTableFields(p)
<1>1. j \in Nat /\ j >= 1 /\ Len(p.operators) \in Nat
  BY DEF IsProgram
<1>2. /\ fields[1] = Field("index", j)
      /\ fields[2] = Field("has_name", op.name # NoName)
      /\ op.name # NoName => /\ Len(fields) = 4
                             /\ fields[3] = Field("name", op.name)
                             /\ fields[4] = Field("types", op.types)
      /\ op.name = NoName => Len(fields) = 3 /\ fields[3] = Field("types", op.types)
  BY <1>1, OperatorFieldsAre
<1>3. /\ table \in Seq(Fields(p)) /\ Len(table) \in Nat
      /\ 4 * j - 3 + Len(fields) <= Len(table)
      /\ \A x \in 1..Len(fields) : table[4 * j - 3 + x] = fields[x]
  BY TableLayout DEF NamedBefore
<1>4. PICK t \in Nat : t = Len(table) /\ t = TableLen(p)
  BY <1>3 DEF TableLen
<1> DEFINE l == Len(fields)
<1> HIDE DEF table, fields
<1>5. /\ 4 * j - 3 + l <= t /\ l \in {3, 4}
      /\ \A x \in 1..l : table[4 * j - 3 + x] = fields[x]
      /\ \A k \in 1..t : full[k] = table[k]
  BY <1>2, <1>3, <1>4 DEF table
<1> HIDE DEF l
<1>6. \A x \in 1..l : 4 * j - 3 + x \in 1..t
  BY <1>1, <1>5
<1>7. \A x \in 1..l : full[4 * j - 3 + x] = fields[x]
  BY <1>5, <1>6
<1>8. /\ full[4 * j - 3 + 1] = fields[1] /\ full[4 * j - 3 + 2] = fields[2]
      /\ full[4 * j - 3 + 3] = fields[3] /\ (l = 4 => full[4 * j - 3 + 4] = fields[4])
  BY <1>5, <1>7
<1>9. /\ 4 * j - 3 + 1 = 4 * j - 2 /\ 4 * j - 3 + 2 = 4 * j - 1 /\ 4 * j - 3 + 3 = 4 * j
      /\ 4 * j - 3 + 4 = 4 * j + 1 /\ 4 * j <= t /\ (l = 4 => 4 * j + 1 <= t)
  BY <1>1, <1>5
<1>10. /\ full[4 * j - 2] = fields[1] /\ full[4 * j - 1] = fields[2]
       /\ full[4 * j] = fields[3] /\ (l = 4 => full[4 * j + 1] = fields[4])
  BY <1>8, <1>9
<1>11. op.name # NoName => l = 4
  BY <1>2 DEF l
<1> QED BY <1>2, <1>4, <1>9, <1>10, <1>11 DEF OperatorIn

\* What is written holds every part of the program where Holds says.
LEMMA FileHolds ==
    ASSUME NEW p, IsProgram(p), NEW w \in BOOLEAN
    PROVE  Holds(p, w, File(p, w))
<1>1. PICK n \in Nat, h \in Nat, t \in Nat :
        n = Len(p.pop) /\ h = Len(p.history) /\ t = TableLen(p) /\ t # 0
  <2>1. Len(p.pop) \in Nat /\ Len(p.history) \in Nat
    BY DEF IsProgram
  <2>2. TableLen(p) \in Nat \ {0}
    <3>1. TableLen(p) = Len(OperatorTableFields(p))
      BY DEF TableLen
    <3>2. Len(OperatorTableFields(p)) \in Nat \ {0}
      BY TableLayout
    <3> QED BY <3>1, <3>2
  <2>3. TableLen(p) \in Nat /\ TableLen(p) # 0
    BY <2>2
  <2> QED BY <2>1, <2>3, Zenon
<1>2. PICK gen : gen = GenerationFields(p.pop)
  OBVIOUS
<1>3. /\ gen \in Seq(Fields(p)) /\ Len(gen) = 1 + 2 * n
      /\ gen[1] = Field("count", n)
      /\ \A j \in 1..n : /\ gen[2 * j] = Field("fitness", p.pop[j].fitness)
                         /\ gen[2 * j + 1] = TreeField(p.pop[j].tree)
  BY <1>1, <1>2, GenerationLayout
<1>4. CASE ~w
  <2>1. File(p, w) = gen /\ Behind(p, w) = 0
    BY <1>2, <1>4 DEF File, Behind
  <2>2. Len(gen) = 0 + 1 + 2 * n /\ gen[0 + 1] = Field("count", n)
    BY <1>1, <1>3
  <2>3. \A j \in 1..n : /\ gen[0 + 2 * j] = Field("fitness", p.pop[j].fitness)
                        /\ gen[0 + 2 * j + 1] = TreeField(p.pop[j].tree)
    BY <1>3
  <2> QED BY <1>1, <1>3, <1>4, <2>1, <2>2, <2>3 DEF Holds
<1>5. CASE w
  <2>1. PICK full : full = StateFields(p)
    OBVIOUS
  <2>2. File(p, w) = full /\ Behind(p, w) = t + h + 2
    BY <1>1, <1>5, <2>1 DEF File, Behind
  <2>3. /\ full \in Seq(Fields(p)) /\ Len(full) = t + h + 2 + Len(gen)
        /\ \A k \in 1..t : full[k] = OperatorTableFields(p)[k]
        /\ full[t + 1] = Field("count", h)
        /\ \A k \in 1..h : full[t + 1 + k] = StatField(p.history[k])
        /\ full[t + h + 2] = StatField(p.stats)
        /\ \A k \in 1..Len(gen) : full[t + h + 2 + k] = gen[k]
    BY <1>1, <1>2, <2>1, StateLayout DEF TableLen
  <2>4. \A j \in 1..Len(p.operators) : NamedBefore(p, j) => OperatorIn(p, j, full)
    BY <1>1, <2>3, OperatorsWritten
  <2>5. /\ full[1] = Field("count", Len(p.operators))
        /\ NamedBefore(p, Len(p.operators) + 1) => t = 1 + 4 * Len(p.operators)
    <3>1. OperatorTableFields(p)[1] = Field("count", Len(p.operators)) /\ 1 \in 1..t
      BY <1>1, TableLayout
    <3>2. NamedBefore(p, Len(p.operators) + 1) => t = 1 + 4 * Len(p.operators)
      BY <1>1, TableLayout DEF NamedBefore, TableLen
    <3> QED BY <2>3, <3>1, <3>2
  <2>6. /\ Len(full) = t + h + 2 + 1 + 2 * n
        /\ \A k \in 1..(1 + 2 * n) : full[t + h + 2 + k] = gen[k]
    BY <1>3, <2>3
  <2>7. full[t + h + 2 + 1] = Field("count", n)
    BY <1>3, <2>6, SMTT(20)
  <2>8. ASSUME NEW j \in 1..n
        PROVE  /\ full[t + h + 2 + 2 * j] = Field("fitness", p.pop[j].fitness)
               /\ full[t + h + 2 + 2 * j + 1] = TreeField(p.pop[j].tree)
    <3>1. /\ 2 * j \in 1..(1 + 2 * n) /\ 2 * j + 1 \in 1..(1 + 2 * n)
          /\ t + h + 2 + (2 * j + 1) = t + h + 2 + 2 * j + 1
      OBVIOUS
    <3>2. /\ full[t + h + 2 + 2 * j] = gen[2 * j]
          /\ full[t + h + 2 + (2 * j + 1)] = gen[2 * j + 1]
      BY <2>6, <3>1
    <3> QED BY <1>3, <3>1, <3>2
  <2>9. t + h + 2 \in Nat
    OBVIOUS
  <2> HIDE DEF OperatorIn
  <2> QED BY <1>1, <1>5, <2>2, <2>3, <2>4, <2>5, <2>6, <2>7, <2>8, <2>9 DEF Holds
<1> QED BY <1>4, <1>5

-----------------------------------------------------------------------------
(* What a file may hold instead.                                           *)

\* A file agrees with what the program wrote, as far as that goes, but for
\* what is left of an older save.
LEMMA FilesAgree ==
    ASSUME NEW p, NEW w \in BOOLEAN, IsProgram(p), NEW f \in Files(p, w)
    PROVE  /\ Len(f) \in Nat
           /\ \A k \in 1..Len(f) : k <= Len(File(p, w)) => f[k] \in {File(p, w)[k], Stale}
           /\ IsPrefix(File(p, w), f) =>
                /\ Len(File(p, w)) <= Len(f)
                /\ \A k \in 1..Len(File(p, w)) : f[k] = File(p, w)[k]
<1> DEFINE V == Fields(p) \cup {Stale}
<1>1. PICK full \in Seq(V) : full = File(p, w)
  <2>1. File(p, w) \in Seq(Fields(p))
    BY FileHolds DEF Holds
  <2> QED BY <2>1
<1>2. Stale \in V
  OBVIOUS
<1> HIDE DEF V
<1>3. PICK first \in Nat : first = IF w THEN Len(OperatorTableFields(p)) ELSE 1
  BY FileHolds DEF Holds, TableLen
<1>4. \/ \E n \in 0..Len(full) : f = SubSeq(full, 1, n)
      \/ \E n \in first..Len(full) : f = Append(SubSeq(full, 1, n), Stale)
      \/ f = full \o full
  BY <1>1, <1>3 DEF Files
<1>5. \A n \in 0..Len(full) :
        /\ SubSeq(full, 1, n) \in Seq(V) /\ Len(SubSeq(full, 1, n)) = n
        /\ \A k \in 1..n : SubSeq(full, 1, n)[k] = full[k]
  OBVIOUS
<1>6. /\ f \in Seq(V)
      /\ \A k \in 1..Len(f) : k <= Len(full) => f[k] \in {full[k], Stale}
  <2>1. ASSUME NEW n \in 0..Len(full), f = SubSeq(full, 1, n)
        PROVE  f \in Seq(V) /\ \A k \in 1..Len(f) : f[k] = full[k]
    BY <1>5, <2>1
  <2>2. ASSUME NEW n \in first..Len(full), f = Append(SubSeq(full, 1, n), Stale)
        PROVE  f \in Seq(V) /\ \A k \in 1..Len(f) : f[k] \in {full[k], Stale}
    <3>1. PICK s \in Seq(V) : s = SubSeq(full, 1, n) /\ n \in 0..Len(full)
      <4>1. n \in 0..Len(full)
        OBVIOUS
      <4>2. SubSeq(full, 1, n) \in Seq(V)
        BY <1>5, <4>1
      <4> QED BY <4>1, <4>2, Zenon
    <3>2. /\ Append(s, Stale) \in Seq(V) /\ Len(Append(s, Stale)) = Len(s) + 1
          /\ Append(s, Stale)[Len(s) + 1] = Stale
          /\ \A k \in 1..Len(s) : Append(s, Stale)[k] = s[k]
      BY <1>2
    <3>3. f = Append(s, Stale)
      BY <2>2, <3>1
    <3>4. Len(s) = n /\ \A k \in 1..n : s[k] = full[k]
      BY <1>5, <3>1
    <3> QED BY <3>1, <3>2, <3>3, <3>4
  <2>3. ASSUME f = full \o full
        PROVE  f \in Seq(V) /\ \A k \in 1..Len(full) : f[k] = full[k]
    BY <2>3, JoinedAs
  <2> QED BY <1>4, <2>1, <2>2, <2>3
<1>7. ASSUME IsPrefix(full, f)
      PROVE  Len(full) <= Len(f) /\ \A k \in 1..Len(full) : f[k] = full[k]
  <2>1. Len(full) <= Len(f) /\ SubSeq(full, 1, Len(full)) = SubSeq(f, 1, Len(full))
    BY <1>7 DEF IsPrefix
  <2>2. \A k \in 1..Len(full) : SubSeq(f, 1, Len(full))[k] = f[k]
    BY <1>6, <2>1
  <2>3. \A k \in 1..Len(full) : SubSeq(full, 1, Len(full))[k] = full[k]
    BY <1>5
  <2> QED BY <2>1, <2>2, <2>3
<1> QED BY <1>1, <1>6, <1>7

-----------------------------------------------------------------------------
(* What the loader knows at each step.                                     *)

Given ==
    /\ saver \in Programs(Saved, 1)
    /\ whole \in BOOLEAN
    /\ before \in Programs(Unsaved, 0)
    /\ file \in Files(saver, whole)

\* Only the data is ever written.
Shape == prog = [operators |-> before.operators, history |-> prog.history,
                 stats |-> prog.stats, pop |-> prog.pop]

Untouched == result \in {"operator count", "operators", "refused"} => whole /\ prog = before

\* The operators compared so far agree, and each has a name ...
Matched ==
    /\ Len(before.operators) = Len(saver.operators)
    /\ i \in 1..(Len(saver.operators) + 1)
    /\ at = 4 * i - 2
    /\ \A j \in 1..(i - 1) :
         saver.operators[j].name # NoName /\ before.operators[j] = saver.operators[j]

\* ... or one had none, and the reader is in the middle of what was saved of
\* it, where neither another operator nor a count can be read.
Doomed == ~Named(saver) /\ ~Readable(at, "index") /\ ~Readable(at, "count")

Checked ==
    /\ result = "history" => whole
    /\ result = "operator count" => at = 1 /\ i = 1
    /\ result = "operators" => Matched \/ Doomed
    /\ whole /\ result \notin {"operator count", "operators", "refused"} =>
         IF Named(saver) THEN before.operators = saver.operators ELSE result = "misread"

Fits == Complete /\ Len(before.pop) <= Len(saver.pop)

DataIs(history, stats) == prog.history = history /\ prog.stats = stats
DataRestored == IF whole THEN DataIs(saver.history, saver.stats)
                ELSE DataIs(before.history, before.stats)

\* While a complete file is read the reader is where the next field starts,
\* and everything before it has been restored.
Reading ==
    /\ result \in {"history", "generation"} => prog.pop = before.pop
    /\ result = "history" =>
         /\ i \in 1..(Len(saver.history) + 1)
         /\ at = TableLen(saver) + 1 + i
         /\ Len(prog.history) = Len(saver.history)
         /\ prog.history = [j \in 1..Len(saver.history) |-> prog.history[j]]
         /\ \A j \in 1..(i - 1) : prog.history[j] = saver.history[j]
    /\ result = "generation" => at = Behind(saver, whole) + 1
    /\ result \in {"generation", "individuals", "loaded"} => DataRestored
    /\ result = "individuals" =>
         /\ i \in 1..(Len(saver.pop) + 1)
         /\ at = Behind(saver, whole) + 2 * i
         /\ Len(prog.pop) = Len(saver.pop)
         /\ prog.pop = [j \in 1..Len(saver.pop) |-> prog.pop[j]]
         /\ \A j \in 1..(i - 1) : prog.pop[j] = saver.pop[j]
    /\ result = "loaded" => prog.pop = saver.pop
    /\ result \notin {"failed", "aborted"}
    /\ result = "misread" => whole /\ ~Named(saver)
    /\ result = "refused" => ~(Named(saver) /\ before.operators = saver.operators)

Restoring == Fits => Reading

Results == {"operator count", "operators", "history", "generation", "individuals",
            "loaded", "failed", "refused", "misread", "aborted"}

Inv == Given /\ result \in Results /\ Shape /\ Untouched /\ Checked /\ Restoring

\* Everything claimed of a loader follows from what it knows at each step.
LEMMA Implies ==
    ASSUME Inv
    PROVE  RefusedIsUntouched /\ OtherOperatorsRefused /\ RestoredExactly /\ CompleteSaveLoads
<1>1. IsProgram(saver) /\ IsProgram(before)
  BY ProgramsAre DEF Inv, Given
<1>2. RefusedIsUntouched
  BY DEF Inv, Untouched, RefusedIsUntouched
<1>3. prog.operators = before.operators
  BY DEF Inv, Shape
<1>4. OtherOperatorsRefused
  <2> SUFFICES ASSUME whole, Named(saver), prog # before \/ result = "misread"
               PROVE  prog.operators = saver.operators
    BY DEF OtherOperatorsRefused
  <2>1. result \notin {"operator count", "operators", "refused"}
    BY DEF Inv, Untouched
  <2> QED BY <1>3, <2>1 DEF Inv, Checked
<1>5. RestoredExactly
  <2> SUFFICES ASSUME result = "loaded", Fits
               PROVE  prog = IF whole THEN saver ELSE [before EXCEPT !.pop = saver.pop]
    BY DEF RestoredExactly, Fits
  <2>1. DataRestored /\ prog.pop = saver.pop
    BY DEF Inv, Restoring, Reading
  <2>2. whole => before.operators = saver.operators
    BY DEF Inv, Checked
  <2>3. CASE whole
    <3>1. prog = [operators |-> saver.operators, history |-> saver.history,
                  stats |-> saver.stats, pop |-> saver.pop]
      BY <2>1, <2>2, <2>3 DEF Inv, Shape, DataRestored, DataIs
    <3> QED BY <1>1, <2>3, <3>1 DEF IsProgram
  <2>4. CASE ~whole
    <3>1. prog = [operators |-> before.operators, history |-> before.history,
                  stats |-> before.stats, pop |-> saver.pop]
      BY <2>1, <2>4 DEF Inv, Shape, DataRestored, DataIs
    <3>2. before = [operators |-> before.operators, history |-> before.history,
                    stats |-> before.stats, pop |-> before.pop]
      BY <1>1 DEF IsProgram
    <3>3. [before EXCEPT !.pop = saver.pop] =
            [operators |-> before.operators, history |-> before.history,
             stats |-> before.stats, pop |-> saver.pop]
      BY <3>2
    <3> QED BY <2>4, <3>1, <3>3
  <2> QED BY <2>3, <2>4
<1>6. CompleteSaveLoads
  BY DEF Inv, Untouched, Restoring, Reading, CompleteSaveLoads, Fits
<1> QED BY <1>2, <1>4, <1>5, <1>6

\* What a step finds in the file.
FileIs ==
    /\ IsProgram(saver) /\ IsProgram(before) /\ whole \in BOOLEAN
    /\ Len(file) \in Nat
    /\ Holds(saver, whole, File(saver, whole))
    /\ \A k \in 1..Len(file) :
         k <= Len(File(saver, whole)) => file[k] \in {File(saver, whole)[k], Stale}
    /\ Complete =>
         /\ Len(File(saver, whole)) <= Len(file)
         /\ \A k \in 1..Len(File(saver, whole)) : file[k] = File(saver, whole)[k]

\* The steps may rely on what the file agrees with.
LEMMA FileFits ==
    ASSUME Given
    PROVE  FileIs
<1>1. IsProgram(saver) /\ IsProgram(before)
  BY ProgramsAre DEF Given
<1> QED BY <1>1, FilesAgree, FileHolds DEF Given, FileIs, Complete

\* What is read where a field was written is that field.
LEMMA ReadsField ==
    ASSUME FileIs, NEW k \in Nat \ {0}, k <= Len(File(saver, whole)),
           NEW kind, kind # "stale", NEW value, File(saver, whole)[k].kind = kind,
           File(saver, whole)[k].value = value
    PROVE  /\ \A other : other # kind /\ other # "stale" => ~Readable(k, other)
           /\ Readable(k, kind) => file[k].value = value
           /\ Complete => Readable(k, kind) /\ k <= Len(file)
<1>1. Stale.kind = "stale"
  BY DEF Stale, Field
<1>2. k <= Len(file) => k \in 1..Len(file)
  BY DEF FileIs
<1>3. k \in 1..Len(File(saver, whole))
  BY DEF FileIs, Holds
<1>4. k <= Len(file) => file[k] \in {File(saver, whole)[k], Stale}
  BY <1>2 DEF FileIs
<1>5. Complete => k <= Len(file) /\ file[k] = File(saver, whole)[k]
  BY <1>3 DEF FileIs, Holds
<1> QED BY <1>1, <1>4, <1>5 DEF Readable

\* The operators end within the file that was written.
LEMMA FileLen ==
    ASSUME FileIs
    PROVE  /\ Len(File(saver, whole)) \in Nat \ {0}
           /\ Behind(saver, whole) \in Nat /\ TableLen(saver) \in Nat \ {0}
           /\ whole => TableLen(saver) <= Len(File(saver, whole))
<1>1. PICK t, h, n, f, l : /\ t = TableLen(saver) /\ h = Len(saver.history)
                           /\ n = Len(saver.pop) /\ f = Behind(saver, whole)
                           /\ l = Len(File(saver, whole))
  OBVIOUS
<1>2. h \in Nat /\ n \in Nat /\ t \in Nat \ {0} /\ f \in Nat /\ l = f + 1 + 2 * n
  BY <1>1 DEF FileIs, Holds, IsProgram
<1>3. whole => f = t + h + 2
  BY <1>1 DEF Behind
<1> QED BY <1>1, <1>2, <1>3, SMTT(20)

\* The count of the history follows the operators, the generation comes last.
LEMMA CountsLie ==
    ASSUME FileIs
    PROVE  /\ whole => \E k \in Nat \ {0}, h \in Nat :
                          /\ k = TableLen(saver) + 1 /\ h = Len(saver.history)
                          /\ k + h + 1 = Behind(saver, whole)
                          /\ k <= Len(File(saver, whole))
           /\ \E f \in Nat, n \in Nat :
                /\ f = Behind(saver, whole) /\ n = Len(saver.pop)
                /\ Len(File(saver, whole)) = f + 1 + 2 * n
<1>1. PICK t, h, n, f, l : /\ t = TableLen(saver) /\ h = Len(saver.history)
                           /\ n = Len(saver.pop) /\ f = Behind(saver, whole)
                           /\ l = Len(File(saver, whole))
  OBVIOUS
<1>2. h \in Nat /\ n \in Nat /\ t \in Nat \ {0} /\ f \in Nat /\ l = f + 1 + 2 * n
  BY <1>1 DEF FileIs, Holds, IsProgram
<1>3. whole => f = t + h + 2
  BY <1>1 DEF Behind
<1>4. ASSUME whole
      PROVE  t + 1 \in Nat \ {0} /\ (t + 1) + h + 1 = f /\ t + 1 <= l
  BY <1>2, <1>3, <1>4
<1> QED BY <1>1, <1>2, <1>4

\* All operators have names if those before the end have.
LEMMA NamedIs ==
    ASSUME NEW p, IsProgram(p)
    PROVE  Named(p) <=> NamedBefore(p, Len(p.operators) + 1)
<1>1. Len(p.operators) \in Nat /\ DOMAIN p.operators = 1..Len(p.operators)
      /\ (Len(p.operators) + 1) - 1 = Len(p.operators)
  BY DEF IsProgram
<1> QED BY <1>1 DEF Named, NamedBefore, ToSet

\* No step changes what was saved or what is loaded.
LEMMA SameGiven ==
    ASSUME UNCHANGED given
    PROVE  /\ Given' <=> Given
           /\ Fits' <=> Fits
           /\ Named(saver)' <=> Named(saver)
           /\ TableLen(saver)' = TableLen(saver)
           /\ Behind(saver, whole)' = Behind(saver, whole)
           /\ whole' = whole /\ before' = before /\ saver' = saver /\ file' = file
<1>1. saver' = saver /\ whole' = whole /\ before' = before /\ file' = file
  BY DEF given
<1>2. Given' <=> Given
  BY <1>1 DEF Given
<1>3. Complete' <=> Complete
  BY <1>1 DEF Complete
<1>4. Fits' <=> Fits
  BY <1>1, <1>3 DEF Fits
<1>5. Named(saver)' <=> Named(saver)
  BY <1>1 DEF Named
<1>6. TableLen(saver)' = TableLen(saver)
  BY <1>1 DEF TableLen
<1>7. Behind(saver, whole)' = Behind(saver, whole)
  BY <1>1, <1>6 DEF Behind
<1> QED BY <1>1, <1>2, <1>4, <1>5, <1>6, <1>7

\* A loader starts at the front of the file and has written nothing.
LEMMA InitEstablishes == Init => Inv
<1> SUFFICES ASSUME Init PROVE Inv
  OBVIOUS
<1>1. Given
  BY DEF Init, Given
<1>2. FileIs
  BY <1>1, FileFits
<1>3. before = [operators |-> before.operators, history |-> before.history,
                stats |-> before.stats, pop |-> before.pop]
  BY <1>2 DEF FileIs, IsProgram
<1>4. Shape
  BY <1>3 DEF Init, Shape
<1>5. result \in Results /\ Untouched /\ Checked
  BY <1>1 DEF Init, Results, Untouched, Checked, Given
<1>6. Reading
  <2>1. prog = before /\ at = 1 /\ i = 1
        /\ result = (IF whole THEN "operator count" ELSE "generation")
    BY DEF Init
  <2>2. whole \in BOOLEAN /\ (~whole => Behind(saver, whole) + 1 = 1)
    BY <1>1 DEF Given, Behind
  <2>3. CASE whole
    BY <2>1, <2>3 DEF Reading
  <2>4. CASE ~whole
    BY <2>1, <2>2, <2>4 DEF Reading, DataRestored, DataIs
  <2> QED BY <2>3, <2>4
<1> QED BY <1>1, <1>4, <1>5, <1>6 DEF Inv, Restoring

\* A count that agrees is one that was written, or is not believed at all.
LEMMA LoadOperatorCountKeeps == Inv /\ LoadOperatorCount => Inv'
<1> SUFFICES ASSUME Inv, LoadOperatorCount PROVE Inv'
  OBVIOUS
<1>1. /\ result = "operator count" /\ at = 1 /\ prog = before /\ whole
      /\ FileIs /\ Given
  BY FileFits DEF LoadOperatorCount, Inv, Checked, Untouched
<1>2. UNCHANGED given /\ prog' = prog
  BY DEF LoadOperatorCount, Refuse, given
<1>3. /\ Readable(1, "count") => file[1].value = Len(saver.operators)
      /\ Complete => Readable(1, "count")
  <2>1. 1 <= Len(File(saver, whole)) /\ 1 \in Nat \ {0}
    <3>1. PICK l \in Nat \ {0} : l = Len(File(saver, whole))
      BY <1>1, FileLen
    <3> QED BY <3>1
  <2>2. File(saver, whole)[1] = Field("count", Len(saver.operators))
    BY <1>1 DEF FileIs, Holds
  <2>3. /\ File(saver, whole)[1].kind = "count"
        /\ File(saver, whole)[1].value = Len(saver.operators)
    BY <2>2, FieldIs
  <2> QED BY <1>1, <2>1, <2>3, ReadsField
<1>4. CASE Readable(at, "count") /\ file[at].value = Len(prog.operators)
  <2>1. at' = 2 /\ i' = 1 /\ result' = "operators"
    <3>1. at' = at + 1 /\ Goto("operators")
      BY <1>4 DEF LoadOperatorCount
    <3>2. at' = 1 + 1
      BY <1>1, <3>1
    <3> QED BY <3>1, <3>2 DEF Goto
  <2>2. Len(before.operators) = Len(saver.operators) /\ Len(saver.operators) \in Nat
    BY <1>1, <1>3, <1>4 DEF FileIs, IsProgram
  <2>3. Matched'
    BY <1>2, <2>1, <2>2, SameGiven DEF Matched
  <2> QED BY <1>1, <1>2, <2>1, <2>3, SameGiven
        DEF Inv, Results, Shape, Untouched, Checked, Restoring, Reading
<1>5. CASE ~(Readable(at, "count") /\ file[at].value = Len(prog.operators))
  <2>1. result' = "refused"
    BY <1>5 DEF LoadOperatorCount, Refuse
  <2>2. Fits => before.operators # saver.operators
    BY <1>1, <1>3, <1>5 DEF Fits
  <2> QED BY <1>1, <1>2, <2>1, <2>2, SameGiven
        DEF Inv, Results, Shape, Untouched, Checked, Restoring, Reading
<1> QED BY <1>4, <1>5

\* An operator is matched in full, refused, or had no name in the file; the
\* reader is then in front of its types, where it finds no operator.
LEMMA LoadOperatorKeeps == Inv /\ LoadOperator => Inv'
<1> SUFFICES ASSUME Inv, LoadOperator PROVE Inv'
  OBVIOUS
<1> DEFINE op == saver.operators[i]
<1>1. /\ result = "operators" /\ prog = before /\ whole
      /\ FileIs /\ Given /\ (Matched \/ Doomed)
      /\ i <= Len(before.operators)
  BY FileFits DEF LoadOperator, Inv, Checked, Untouched
<1>2. UNCHANGED given /\ prog' = prog
  BY DEF LoadOperator, Refuse, given
<1>3. CASE result' = "refused" /\ (Fits => ~(Named(saver) /\ before.operators = saver.operators))
  BY <1>1, <1>2, <1>3, SameGiven
      DEF Inv, Results, Shape, Untouched, Checked, Restoring, Reading
<1>4. CASE result' = "operators" /\ (Matched' \/ Doomed')
  BY <1>1, <1>2, <1>4, SameGiven
      DEF Inv, Results, Shape, Untouched, Checked, Restoring, Reading
<1>5. \/ /\ OperatorAgrees(before.operators[i]) \/ OperatorUnnamed
         /\ at' = at + (IF OperatorUnnamed THEN 2 ELSE 4)
         /\ i' = i + 1 /\ result' = "operators"
      \/ /\ ~OperatorAgrees(before.operators[i]) /\ ~OperatorUnnamed
         /\ result' = "refused"
  BY <1>1 DEF LoadOperator, Refuse
<1>6. CASE ~Matched
  <2>1. ~OperatorAgrees(before.operators[i]) /\ ~OperatorUnnamed /\ ~Named(saver)
    BY <1>1, <1>6 DEF Doomed, OperatorAgrees, OperatorUnnamed
  <2> QED BY <1>3, <1>5, <2>1
<1>7. CASE Matched
  <2>1. /\ i \in 1..Len(saver.operators) /\ at = 4 * i - 2
        /\ Len(saver.operators) \in Nat /\ i \in Nat
        /\ \A j \in 1..(i - 1) :
             saver.operators[j].name # NoName /\ before.operators[j] = saver.operators[j]
    BY <1>1, <1>7 DEF Matched, FileIs, IsProgram
  <2>2. OperatorIn(saver, i, File(saver, whole))
    BY <1>1, <2>1 DEF FileIs, Holds, NamedBefore
  <2>3. PICK k \in Nat \ {0}, n \in Nat :
          /\ k = at /\ k + 1 = 4 * i - 1 /\ k + 2 = 4 * i /\ k + 3 = 4 * i + 1
          /\ n = Len(File(saver, whole)) /\ TableLen(saver) <= n
    <3>1. at \in Nat \ {0} /\ at + 1 = 4 * i - 1 /\ at + 2 = 4 * i /\ at + 3 = 4 * i + 1
      BY <2>1
    <3>2. Len(File(saver, whole)) \in Nat /\ TableLen(saver) <= Len(File(saver, whole))
      BY <1>1, FileLen
    <3> QED BY <3>1, <3>2
  <2>4. /\ File(saver, whole)[k].kind = "index" /\ File(saver, whole)[k].value = i
        /\ File(saver, whole)[k + 1].kind = "has_name"
        /\ File(saver, whole)[k + 1].value = (op.name # NoName)
        /\ k + 2 <= n
        /\ op.name = NoName => File(saver, whole)[k + 2].kind = "types"
        /\ op.name # NoName =>
             /\ k + 3 <= n
             /\ File(saver, whole)[k + 2].kind = "name"
             /\ File(saver, whole)[k + 2].value = op.name
             /\ File(saver, whole)[k + 3].kind = "types"
             /\ File(saver, whole)[k + 3].value = op.types
    <3>1. PICK t \in Nat : t = TableLen(saver) /\ t <= n
      BY <1>1, <2>3 DEF FileIs, Holds
    <3>2. /\ 4 * i - 2 = k /\ 4 * i - 1 = k + 1 /\ 4 * i = k + 2 /\ 4 * i + 1 = k + 3
      BY <2>1, <2>3
    <3>3. /\ File(saver, whole)[k] = Field("index", i)
          /\ File(saver, whole)[k + 1] = Field("has_name", op.name # NoName)
          /\ k + 2 <= t
          /\ op.name = NoName => File(saver, whole)[k + 2] = Field("types", op.types)
          /\ op.name # NoName => /\ k + 3 <= t
                                 /\ File(saver, whole)[k + 2] = Field("name", op.name)
                                 /\ File(saver, whole)[k + 3] = Field("types", op.types)
      BY <2>2, <3>1, <3>2 DEF OperatorIn
    <3>4. k + 2 <= n /\ (op.name # NoName => k + 3 <= n)
      BY <3>1, <3>3
    <3> QED BY <3>3, <3>4, FieldIs
  <2>5. /\ Readable(k, "index") => file[k].value = i
        /\ Complete => Readable(k, "index")
    <3>1. k <= Len(File(saver, whole))
      BY <2>3, <2>4
    <3> QED BY <1>1, <2>3, <2>4, <3>1, ReadsField
  <2>6. /\ Readable(k + 1, "has_name") => file[k + 1].value = (op.name # NoName)
        /\ Complete => Readable(k + 1, "has_name")
    <3>1. k + 1 \in Nat \ {0} /\ k + 1 <= Len(File(saver, whole))
      BY <2>3, <2>4
    <3> QED BY <1>1, <2>4, <3>1, ReadsField
  <2>7. CASE op.name = NoName
    <3>1. ~Named(saver)
      <4>1. \E j \in 1..Len(saver.operators) : saver.operators[j].name = NoName
        BY <2>1, <2>7
      <4> QED BY <1>1, <2>1, <4>1, NamedIs DEF NamedBefore, FileIs
    <3>2. ~OperatorAgrees(before.operators[i])
      BY <2>3, <2>6, <2>7 DEF OperatorAgrees
    <3>3. ~Readable(k + 2, "index") /\ ~Readable(k + 2, "count")
      <4>1. k + 2 \in Nat \ {0} /\ k + 2 <= Len(File(saver, whole))
        BY <2>3, <2>4
      <4> QED BY <1>1, <2>4, <2>7, <4>1, ReadsField
    <3>4. ASSUME OperatorUnnamed PROVE Inv'
      <4>1. at' = k + 2 /\ result' = "operators"
        BY <1>5, <2>3, <3>4
      <4>2. Doomed'
        BY <1>2, <3>1, <3>3, <4>1, SameGiven DEF Doomed, Readable
      <4> QED BY <1>4, <4>1, <4>2
    <3> QED BY <1>3, <1>5, <3>1, <3>2, <3>4
  <2>8. CASE op.name # NoName
    <3>1. ~OperatorUnnamed
      BY <2>3, <2>6, <2>8 DEF OperatorUnnamed
    <3>2. /\ Readable(k + 2, "name") => file[k + 2].value = op.name
          /\ Complete => Readable(k + 2, "name")
      <4>1. k + 2 \in Nat \ {0} /\ k + 2 <= Len(File(saver, whole))
        BY <2>3, <2>4
      <4> QED BY <1>1, <2>4, <2>8, <4>1, ReadsField
    <3>3. /\ Readable(k + 3, "types") => file[k + 3].value = op.types
          /\ Complete => Readable(k + 3, "types")
      <4>1. k + 3 \in Nat \ {0} /\ k + 3 <= Len(File(saver, whole))
        BY <2>3, <2>4, <2>8
      <4> QED BY <1>1, <2>4, <2>8, <4>1, ReadsField
    <3>4. ASSUME OperatorAgrees(before.operators[i]) PROVE Inv'
      <4>1. at' = at + 4 /\ i' = i + 1 /\ result' = "operators"
        BY <1>5, <3>1, <3>4
      <4>2. before.operators[i].name = op.name /\ before.operators[i].types = op.types
        BY <2>3, <3>2, <3>3, <3>4 DEF OperatorAgrees
      <4>3. before.operators[i] = saver.operators[i]
        <5>1. /\ i \in 1..Len(before.operators) /\ i \in 1..Len(saver.operators)
          BY <1>1, <2>1, <1>7 DEF Matched
        <5>2. before.operators[i] = [name |-> before.operators[i].name,
                                     types |-> before.operators[i].types]
          BY <1>1, <5>1 DEF FileIs, IsProgram
        <5>3. saver.operators[i] = [name |-> saver.operators[i].name,
                                    types |-> saver.operators[i].types]
          BY <1>1, <5>1 DEF FileIs, IsProgram
        <5> QED BY <4>2, <5>2, <5>3
      <4>4. Matched'
        <5>1. PICK x \in Nat, m \in Nat : x = i /\ m = Len(saver.operators) /\ 1 <= x /\ x <= m
          <6>1. i \in Nat /\ Len(saver.operators) \in Nat /\ i \in 1..Len(saver.operators)
            BY <2>1
          <6>2. PICK m \in Nat : m = Len(saver.operators)
            BY <6>1
          <6>3. PICK x \in Nat : x = i
            BY <6>1
          <6>4. x \in 1..m
            BY <6>1, <6>2, <6>3, Zenon
          <6>5. 1 <= x /\ x <= m
            BY <6>4
          <6> QED BY <6>2, <6>3, <6>5, Zenon
        <5>2. at' = (4 * x - 2) + 4 /\ i' = x + 1
          BY <2>1, <4>1, <5>1
        <5>3. i' \in 1..(m + 1) /\ at' = 4 * i' - 2 /\ i' - 1 = x
          BY <5>1, <5>2
        <5>4. \A j \in 1..x : j \in 1..(x - 1) \/ j = x
          OBVIOUS
        <5>5. \A j \in 1..(i' - 1) :
                saver.operators[j].name # NoName /\ before.operators[j] = saver.operators[j]
          BY <2>1, <2>8, <4>3, <5>1, <5>3, <5>4
        <5>6. Len(before.operators) = m
          BY <1>7, <5>1 DEF Matched
        <5> QED BY <1>2, <5>1, <5>3, <5>5, <5>6, SameGiven DEF Matched
      <4> QED BY <1>4, <4>1, <4>4
    <3>5. ASSUME ~OperatorAgrees(before.operators[i]) PROVE Inv'
      <4>1. Complete => before.operators # saver.operators
        BY <2>3, <2>5, <2>6, <2>8, <3>2, <3>3, <3>5 DEF OperatorAgrees
      <4>2. result' = "refused"
        BY <1>5, <3>1, <3>5
      <4> QED BY <1>3, <4>1, <4>2 DEF Fits
    <3> QED BY <3>4, <3>5
  <2> QED BY <2>7, <2>8
<1> QED BY <1>6, <1>7


-----------------------------------------------------------------------------
(* The steps that load the data.                                           *)

\* vector::resize gives the length asked for.
LEMMA ResizedIs ==
    ASSUME NEW h, Len(h) \in Nat, h = [k \in 1..Len(h) |-> h[k]], NEW n \in Nat
    PROVE  /\ Len(Resized(h, n)) = n
           /\ Resized(h, n) = [j \in 1..n |-> Resized(h, n)[j]]
<1>1. PICK V : V = {h[k] : k \in 1..Len(h)} \cup {<<Fresh, k>> : k \in 1..n}
  OBVIOUS
<1>2. h \in Seq(V)
  <2>1. h \in [1..Len(h) -> V]
    BY <1>1
  <2> QED BY <2>1, FunctionLength
<1>3. PICK m \in Nat : m = Len(h)
  OBVIOUS
<1>4. CASE n <= m
  <2>1. Resized(h, n) = SubSeq(h, 1, n)
    BY <1>3, <1>4 DEF Resized
  <2>2. SubSeq(h, 1, n) \in Seq(V) /\ Len(SubSeq(h, 1, n)) = n
    BY <1>2, <1>3, <1>4
  <2> QED BY <2>1, <2>2
<1>5. CASE n > m
  <2>1. PICK u : u = [k \in 1..(n - m) |-> <<Fresh, k>>]
    OBVIOUS
  <2>2. u \in Seq(V) /\ Len(u) = n - m
    <3>1. n - m \in Nat
      BY <1>5
    <3>2. u \in [1..(n - m) -> V]
      BY <1>1, <2>1
    <3> QED BY <3>1, <3>2, FunctionLength
  <2>3. PICK t : t = h \o u
    OBVIOUS
  <2>4. t \in Seq(V) /\ Len(t) = Len(h) + Len(u)
    BY <1>2, <2>2, <2>3, Joined
  <2>5. Resized(h, n) = t
    <3>1. ~(n <= Len(h))
      BY <1>3, <1>5
    <3>2. u = [k \in 1..(n - Len(h)) |-> <<Fresh, k>>]
      BY <1>3, <2>1, Zenon
    <3> QED BY <2>3, <3>1, <3>2, Zenon DEF Resized
  <2>6. Len(t) = n
    BY <1>3, <2>2, <2>4
  <2> QED BY <2>4, <2>5, <2>6
<1> QED BY <1>4, <1>5

\* A population that is not larger grows to the size that was saved.
LEMMA GrownIs ==
    ASSUME NEW q, Len(q) \in Nat, q = [k \in 1..Len(q) |-> q[k]],
           NEW n \in Nat, Len(q) <= n
    PROVE  /\ Len(Grown(q, n)) = n
           /\ Grown(q, n) = [j \in 1..n |-> Grown(q, n)[j]]
<1> DEFINE new == [fitness |-> <<Fresh, 0>>, tree |-> <<Fresh, 0>>]
<1>1. PICK V : V = {q[k] : k \in 1..Len(q)} \cup {new}
  OBVIOUS
<1>2. q \in Seq(V)
  <2>1. q \in [1..Len(q) -> V]
    BY <1>1
  <2> QED BY <2>1, FunctionLength
<1>3. PICK m \in Nat : m = Len(q)
  OBVIOUS
<1>4. PICK u : u = [k \in 1..(n - m) |-> new]
  OBVIOUS
<1>5. u \in Seq(V) /\ Len(u) = n - m
  <2>1. n - m \in Nat
    BY <1>3
  <2>2. u \in [1..(n - m) -> V]
    BY <1>1, <1>4
  <2> QED BY <2>1, <2>2, FunctionLength
<1>6. PICK t : t = q \o u
  OBVIOUS
<1>7. t \in Seq(V) /\ Len(t) = Len(q) + Len(u)
  BY <1>2, <1>5, <1>6, Joined
<1>8. Grown(q, n) = t
  <2>1. u = [k \in 1..(n - Len(q)) |-> new]
    BY <1>3, <1>4, Zenon
  <2> QED BY <1>6, <2>1, Zenon DEF Grown
<1>9. Len(t) = n
  BY <1>3, <1>5, <1>7
<1> QED BY <1>7, <1>8, <1>9

\* Past the operators, what was checked stays checked.
LEMMA StillChecked ==
    ASSUME Inv, UNCHANGED given,
           result \in {"history", "generation", "individuals"},
           result' \in Results \ {"operator count", "operators", "refused"},
           result' = "history" => result = "history"
    PROVE  /\ Given' /\ Untouched' /\ Checked'
           /\ whole => Named(saver) /\ before.operators = saver.operators
<1>1. whole => Named(saver) /\ before.operators = saver.operators
  BY DEF Inv, Checked
<1>2. Given' /\ Untouched'
  BY SameGiven DEF Inv, Untouched
<1>3. /\ result' \notin {"operator count", "operators"}
      /\ result' = "history" => whole'
  BY SameGiven DEF Inv, Checked
<1>4. whole' => Named(saver)' /\ before'.operators = saver'.operators
  BY <1>1, SameGiven
<1>5. Checked'
  BY <1>3, <1>4 DEF Checked
<1> QED BY <1>1, <1>2, <1>5

\* When the last operator has been compared.
LEMMA AllMatched ==
    ASSUME Inv, FileIs, Matched, i > Len(before.operators), whole
    PROVE  /\ Named(saver) /\ before.operators = saver.operators
           /\ at = TableLen(saver) + 1
<1>1. Len(before.operators) = Len(saver.operators) /\ Len(saver.operators) \in Nat
  BY DEF Matched, FileIs, IsProgram
<1>2. PICK n \in Nat : n = Len(saver.operators)
  BY <1>1
<1>3. i \in 1..(n + 1) /\ i > n
  BY <1>1, <1>2 DEF Matched
<1>4. i = n + 1
  BY <1>3
<1>5. i - 1 = n /\ at = 4 * n + 2
  <2>1. at = 4 * (n + 1) - 2
    BY <1>4 DEF Matched
  <2> QED BY <1>4, <2>1
<1>6. \A j \in 1..n : saver.operators[j].name # NoName /\ before.operators[j] = saver.operators[j]
  BY <1>5 DEF Matched
<1>7. NamedBefore(saver, n + 1)
  <2>1. (n + 1) - 1 = n
    OBVIOUS
  <2> QED BY <1>6, <2>1 DEF NamedBefore
<1>8. Named(saver)
  BY <1>2, <1>7, NamedIs DEF FileIs
<1>9. before.operators = saver.operators
  <2>1. before.operators = [k \in 1..n |-> before.operators[k]]
    BY <1>1, <1>2 DEF FileIs, IsProgram
  <2>2. saver.operators = [k \in 1..n |-> saver.operators[k]]
    BY <1>1, <1>2 DEF FileIs, IsProgram
  <2> QED BY <1>6, <2>1, <2>2
<1>10. TableLen(saver) = 1 + 4 * n
  BY <1>2, <1>7 DEF FileIs, Holds
<1> QED BY <1>5, <1>8, <1>9, <1>10

\* The data is begun only behind operators that agree, and at its first field.
LEMMA LoadHistoryCountKeeps == Inv /\ LoadHistoryCount => Inv'
<1> SUFFICES ASSUME Inv, LoadHistoryCount PROVE Inv'
  OBVIOUS
<1>1. /\ result = "operators" /\ prog = before /\ whole
      /\ FileIs /\ Given /\ (Matched \/ Doomed) /\ i > Len(before.operators)
  BY FileFits DEF LoadHistoryCount, Inv, Checked, Untouched
<1>2. UNCHANGED given
  BY DEF LoadHistoryCount, Refuse, Misread, given
<1>3. ASSUME AtEnd \/ ~Readable(at, "count"), result' \in {"refused", "misread"}, prog' = prog,
             ~Fits \/ ~Named(saver),
             result' = "misread" => ~Named(saver) \/ before.operators = saver.operators
      PROVE  Inv'
  BY <1>1, <1>2, <1>3, SameGiven
      DEF Inv, Results, Shape, Untouched, Checked, Restoring, Reading
<1>4. CASE ~Matched
  <2>1. ~Named(saver) /\ ~Readable(at, "count")
    BY <1>1, <1>4 DEF Doomed
  <2>2. result' \in {"refused", "misread"} /\ prog' = prog
    BY <2>1 DEF LoadHistoryCount, Refuse, Misread
  <2> QED BY <1>3, <2>1, <2>2
<1>5. CASE Matched
  <2>1. Named(saver) /\ before.operators = saver.operators /\ at = TableLen(saver) + 1
    BY <1>1, <1>5, AllMatched
  <2>2. PICK k \in Nat \ {0}, h \in Nat :
          k = at /\ h = Len(saver.history) /\ k <= Len(File(saver, whole))
    BY <1>1, <2>1, CountsLie
  <2>3. /\ Readable(at, "count") => file[at].value = Len(saver.history)
        /\ Complete => Readable(at, "count") /\ at <= Len(file)
    <3>1. File(saver, whole)[k] = Field("count", Len(saver.history))
      BY <1>1, <2>1, <2>2 DEF FileIs, Holds
    <3>2. /\ File(saver, whole)[k].kind = "count"
          /\ File(saver, whole)[k].value = Len(saver.history)
      BY <3>1, FieldIs
    <3> QED BY <1>1, <2>2, <3>2, ReadsField
  <2>4. CASE AtEnd /\ Refuse
    <3>1. ~Complete
      BY <1>1, <2>2, <2>3, <2>4 DEF AtEnd, FileIs
    <3> QED BY <1>3, <2>4, <3>1 DEF Refuse, Fits
  <2>5. CASE Misread("count")
    <3>1. ~Complete
      BY <2>3, <2>5 DEF Misread
    <3> QED BY <1>3, <2>1, <2>5, <3>1 DEF Misread, Fits
  <2>6. CASE /\ Readable(at, "count")
             /\ prog' = [prog EXCEPT !.history = Resized(@, file[at].value)]
             /\ at' = at + 1 /\ Goto("history")
    <3>1. PICK u : u = Resized(before.history, Len(saver.history))
      OBVIOUS
    <3>2. Len(u) = Len(saver.history) /\ u = [j \in 1..Len(saver.history) |-> u[j]]
      BY <1>1, <3>1, ResizedIs, SMTT(20) DEF FileIs, IsProgram
    <3>3. prog' = [operators |-> before.operators, history |-> u,
                   stats |-> before.stats, pop |-> before.pop]
      <4>1. before = [operators |-> before.operators, history |-> before.history,
                      stats |-> before.stats, pop |-> before.pop]
        BY <1>1 DEF FileIs, IsProgram
      <4> QED BY <1>1, <2>3, <2>6, <3>1, <4>1
    <3>4. result' = "history" /\ i' = 1 /\ at' = k + 1
      BY <2>2, <2>6 DEF Goto
    <3>5. Given' /\ result' \in Results /\ Untouched' /\ Checked'
      BY <1>1, <1>2, <2>1, <3>4, SameGiven DEF Results, Untouched, Checked
    <3>6. Shape'
      BY <1>2, <3>3, SameGiven DEF Shape
    <3>7. Reading'
      <4>1. 1 \in 1..(h + 1) /\ k + 1 = TableLen(saver) + 1 + 1 /\ \A j \in 1..(1 - 1) : FALSE
        BY <1>1, <2>1, <2>2
      <4>2. /\ prog'.pop = before.pop /\ prog'.history = u
        BY <3>3
      <4> QED BY <1>2, <2>2, <3>2, <3>4, <4>1, <4>2, SameGiven DEF Reading
    <3> QED BY <3>5, <3>6, <3>7 DEF Inv, Restoring
  <2> QED BY <2>4, <2>5, <2>6 DEF LoadHistoryCount
<1> QED BY <1>4, <1>5


\* One more statistic of the history has been restored.
LEMMA LoadHistoryKeeps == Inv /\ LoadHistory => Inv'
<1> SUFFICES ASSUME Inv, LoadHistory PROVE Inv'
  OBVIOUS
<1>1. /\ result = "history" /\ whole /\ i <= Len(prog.history)
      /\ FileIs /\ Given /\ Shape
  BY FileFits DEF LoadHistory, Inv, Checked
<1>2. UNCHANGED given
  BY DEF LoadHistory, Misread, given
<1>3. result' \in {"history", "misread"}
  BY <1>1 DEF LoadHistory, Misread
<1>4. /\ Given' /\ Untouched' /\ Checked' /\ result' \in Results
      /\ Named(saver) /\ before.operators = saver.operators
  BY <1>1, <1>2, <1>3, StillChecked DEF Results
<1>5. ASSUME Fits
      PROVE  /\ i \in 1..Len(saver.history) /\ at = TableLen(saver) + 1 + i
             /\ Readable(at, "stat") /\ ~AtEnd
             /\ file[at].value = saver.history[i]
  <2>1. /\ i \in 1..(Len(saver.history) + 1) /\ at = TableLen(saver) + 1 + i
        /\ Len(prog.history) = Len(saver.history)
    BY <1>1, <1>5 DEF Inv, Restoring, Reading
  <2>2. PICK t \in Nat \ {0}, h \in Nat :
          /\ t = TableLen(saver) + 1 /\ h = Len(saver.history)
          /\ t + h + 1 = Behind(saver, whole)
    BY <1>1, CountsLie
  <2>3. Behind(saver, whole) <= Len(File(saver, whole)) /\ Len(File(saver, whole)) \in Nat
    <3>1. PICK f \in Nat, n \in Nat : /\ f = Behind(saver, whole)
                                    /\ Len(File(saver, whole)) = f + 1 + 2 * n
      BY <1>1, CountsLie
    <3> QED BY <3>1
  <2>4. i \in 1..h
    <3>1. i \in 1..(h + 1) /\ i <= h
      BY <1>1, <2>1, <2>2
    <3> QED BY <3>1
  <2>5. PICK k \in Nat \ {0} : k = t + i /\ k = at /\ k <= Len(File(saver, whole))
    <3>1. t + i \in Nat \ {0} /\ t + i <= Behind(saver, whole)
      BY <2>2, <2>4
    <3>2. at = t + i
      BY <2>1, <2>2
    <3> QED BY <2>3, <2>2, <3>1, <3>2
  <2>6. File(saver, whole)[k] = Field("stat", saver.history[i])
    BY <1>1, <2>1, <2>2, <2>4, <2>5 DEF FileIs, Holds, StatField
  <2>7. /\ File(saver, whole)[k].kind = "stat"
        /\ File(saver, whole)[k].value = saver.history[i]
    BY <2>6, FieldIs
  <2>8. Readable(k, "stat") /\ k <= Len(file) /\ file[k].value = saver.history[i]
    BY <1>1, <1>5, <2>5, <2>7, ReadsField DEF Fits
  <2>9. ~AtEnd
    BY <1>1, <2>5, <2>8 DEF AtEnd, FileIs
  <2> QED BY <2>1, <2>2, <2>4, <2>5, <2>8, <2>9
<1>6. CASE Misread("stat")
  <2>1. ~Fits /\ prog' = prog
    BY <1>5, <1>6 DEF Misread
  <2> QED BY <1>1, <1>2, <1>4, <2>1, SameGiven DEF Inv, Shape, Restoring
<1>7. CASE /\ i' = i + 1 /\ prog' = [prog EXCEPT !.history[i] = LoadedStat(@)]
           /\ at' = PastStat /\ result' = "history"
  <2>1. PICK u : u = [prog.history EXCEPT ![i] = LoadedStat(@)]
    OBVIOUS
  <2>2. prog' = [operators |-> before.operators, history |-> u,
                 stats |-> prog.stats, pop |-> prog.pop]
    BY <1>1, <1>7, <2>1 DEF Shape
  <2>3. Shape'
    BY <1>2, <2>2, SameGiven DEF Shape
  <2>4. ASSUME Fits PROVE Reading'
    <3>1. /\ prog.pop = before.pop /\ Len(prog.history) = Len(saver.history)
          /\ prog.history = [j \in 1..Len(saver.history) |-> prog.history[j]]
          /\ \A j \in 1..(i - 1) : prog.history[j] = saver.history[j]
      BY <1>1, <2>4 DEF Inv, Restoring, Reading
    <3>2. LoadedStat(prog.history[i]) = saver.history[i]
      BY <1>5, <2>4 DEF LoadedStat
    <3>3. PICK h \in Nat : h = Len(saver.history)
      BY <1>1 DEF FileIs, IsProgram
    <3>4. i \in 1..h
      BY <1>5, <2>4, <3>3
    <3>5. u = [j \in 1..h |-> IF j = i THEN saver.history[i] ELSE prog.history[j]]
      BY <2>1, <3>1, <3>2, <3>3, <3>4
    <3>6. Len(u) = h /\ u = [j \in 1..h |-> u[j]]
      <4>1. u = [j \in 1..h |-> u[j]]
        BY <3>5
      <4>2. u \in [1..h -> {u[j] : j \in 1..h}]
        BY <4>1
      <4> QED BY <4>1, <4>2, FunctionLength
    <3>7. \A j \in 1..i : u[j] = saver.history[j]
      <4>1. \A j \in 1..i : j \in 1..h /\ (j \in 1..(i - 1) \/ j = i)
        BY <3>4
      <4> QED BY <3>1, <3>5, <4>1
    <3>8. /\ i + 1 \in 1..(h + 1) /\ (i + 1) - 1 = i
          /\ at + 1 = TableLen(saver) + 1 + (i + 1)
      <4>1. PICK t \in Nat : t = TableLen(saver)
        BY <1>1, FileLen
      <4>2. at = t + 1 + i
        BY <1>5, <2>4, <4>1
      <4> QED BY <3>4, <4>1, <4>2
    <3>9. /\ i' \in 1..(h + 1) /\ i' - 1 = i
          /\ at' = TableLen(saver) + 1 + i'
      <4>1. at' = at + 1
        BY <1>5, <1>7, <2>4 DEF PastStat
      <4> QED BY <1>7, <3>8, <4>1
    <3>10. prog'.history = u /\ prog'.pop = before.pop
      BY <2>2, <3>1
    <3>11. \A j \in 1..(i' - 1) : prog'.history[j] = saver.history[j]
      BY <3>7, <3>9, <3>10
    <3>12. PICK m : m = Len(saver.history)
      OBVIOUS
    <3>13. /\ prog'.pop = before.pop /\ result' = "history"
           /\ i' \in 1..(m + 1) /\ at' = TableLen(saver) + 1 + i'
           /\ Len(prog'.history) = m
           /\ prog'.history = [j \in 1..m |-> prog'.history[j]]
      BY <1>7, <3>3, <3>6, <3>9, <3>10, <3>12, Zenon
    <3>14. m = Len(saver'.history) /\ TableLen(saver)' = TableLen(saver)
           /\ saver' = saver /\ before' = before
      BY <1>2, <3>12, SameGiven
    <3> QED BY <3>11, <3>13, <3>14 DEF Reading
  <2>5. Restoring'
    BY <1>2, <2>4, SameGiven DEF Restoring
  <2> QED BY <1>4, <2>3, <2>5 DEF Inv
<1> QED BY <1>1, <1>6, <1>7 DEF LoadHistory

\* The current statistics follow the history.
LEMMA LoadCurrentStatsKeeps == Inv /\ LoadCurrentStats => Inv'
<1> SUFFICES ASSUME Inv, LoadCurrentStats PROVE Inv'
  OBVIOUS
<1>1. /\ result = "history" /\ whole /\ i > Len(prog.history)
      /\ FileIs /\ Given /\ Shape
  BY FileFits DEF LoadCurrentStats, Inv, Checked
<1>2. UNCHANGED given
  BY DEF LoadCurrentStats, Misread, given
<1>3. result' \in {"generation", "misread"}
  BY DEF LoadCurrentStats, Misread, Goto
<1>4. /\ Given' /\ Untouched' /\ Checked' /\ result' \in Results
      /\ Named(saver) /\ before.operators = saver.operators
  BY <1>1, <1>2, <1>3, StillChecked DEF Results
<1>5. ASSUME Fits
      PROVE  /\ prog.history = saver.history /\ at \in Nat
             /\ at = Behind(saver, whole)
             /\ Readable(at, "stat") /\ ~AtEnd
             /\ file[at].value = saver.stats
  <2>1. /\ i \in 1..(Len(saver.history) + 1) /\ at = TableLen(saver) + 1 + i
        /\ Len(prog.history) = Len(saver.history)
        /\ prog.history = [j \in 1..Len(saver.history) |-> prog.history[j]]
        /\ \A j \in 1..(i - 1) : prog.history[j] = saver.history[j]
    BY <1>1, <1>5 DEF Inv, Restoring, Reading
  <2>2. PICK t \in Nat \ {0}, h \in Nat :
          /\ t = TableLen(saver) + 1 /\ h = Len(saver.history)
          /\ t + h + 1 = Behind(saver, whole)
    BY <1>1, CountsLie
  <2>3. Behind(saver, whole) <= Len(File(saver, whole)) /\ Len(File(saver, whole)) \in Nat
    <3>1. PICK f \in Nat, n \in Nat : /\ f = Behind(saver, whole)
                                    /\ Len(File(saver, whole)) = f + 1 + 2 * n
      BY <1>1, CountsLie
    <3> QED BY <3>1
  <2>4. i = h + 1 /\ i - 1 = h
    <3>1. i \in 1..(h + 1) /\ i > h
      BY <1>1, <2>1, <2>2
    <3> QED BY <3>1
  <2>5. PICK k \in Nat \ {0} :
          k = t + h + 1 /\ k = at /\ k = Behind(saver, whole) /\ k <= Len(File(saver, whole))
    <3>1. t + h + 1 \in Nat \ {0} /\ t + (h + 1) = t + h + 1
      BY <2>2
    <3>2. at = t + (h + 1)
      BY <2>1, <2>2, <2>4
    <3> QED BY <2>3, <2>2, <3>1, <3>2
  <2>6. File(saver, whole)[k] = Field("stat", saver.stats)
    <3>1. TableLen(saver) + Len(saver.history) + 2 = k
      <4>1. PICK l \in Nat : l = TableLen(saver)
        BY <1>1, FileLen
      <4>2. t = l + 1 /\ k = t + h + 1
        BY <2>2, <2>5, <4>1
      <4>3. l + h + 2 = k
        BY <4>2
      <4> QED BY <2>2, <4>1, <4>3
    <3> QED BY <1>1, <3>1 DEF FileIs, Holds, StatField
  <2>7. /\ File(saver, whole)[k].kind = "stat"
        /\ File(saver, whole)[k].value = saver.stats
    BY <2>6, FieldIs
  <2>8. Readable(k, "stat") /\ k <= Len(file) /\ file[k].value = saver.stats
    BY <1>1, <1>5, <2>5, <2>7, ReadsField DEF Fits
  <2>9. ~AtEnd
    <3>1. PICK l \in Nat : l = Len(file)
      BY <1>1 DEF FileIs
    <3>2. at \in Nat /\ at <= l
      BY <2>5, <2>8, <3>1
    <3> QED BY <3>1, <3>2 DEF AtEnd
  <2>10. prog.history = saver.history
    <3>1. saver.history = [j \in 1..h |-> saver.history[j]]
      BY <1>1, <2>2 DEF FileIs, IsProgram
    <3>2. \A j \in 1..h : prog.history[j] = saver.history[j]
      BY <2>1, <2>4
    <3>3. prog.history = [j \in 1..h |-> prog.history[j]]
      BY <2>1, <2>2
    <3> QED BY <3>1, <3>2, <3>3
  <2> QED BY <2>5, <2>8, <2>9, <2>10
<1>6. CASE Misread("stat")
  <2>1. ~Fits /\ prog' = prog
    BY <1>5, <1>6 DEF Misread
  <2> QED BY <1>1, <1>2, <1>4, <2>1, SameGiven DEF Inv, Shape, Restoring
<1>7. CASE /\ Goto("generation") /\ prog' = [prog EXCEPT !.stats = LoadedStat(@)]
           /\ at' = PastStat
  <2>1. prog' = [operators |-> before.operators, history |-> prog.history,
                 stats |-> LoadedStat(prog.stats), pop |-> prog.pop]
    BY <1>1, <1>7 DEF Shape
  <2>2. Shape'
    BY <1>2, <2>1, SameGiven DEF Shape
  <2>3. ASSUME Fits PROVE Reading'
    <3>1. prog.pop = before.pop
      BY <1>1, <2>3 DEF Inv, Restoring, Reading
    <3>2. LoadedStat(prog.stats) = saver.stats
      BY <1>5, <2>3 DEF LoadedStat
    <3>3. at' = Behind(saver, whole) + 1 /\ result' = "generation"
      BY <1>5, <1>7, <2>3 DEF PastStat, Goto
    <3>4. prog'.pop = before.pop /\ prog'.history = saver.history /\ prog'.stats = saver.stats
      BY <1>5, <2>1, <2>3, <3>1, <3>2
    <3> QED BY <1>1, <1>2, <3>3, <3>4, SameGiven DEF Reading, DataRestored, DataIs
  <2>4. Restoring'
    BY <1>2, <2>3, SameGiven DEF Restoring
  <2> QED BY <1>4, <2>2, <2>4 DEF Inv
<1> QED BY <1>6, <1>7 DEF LoadCurrentStats


\* The generation is as large as the one that was saved.
LEMMA LoadGenerationCountKeeps == Inv /\ LoadGenerationCount => Inv'
<1> SUFFICES ASSUME Inv, LoadGenerationCount PROVE Inv'
  OBVIOUS
<1>1. /\ result = "generation" /\ FileIs /\ Given /\ Shape /\ whole \in BOOLEAN
  BY FileFits DEF LoadGenerationCount, Inv, FileIs
<1>2. UNCHANGED given
  BY DEF LoadGenerationCount, Misread, EndsEarly, given
<1>3. result' \in {"individuals", "misread", "loaded", "failed"}
  BY DEF LoadGenerationCount, Misread, EndsEarly, Goto
<1>4. Given' /\ Untouched' /\ Checked' /\ result' \in Results
  BY <1>1, <1>2, <1>3, StillChecked DEF Results
<1>5. ASSUME Fits
      PROVE  /\ at = Behind(saver, whole) + 1
             /\ Readable(at, "count") /\ ~AtEnd
             /\ file[at].value = Len(saver.pop)
  <2>1. at = Behind(saver, whole) + 1
    BY <1>1, <1>5 DEF Inv, Restoring, Reading
  <2>2. PICK f \in Nat, n \in Nat : /\ f = Behind(saver, whole)
                                  /\ Len(File(saver, whole)) = f + 1 + 2 * n
    BY <1>1, CountsLie
  <2>3. PICK k \in Nat \ {0} : k = f + 1 /\ k = at /\ k <= Len(File(saver, whole))
    BY <2>1, <2>2
  <2>4. File(saver, whole)[k] = Field("count", Len(saver.pop))
    BY <1>1, <2>2, <2>3 DEF FileIs, Holds
  <2>5. /\ File(saver, whole)[k].kind = "count"
        /\ File(saver, whole)[k].value = Len(saver.pop)
    BY <2>4, FieldIs
  <2>6. Readable(k, "count") /\ k <= Len(file) /\ file[k].value = Len(saver.pop)
    BY <1>1, <1>5, <2>3, <2>5, ReadsField DEF Fits
  <2>7. ~AtEnd
    BY <1>1, <2>3, <2>6 DEF AtEnd, FileIs
  <2> QED BY <2>1, <2>3, <2>6, <2>7
<1>6. CASE EndsEarly \/ Misread("count")
  <2>1. ~Fits /\ prog' = prog
    BY <1>5, <1>6 DEF Misread, EndsEarly
  <2> QED BY <1>1, <1>2, <1>4, <2>1, SameGiven DEF Inv, Shape, Restoring
<1>7. CASE /\ prog' = [prog EXCEPT !.pop = Grown(@, file[at].value)]
           /\ at' = at + 1 /\ Goto("individuals")
  <2>1. PICK u : u = Grown(prog.pop, file[at].value)
    OBVIOUS
  <2>2. prog' = [operators |-> before.operators, history |-> prog.history,
                 stats |-> prog.stats, pop |-> u]
    BY <1>1, <1>7, <2>1 DEF Shape
  <2>3. Shape'
    BY <1>2, <2>2, SameGiven DEF Shape
  <2>4. ASSUME Fits PROVE Reading'
    <3>1. prog.pop = before.pop /\ DataRestored
      BY <1>1, <2>4 DEF Inv, Restoring, Reading
    <3>2. PICK n \in Nat : n = Len(saver.pop)
      BY <1>1 DEF FileIs, IsProgram
    <3>3. u = Grown(before.pop, n)
      BY <1>5, <2>1, <2>4, <3>1, <3>2
    <3>4. Len(before.pop) \in Nat /\ before.pop = [j \in 1..Len(before.pop) |-> before.pop[j]]
      BY <1>1 DEF FileIs, IsProgram
    <3>5. Len(u) = n /\ u = [j \in 1..n |-> u[j]]
      <4>1. Len(before.pop) <= n
        BY <2>4, <3>2 DEF Fits
      <4>2. PICK q : q = before.pop
        OBVIOUS
      <4>3. Len(q) \in Nat /\ q = [j \in 1..Len(q) |-> q[j]] /\ Len(q) <= n
        BY <3>4, <4>1, <4>2, Zenon
      <4>4. Len(Grown(q, n)) = n /\ Grown(q, n) = [j \in 1..n |-> Grown(q, n)[j]]
        BY <4>3, GrownIs
      <4> QED BY <3>3, <4>2, <4>4, Zenon
    <3>6. /\ 1 \in 1..(n + 1) /\ \A j \in 1..(1 - 1) : FALSE
          /\ at' = Behind(saver, whole) + 2 * 1
      <4>1. PICK f \in Nat : f = Behind(saver, whole)
        BY <1>1, FileLen
      <4>2. at = f + 1 /\ at' = at + 1
        BY <1>5, <1>7, <2>4, <4>1
      <4> QED BY <4>1, <4>2
    <3>7. /\ prog'.pop = u /\ prog'.history = prog.history /\ prog'.stats = prog.stats
          /\ result' = "individuals" /\ i' = 1
      BY <1>7, <2>2 DEF Goto
    <3>8. DataRestored'
      BY <1>2, <3>1, <3>7, SameGiven DEF DataRestored, DataIs
    <3> QED BY <1>2, <3>2, <3>5, <3>6, <3>7, <3>8, SameGiven DEF Reading
  <2>5. Restoring'
    BY <1>2, <2>4, SameGiven DEF Restoring
  <2> QED BY <1>4, <2>3, <2>5 DEF Inv
<1> QED BY <1>6, <1>7 DEF LoadGenerationCount

\* One more individual has been restored, its tree behind its fitness.
LEMMA LoadIndividualKeeps == Inv /\ LoadIndividual => Inv'
<1> SUFFICES ASSUME Inv, LoadIndividual PROVE Inv'
  OBVIOUS
<1>1. /\ result = "individuals" /\ i <= Len(prog.pop)
      /\ FileIs /\ Given /\ Shape /\ whole \in BOOLEAN
  BY FileFits DEF LoadIndividual, Inv, FileIs
<1>2. UNCHANGED given
  BY DEF LoadIndividual, Misread, EndsEarly, TreeMissing, given
<1>3. result' \in {"individuals", "misread", "loaded", "failed", "aborted"}
  BY <1>1 DEF LoadIndividual, Misread, EndsEarly, TreeMissing, Goto
<1>4. Given' /\ Untouched' /\ Checked' /\ result' \in Results
  BY <1>1, <1>2, <1>3, StillChecked DEF Results
<1>5. ASSUME Fits
      PROVE  /\ i \in 1..Len(saver.pop) /\ at = Behind(saver, whole) + 2 * i
             /\ Readable(at, "fitness") /\ ~AtEnd /\ at # Len(file)
             /\ Readable(at + 1, "tree")
             /\ [fitness |-> file[at].value, tree |-> LoadedTree] = saver.pop[i]
  <2>1. /\ i \in 1..(Len(saver.pop) + 1) /\ at = Behind(saver, whole) + 2 * i
        /\ Len(prog.pop) = Len(saver.pop)
    BY <1>1, <1>5 DEF Inv, Restoring, Reading
  <2>2. PICK f \in Nat, n \in Nat : /\ f = Behind(saver, whole) /\ n = Len(saver.pop)
                                  /\ Len(File(saver, whole)) = f + 1 + 2 * n
    BY <1>1, CountsLie
  <2>3. i \in 1..n
    <3>1. i \in 1..(n + 1) /\ i <= n
      BY <1>1, <2>1, <2>2
    <3> QED BY <3>1
  <2>4. PICK k \in Nat \ {0} :
          /\ k = f + 2 * i /\ k = at /\ k + 1 \in Nat \ {0}
          /\ k <= Len(File(saver, whole)) /\ k + 1 <= Len(File(saver, whole))
    <3>1. /\ f + 2 * i \in Nat \ {0} /\ f + 2 * i + 1 <= f + 1 + 2 * n
          /\ f + 2 * i <= f + 1 + 2 * n
      BY <2>3
    <3>2. at = f + 2 * i
      BY <2>1, <2>2
    <3> QED BY <2>2, <3>1, <3>2
  <2>5. /\ File(saver, whole)[k] = Field("fitness", saver.pop[i].fitness)
        /\ File(saver, whole)[k + 1] = Field("tree", saver.pop[i].tree)
    BY <1>1, <2>2, <2>3, <2>4 DEF FileIs, Holds, TreeField
  <2>6. /\ File(saver, whole)[k].kind = "fitness"
        /\ File(saver, whole)[k].value = saver.pop[i].fitness
        /\ File(saver, whole)[k + 1].kind = "tree"
        /\ File(saver, whole)[k + 1].value = saver.pop[i].tree
    BY <2>5, FieldIs
  <2>7. Readable(k, "fitness") /\ k <= Len(file) /\ file[k].value = saver.pop[i].fitness
    BY <1>1, <1>5, <2>4, <2>6, ReadsField DEF Fits
  <2>8. Readable(k + 1, "tree") /\ k + 1 <= Len(file) /\ file[k + 1].value = saver.pop[i].tree
    BY <1>1, <1>5, <2>4, <2>6, ReadsField DEF Fits
  <2>9. ~AtEnd /\ at # Len(file)
    BY <1>1, <2>4, <2>7, <2>8 DEF AtEnd, FileIs
  <2>10. saver.pop[i] = [fitness |-> saver.pop[i].fitness, tree |-> saver.pop[i].tree]
    BY <1>1, <2>2, <2>3 DEF FileIs, IsProgram
  <2> QED BY <2>1, <2>2, <2>3, <2>4, <2>7, <2>8, <2>9, <2>10 DEF LoadedTree
<1>6. CASE ~Fits /\ prog' = prog
  BY <1>1, <1>2, <1>4, <1>6, SameGiven DEF Inv, Shape, Restoring
<1>7. CASE /\ prog' = [prog EXCEPT !.pop[i] = [fitness |-> file[at].value, tree |-> LoadedTree]]
           /\ at' = at + 2 /\ i' = i + 1 /\ result' = result
  <2>1. PICK x : x = [fitness |-> file[at].value, tree |-> LoadedTree]
    OBVIOUS
  <2>2. PICK u : u = [prog.pop EXCEPT ![i] = x]
    OBVIOUS
  <2>3. prog' = [operators |-> before.operators, history |-> prog.history,
                 stats |-> prog.stats, pop |-> u]
    <3>1. prog' = [prog EXCEPT !.pop[i] = x]
      BY <1>7, <2>1, Zenon
    <3>2. prog = [operators |-> before.operators, history |-> prog.history,
                  stats |-> prog.stats, pop |-> prog.pop]
      BY <1>1 DEF Shape
    <3> QED BY <2>2, <3>1, <3>2
  <2>4. Shape'
    BY <1>2, <2>3, SameGiven DEF Shape
  <2>5. ASSUME Fits PROVE Reading'
    <3>1. /\ DataRestored /\ Len(prog.pop) = Len(saver.pop)
          /\ prog.pop = [j \in 1..Len(saver.pop) |-> prog.pop[j]]
          /\ \A j \in 1..(i - 1) : prog.pop[j] = saver.pop[j]
      BY <1>1, <2>5 DEF Inv, Restoring, Reading
    <3>2. x = saver.pop[i]
      BY <1>5, <2>1, <2>5
    <3>3. PICK n \in Nat : n = Len(saver.pop)
      BY <1>1 DEF FileIs, IsProgram
    <3>4. i \in 1..n
      BY <1>5, <2>5, <3>3
    <3>5. u = [j \in 1..n |-> IF j = i THEN saver.pop[i] ELSE prog.pop[j]]
      BY <2>2, <3>1, <3>2, <3>3, <3>4
    <3>6. Len(u) = n /\ u = [j \in 1..n |-> u[j]]
      <4>1. u = [j \in 1..n |-> u[j]]
        BY <3>5
      <4>2. u \in [1..n -> {u[j] : j \in 1..n}]
        BY <4>1
      <4> QED BY <4>1, <4>2, FunctionLength
    <3>7. \A j \in 1..i : u[j] = saver.pop[j]
      <4>1. \A j \in 1..i : j \in 1..n /\ (j \in 1..(i - 1) \/ j = i)
        BY <3>4
      <4> QED BY <3>1, <3>5, <4>1
    <3>8. /\ i + 1 \in 1..(n + 1) /\ (i + 1) - 1 = i
          /\ at + 2 = Behind(saver, whole) + 2 * (i + 1)
      <4>1. PICK f \in Nat : f = Behind(saver, whole)
        BY <1>1, FileLen
      <4>2. at = f + 2 * i
        BY <1>5, <2>5, <4>1
      <4> QED BY <3>4, <4>1, <4>2
    <3>9. prog'.pop = u /\ prog'.history = prog.history /\ prog'.stats = prog.stats
      BY <2>3
    <3>10. DataRestored'
      BY <1>2, <3>1, <3>9, SameGiven DEF DataRestored, DataIs
    <3>11. /\ i' \in 1..(n + 1) /\ i' - 1 = i /\ at' = Behind(saver, whole) + 2 * i'
           /\ result' = "individuals"
      BY <1>1, <1>7, <3>8
    <3>12. \A j \in 1..(i' - 1) : prog'.pop[j] = saver.pop[j]
      BY <3>7, <3>9, <3>11
    <3> QED BY <1>2, <3>3, <3>6, <3>9, <3>10, <3>11, <3>12, SameGiven DEF Reading
  <2>6. Restoring'
    BY <1>2, <2>5, SameGiven DEF Restoring
  <2> QED BY <1>4, <2>4, <2>6 DEF Inv
<1>8. CASE EndsEarly
  BY <1>5, <1>6, <1>8 DEF EndsEarly
<1>9. CASE Misread("fitness")
  BY <1>5, <1>6, <1>9 DEF Misread
<1>10. CASE TreeMissing
  BY <1>5, <1>6, <1>10 DEF TreeMissing
<1>11. CASE ~Readable(at + 1, "tree") /\ Misread("tree")
  BY <1>5, <1>6, <1>11 DEF Misread
<1> QED BY <1>7, <1>8, <1>9, <1>10, <1>11 DEF LoadIndividual

\* When all individuals have been read, they are the ones that were saved.
LEMMA LoadDoneKeeps == Inv /\ LoadDone => Inv'
<1> SUFFICES ASSUME Inv, LoadDone PROVE Inv'
  OBVIOUS
<1>1. /\ result = "individuals" /\ i > Len(prog.pop) /\ prog' = prog /\ result' = "loaded"
      /\ FileIs /\ Given /\ Shape /\ UNCHANGED given
  BY FileFits DEF LoadDone, Inv, Goto
<1>2. Given' /\ Untouched' /\ Checked' /\ result' \in Results
  BY <1>1, StillChecked DEF Results
<1>3. ASSUME Fits PROVE prog.pop = saver.pop /\ DataRestored
  <2>1. /\ DataRestored /\ Len(prog.pop) = Len(saver.pop)
        /\ i \in 1..(Len(saver.pop) + 1)
        /\ prog.pop = [j \in 1..Len(saver.pop) |-> prog.pop[j]]
        /\ \A j \in 1..(i - 1) : prog.pop[j] = saver.pop[j]
    BY <1>1, <1>3 DEF Inv, Restoring, Reading
  <2>2. PICK n \in Nat : n = Len(saver.pop)
    BY <1>1 DEF FileIs, IsProgram
  <2>3. i - 1 = n
    <3>1. i \in 1..(n + 1) /\ i > n
      BY <1>1, <2>1, <2>2
    <3> QED BY <3>1
  <2>4. saver.pop = [j \in 1..n |-> saver.pop[j]]
    BY <1>1, <2>2 DEF FileIs, IsProgram
  <2>5. prog.pop = [j \in 1..n |-> prog.pop[j]] /\ \A j \in 1..n : prog.pop[j] = saver.pop[j]
    BY <2>1, <2>2, <2>3
  <2> QED BY <2>1, <2>4, <2>5
<1>4. Shape'
  BY <1>1, SameGiven DEF Shape
<1>5. Restoring'
  BY <1>1, <1>3, SameGiven DEF Restoring, Reading, DataRestored, DataIs
<1> QED BY <1>2, <1>4, <1>5 DEF Inv

\* No step of load_state breaks the invariant.
LEMMA NextKeeps == Inv /\ [Next]_vars => Inv'
<1>1. ASSUME Inv, UNCHANGED vars PROVE Inv'
  <2>1. /\ UNCHANGED given /\ prog' = prog /\ at' = at /\ i' = i /\ result' = result
        /\ saver' = saver /\ whole' = whole /\ before' = before /\ file' = file
    BY <1>1 DEF vars, given
  <2>2. Given' /\ result' \in Results /\ Shape' /\ Untouched'
    BY <1>1, <2>1, SameGiven DEF Inv, Shape, Untouched
  <2>3. (Matched' <=> Matched) /\ (Doomed' <=> Doomed)
    BY <2>1, SameGiven DEF Matched, Doomed, Readable
  <2>4. Checked'
    BY <1>1, <2>1, <2>3, SameGiven DEF Inv, Checked
  <2>5. DataRestored' <=> DataRestored
    BY <2>1 DEF DataRestored, DataIs
  <2>6. Restoring'
    BY <1>1, <2>1, <2>5, SameGiven DEF Inv, Restoring, Reading
  <2> QED BY <2>2, <2>4, <2>6 DEF Inv
<1>2. Inv /\ Ended => Inv'
  BY <1>1 DEF Ended
<1> QED BY <1>1, <1>2, LoadOperatorCountKeeps, LoadOperatorKeeps, LoadHistoryCountKeeps,
           LoadHistoryKeeps, LoadCurrentStatsKeeps, LoadGenerationCountKeeps,
           LoadIndividualKeeps, LoadDoneKeeps
        DEF Next

\* At every step of load_state, what has been checked and read agrees with what
\* was saved.
THEOREM InvHolds == Spec => []Inv
BY InitEstablishes, NextKeeps, PTL DEF Spec

\* A program that refuses a file is left as it was, for any operators, file and
\* position at which it is refused.
THEOREM RefusedLeavesAlone == Spec => []RefusedIsUntouched
BY InvHolds, Implies, PTL

\* Nothing is loaded from the state of a program with other operators, if that
\* program's operators all have names.
THEOREM OthersAreRefused == Spec => []OtherOperatorsRefused
BY InvHolds, Implies, PTL

\* A complete save comes back exactly, field for field, in a program that holds
\* no more individuals.
THEOREM RestoresExactly == Spec => []RestoredExactly
BY InvHolds, Implies, PTL

\* A complete save of the same, named operators is never refused or misread.
THEOREM LoadsWhatIsComplete == Spec => []CompleteSaveLoads
BY InvHolds, Implies, PTL

=============================================================================
