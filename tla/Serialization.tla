---------------------------- MODULE Serialization ----------------------------
(***************************************************************************)
(* Saving a program's state and loading it into another program            *)
(* (save_state, load_state and what they call, src/src/program.cpp).  A    *)
(* file is the sequence of the fields that are written.  A sync object      *)
(* (src/src/sync.cpp) writes the whole state or the population alone,      *)
(* behind what it has written before or over it.  A population statistic,  *)
(* a fitness, a tree and what is saved of an operator's types are one      *)
(* field each.                                                             *)
(***************************************************************************)
EXTENDS Integers, Sequences, SequencesExt

CONSTANTS
    OperatorTables,     \* sequences of operators: [name, types]
    NoName,             \* an operator without a name
    Saved,              \* the values the saver's data carries
    Unsaved,            \* ... the loader's own data
    Fresh,              \* ... and data that has just been constructed
    MaxHistory,         \* bound on the length of statistic_history
    MaxPop              \* bound on the size of a population

ASSUME SerializationAssumption ==
    /\ MaxHistory \in Nat /\ MaxPop \in Nat
    /\ \A t \in OperatorTables :
         /\ Len(t) \in Nat
         /\ t = [k \in 1..Len(t) |-> [name |-> t[k].name, types |-> t[k].types]]

Stats(v, n) == [i \in 1..n |-> <<v, i>>]
Individuals(v, n) == [i \in 1..n |-> [fitness |-> <<v, i>>, tree |-> <<v, i>>]]

\* operators, statistic_history, current_stats and current_pop; a program may
\* load before it has generated a population.
Programs(v, minPop) ==
    [operators : OperatorTables,
     history : {Stats(v, n) : n \in 0..MaxHistory},
     stats : {<<v, 0>>},
     pop : {Individuals(v, n) : n \in minPop..MaxPop}]

-----------------------------------------------------------------------------
(* save_state and save_generation.                                         *)

Field(kind, value) == [kind |-> kind, value |-> value]

\* Mutated: the types of an operator are not written.
OperatorFieldsShort(op, i) ==
    << Field("index", i), Field("has_name", op.name # NoName) >>
    \o (IF op.name = NoName THEN <<>> ELSE << Field("name", op.name) >>)

OperatorFields(op, i) ==
    << Field("index", i), Field("has_name", op.name # NoName) >>
    \o (IF op.name = NoName THEN <<>> ELSE << Field("name", op.name) >>)
    \o << Field("types", op.types) >>

\* write_stat.
StatField(stat) == Field("stat", stat)

\* to_file.
TreeField(tree) == Field("tree", tree)

\* save_generation.
GenerationFields(pop) ==
    << Field("count", Len(pop)) >>
    \o FlattenSeq([i \in DOMAIN pop |->
                       << Field("fitness", pop[i].fitness), TreeField(pop[i].tree) >>])

OperatorTableFields(p) ==
    << Field("count", Len(p.operators)) >>
    \o FlattenSeq([i \in DOMAIN p.operators |-> OperatorFields(p.operators[i], i)])

\* save_state.
StateFields(p) ==
    OperatorTableFields(p)
    \o << Field("count", Len(p.history)) >>
    \o [i \in DOMAIN p.history |-> StatField(p.history[i])]
    \o << StatField(p.stats) >>
    \o GenerationFields(p.pop)

\* What one trigger of a sync object writes.
File(p, whole) == IF whole THEN StateFields(p) ELSE GenerationFields(p.pop)

\* What is left of an older, longer save behind one that was written over it:
\* it starts in the middle of some field.
Stale == Field("stale", 0)

\* A save may end early, be written over an older one without truncating it, or
\* be followed by the next.  The saves of one program begin with the same
\* operators, so one torn there and written over another looks like the other.
Files(p, whole) ==
    LET full == File(p, whole)
        first == IF whole THEN Len(OperatorTableFields(p)) ELSE 1
    IN  {SubSeq(full, 1, n) : n \in 0..Len(full)}
        \cup {Append(SubSeq(full, 1, n), Stale) : n \in first..Len(full)}
        \cup {full \o full}

-----------------------------------------------------------------------------
VARIABLES
    saver,      \* the program that was saved
    whole,      \* whole_program(), or else generation_only()
    before,     \* the loading program as it was
    file,       \* the file that is loaded
    prog,       \* the loading program
    at,         \* the reader's position in the file
    i,          \* the loop variable of the loop that is running
    result      \* the step load_state is at, or how it ended

vars == <<saver, whole, before, file, prog, at, i, result>>
given == <<saver, whole, before, file>>

Init ==
    /\ saver \in Programs(Saved, 1)
    /\ whole \in BOOLEAN
    /\ before \in Programs(Unsaved, 0)
    /\ file \in Files(saver, whole)
    /\ prog = before
    /\ at = 1 /\ i = 1
    /\ result = IF whole THEN "operator count" ELSE "generation"

\* The next read yields all of a field of this kind.
Readable(k, kind) == k <= Len(file) /\ file[k].kind = kind
AtEnd == at > Len(file)

\* The next read finds a field of another kind, which the code takes for what
\* it wants; nothing that is loaded from here on means anything.
Misread(kind) ==
    /\ ~AtEnd /\ ~Readable(at, kind)
    /\ result' = "misread"
    /\ UNCHANGED <<given, prog, at, i>>

Refuse ==
    /\ result' = "refused"
    /\ UNCHANGED <<given, prog, at, i>>

Goto(step) == result' = step /\ i' = 1

-----------------------------------------------------------------------------
(* The checks that come first.                                             *)

\* Mutated: the history is cleared before the file is known to fit.
LoadOperatorCountClears ==
    /\ result = "operator count"
    /\ prog' = [prog EXCEPT !.history = <<>>]
    /\ IF Readable(at, "count") /\ file[at].value = Len(prog.operators)
       THEN /\ at' = at + 1
            /\ Goto("operators")
            /\ UNCHANGED given
       ELSE result' = "refused" /\ UNCHANGED <<given, at, i>>

LoadOperatorCount ==
    /\ result = "operator count"
    /\ IF Readable(at, "count") /\ file[at].value = Len(prog.operators)
       THEN /\ at' = at + 1
            /\ Goto("operators")
            /\ UNCHANGED <<given, prog>>
       ELSE Refuse

\* Mutated: the types are skipped instead of compared.
OperatorAgreesByName(op) ==
    /\ Readable(at, "index") /\ file[at].value = i
    /\ Readable(at + 1, "has_name") /\ file[at + 1].value
    /\ Readable(at + 2, "name") /\ file[at + 2].value = op.name
    /\ Readable(at + 3, "types")

\* A named operator is compared with the program's in full.
OperatorAgrees(op) ==
    /\ Readable(at, "index") /\ file[at].value = i
    /\ Readable(at + 1, "has_name") /\ file[at + 1].value
    /\ Readable(at + 2, "name") /\ file[at + 2].value = op.name
    /\ Readable(at + 3, "types") /\ file[at + 3].value = op.types

\* Of one without a name nothing more is read, although more was written.
OperatorUnnamed ==
    /\ Readable(at, "index") /\ file[at].value = i
    /\ Readable(at + 1, "has_name") /\ ~file[at + 1].value

LoadOperator ==
    /\ result = "operators" /\ i <= Len(prog.operators)
    /\ IF OperatorAgrees(prog.operators[i]) \/ OperatorUnnamed
       THEN /\ at' = at + (IF OperatorUnnamed THEN 2 ELSE 4)
            /\ i' = i + 1
            /\ UNCHANGED <<given, prog, result>>
       ELSE Refuse

-----------------------------------------------------------------------------
(* The data.  load_state ignores what load_stat and load_generation return.*)

Resized(history, n) ==
    IF n <= Len(history) THEN SubSeq(history, 1, n)
    ELSE history \o [k \in 1..(n - Len(history)) |-> <<Fresh, k>>]

LoadHistoryCount ==
    /\ result = "operators" /\ i > Len(prog.operators)
    /\ \/ /\ AtEnd
          /\ Refuse
       \/ /\ Readable(at, "count")
          /\ prog' = [prog EXCEPT !.history = Resized(@, file[at].value)]
          /\ at' = at + 1
          /\ Goto("history")
          /\ UNCHANGED given
       \/ Misread("count")

\* load_stat; at the end of the file it leaves the statistic as it is.
LoadedStat(stat) == IF AtEnd THEN stat ELSE file[at].value
PastStat == IF AtEnd THEN at ELSE at + 1

LoadHistory ==
    /\ result = "history" /\ i <= Len(prog.history)
    /\ \/ /\ AtEnd \/ Readable(at, "stat")
          /\ i' = i + 1
          /\ prog' = [prog EXCEPT !.history[i] = LoadedStat(@)]
          /\ at' = PastStat
          /\ UNCHANGED <<given, result>>
       \/ Misread("stat")

LoadCurrentStats ==
    /\ result = "history" /\ i > Len(prog.history)
    /\ \/ /\ AtEnd \/ Readable(at, "stat")
          /\ Goto("generation")
          /\ prog' = [prog EXCEPT !.stats = LoadedStat(@)]
          /\ at' = PastStat
          /\ UNCHANGED given
       \/ Misread("stat")

\* Mutated: a population that is too small is left as it is.
GrownNot(pop, n) == pop

\* load_generation adds individuals and never removes one.
Grown(pop, n) ==
    pop \o [k \in 1..(n - Len(pop)) |-> [fitness |-> <<Fresh, 0>>, tree |-> <<Fresh, 0>>]]

\* load_generation returns false at the end of the file, which its caller sees
\* and load_state ignores.
EndsEarly ==
    /\ AtEnd
    /\ Goto(IF whole THEN "loaded" ELSE "failed")
    /\ UNCHANGED <<given, prog, at>>

LoadGenerationCount ==
    /\ result = "generation"
    /\ \/ EndsEarly
       \/ /\ Readable(at, "count")
          /\ prog' = [prog EXCEPT !.pop = Grown(@, file[at].value)]
          /\ at' = at + 1
          /\ Goto("individuals")
          /\ UNCHANGED given
       \/ Misread("count")

\* from_file: the tree was cleared, and its reads are asserted to succeed.
TreeMissing == /\ at = Len(file)
               /\ Goto("aborted")
               /\ UNCHANGED <<given, prog, at>>
LoadedTree == file[at + 1].value

\* The fitness, then the tree, of as many individuals as the program now has.
LoadIndividual ==
    /\ result = "individuals" /\ i <= Len(prog.pop)
    /\ \/ EndsEarly
       \/ /\ Readable(at, "fitness")
          /\ \/ TreeMissing
             \/ /\ Readable(at + 1, "tree")
                /\ prog' = [prog EXCEPT !.pop[i] = [fitness |-> file[at].value,
                                                    tree |-> LoadedTree]]
                /\ at' = at + 2
                /\ i' = i + 1
                /\ UNCHANGED <<given, result>>
             \/ at < Len(file) /\ ~Readable(at + 1, "tree") /\ Misread("tree")
       \/ Misread("fitness")

LoadDone ==
    /\ result = "individuals" /\ i > Len(prog.pop)
    /\ Goto("loaded")
    /\ UNCHANGED <<given, prog, at>>

Ended == result \in {"loaded", "failed", "refused", "misread", "aborted"} /\ UNCHANGED vars

Next ==
    \/ LoadOperatorCount \/ LoadOperator \/ LoadHistoryCount
    \/ LoadHistory \/ LoadCurrentStats
    \/ LoadGenerationCount \/ LoadIndividual \/ LoadDone
    \/ Ended

Spec == Init /\ [][Next]_vars

-----------------------------------------------------------------------------
(* Properties.                                                             *)

Complete == IsPrefix(File(saver, whole), file)

\* A file that is refused leaves the program as it was, wherever in the file
\* the reason is found.
RefusedIsUntouched == result = "refused" => prog = before

Named(p) == \A op \in ToSet(p.operators) : op.name # NoName

\* As long as all operators of the saved program have names, nothing is loaded
\* from the state of a program with other operators: its trees would be read
\* with the wrong functions.
OtherOperatorsRefused ==
    whole /\ Named(saver) /\ (prog # before \/ result = "misread")
        => prog.operators = saver.operators

\* What was written in full comes back exactly in a program that holds no more
\* individuals, whatever else that program held before and whatever follows in
\* the file: the next save, or the end of a longer one that was written over.
\* A population saved alone leaves the rest of the program as it was.
RestoredExactly ==
    result = "loaded" /\ Complete /\ Len(before.pop) <= Len(saver.pop) =>
        prog = IF whole THEN saver ELSE [before EXCEPT !.pop = saver.pop]

\* The state of a program whose operators all have names is never turned away
\* or misunderstood by a program with the same operators and no larger a
\* population, nor is a population saved alone: the reader takes the fields in
\* the order and number in which they were written.
CompleteSaveLoads ==
    /\ Complete /\ Len(before.pop) <= Len(saver.pop)
    /\ whole => Named(saver) /\ before.operators = saver.operators
    => result \notin {"failed", "refused", "misread", "aborted"}

=============================================================================
