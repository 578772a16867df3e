--------------------------- MODULE OperatorTables ---------------------------
(***************************************************************************)
(* The operator sets that operator_builder::build leaves in the program    *)
(* (include/blt/gp/program.h), and how the program selects from them.      *)
(***************************************************************************)
EXTENDS Tree, FiniteSets

-----------------------------------------------------------------------------
(* operator_builder::build.                                                *)

HasTerminals(type) == Terminals(type) # {}
TerminalArgs(o) == Cardinality({a \in 1..Argc(o) : HasTerminals(Args[o][a])})

\* build() aborts otherwise: each type with functions has one that takes a
\* terminal, and one whose inputs can all be terminals.
ASSUME BuildAssumption ==
    \A type \in Types : NonTerminals(type) # {} =>
        /\ \E o \in NonTerminals(type) : TerminalArgs(o) # 0
        /\ \E o \in NonTerminals(type) : TerminalArgs(o) = Argc(o)

\* Mutated: all functions of the type are kept.
OrderedTerminalsAll(type) == NonTerminals(type)

\* operators_ordered_terminals: the functions with the most terminal inputs.
OrderedTerminals(type) ==
    {o \in NonTerminals(type) :
        \A p \in NonTerminals(type) : TerminalArgs(p) <= TerminalArgs(o)}

-----------------------------------------------------------------------------
(* gp_program's selections, each the set it may return; empty is an abort. *)

SelectNonTerminalTooDeep(type) == OrderedTerminals(type)

SelectTerminal(type) ==
    IF HasTerminals(type) THEN Terminals(type) ELSE SelectNonTerminalTooDeep(type)

SelectNonTerminal(type) ==
    IF NonTerminals(type) # {} THEN NonTerminals(type) ELSE SelectTerminal(type)

=============================================================================
