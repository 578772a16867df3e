----------------------------- MODULE MCTreeLife -----------------------------
(***************************************************************************)
(* A small typed program: numbers of two words, the second the pointer of  *)
(* a droppable value, truth values of one, and conditions, which no        *)
(* terminal makes.  Functions take arguments of one type, of two, and of   *)
(* their own only; if and unless take the same types in another order, so  *)
(* that adjusting one to the other retypes both.  As in the tests, a       *)
(* droppable argument is no smaller or larger than the first of the call;  *)
(* in MCArgsMixed one is.                                                  *)
(***************************************************************************)
EXTENDS TreeLife

MCTypes == {"num", "bool", "cond"}
MCSize == [t \in MCTypes |-> IF t = "bool" THEN 1 ELSE 2]
MCDroppable == {"num"}
MCArgs == [add |-> <<"num", "num">>, if |-> <<"cond", "num">>, unless |-> <<"num", "cond">>,
           less |-> <<"num", "bool">>, not |-> <<"cond">>,
           lit |-> <<>>, flag |-> <<>>, x |-> <<>>]
MCArgsMixed == [MCArgs EXCEPT !["less"] = <<"bool", "num">>]
MCOperators == DOMAIN MCArgs
MCRet == [o \in MCOperators |->
              CASE o \in {"add", "if", "unless", "lit", "x"} -> "num"
                [] o = "flag" -> "bool"
                [] o \in {"less", "not"} -> "cond"]
MCEphemeral == {"lit", "flag"}

=============================================================================
