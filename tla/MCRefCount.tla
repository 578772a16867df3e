------------------------------ MODULE MCRefCount ------------------------------
(* RefCount on small instances.                                            *)
EXTENDS RefCount

CONSTANTS w1, a1, a2, b1, b2, v1, v2, v3

One == [workers |-> {}, popA |-> {a1}, popB |-> {b1},
        values |-> {v1, v2, v3}, maxLen |-> 2]
Two == [workers |-> {w1}, popA |-> {a1, a2}, popB |-> {b1, b2},
        values |-> {v1, v2}, maxLen |-> 1]
Spare == [workers |-> {}, popA |-> {a1, a2}, popB |-> {b1, b2},
          values |-> {v1, v2, v3}, maxLen |-> 1]
Worker == [workers |-> {w1}, popA |-> {a1}, popB |-> {b1},
           values |-> {v1, v2, v3}, maxLen |-> 1]

OneAndTwo == {One, Two, Spare, Worker}
OnlyTwo == {Two}

=============================================================================
