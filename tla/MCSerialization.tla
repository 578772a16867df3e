--------------------------- MODULE MCSerialization ---------------------------
(* Serialization on small instances.                                       *)
EXTENDS Serialization

Add == [name |-> "add", types |-> "float float float"]
Lit == [name |-> "lit", types |-> "float"]
IntLit == [name |-> "lit", types |-> "int"]
Sub == [name |-> "sub", types |-> "float float float"]
Unnamed == [name |-> NoName, types |-> "float"]

NamedTables == {<<Add, Lit>>, <<Add, IntLit>>, <<Sub, Lit>>, <<Add>>, <<Add, Sub, Lit>>}
AllTables == NamedTables \cup {<<Add, Unnamed>>}

=============================================================================
