----------------------------- MODULE MCSelection -----------------------------
(* Selection on small instances.                                           *)
EXTENDS Selection

=============================================================================
