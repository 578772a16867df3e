---------------------------- MODULE MCSingleThread ----------------------------
(* SingleThread on small instances.                                        *)
EXTENDS SingleThread

=============================================================================
