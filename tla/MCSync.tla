-------------------------------- MODULE MCSync --------------------------------
(* Sync on small instances.                                                *)
EXTENDS Sync

=============================================================================
