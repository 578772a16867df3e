----------------------------- MODULE MCScheduler -----------------------------
(* Scheduler on small instances: the workers are interchangeable.          *)
EXTENDS SchedulerProofs, TLC

Symmetry == Permutations(Workers)

=============================================================================
