--------------------------- MODULE MCRunLifecycle ---------------------------
(***************************************************************************)
(* RunLifecycle for TLC.  Requests of one kind are interchangeable as long *)
(* as all or none of their tasks are in Slow.                              *)
(***************************************************************************)
EXTENDS RunLifecycle, TLC

Symmetry == Permutations(Answers) \cup Permutations(Cancels) \cup Permutations(Retries)

=============================================================================
