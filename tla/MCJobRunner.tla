----------------------------- MODULE MCJobRunner -----------------------------
(* Model checking of JobRunner: the jobs are alike. *)
EXTENDS JobRunner, TLC

JobSymmetry == Permutations(Jobs)
=============================================================================
