-------------------------- MODULE MCRestoreRequests --------------------------
(* Model checking of RestoreRequests: two requests for two snapshots, *)
(* the first of which holds both files and the second only one of them.  *)
EXTENDS RestoreRequests, TLC

CONSTANTS q1, q2, s1, s2, f1, f2

Named == (q1 :> s1) @@ (q2 :> s2)
Held == (s1 :> {f1, f2}) @@ (s2 :> {f2})
=============================================================================
