----------------------------- MODULE MCDiscovery -----------------------------
(* Model checking of Discovery: the root r holds a and c, and b lies in a. *)
EXTENDS Discovery, TLC

CONSTANTS r, a, b, c

Tree == (a :> r) @@ (b :> a) @@ (c :> r)
=============================================================================
