--------------------------- MODULE MCScoutControl ---------------------------
(* Model checking of ScoutControl: one schedule fires every tick, the other one *)
(* only after the clock has stopped.                                           *)
EXTENDS ScoutControl, TLC

CONSTANTS often, seldom

Periods == (often :> 1) @@ (seldom :> MaxClock + 2)
=============================================================================
