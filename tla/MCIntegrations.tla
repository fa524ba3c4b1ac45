--------------------------- MODULE MCIntegrations ---------------------------
(***************************************************************************)
(* Instances of Integrations for TLC.                                      *)
(***************************************************************************)
EXTENDS Integrations, TLC

Symmetry == Permutations(Ids) \cup Permutations(Keys)
=============================================================================
