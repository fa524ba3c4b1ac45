------------------------ MODULE MCCredentialBinding ------------------------
(***************************************************************************)
(* Instances of CredentialBinding for TLC.                                 *)
(***************************************************************************)
EXTENDS CredentialBinding, TLC

CONSTANTS t1, t2, i1, i2

\* Both instances are installations of one Scout.
OneScout == (i1 :> "scout1") @@ (i2 :> "scout1")

\* t1 may be shared by two instances; t2 is an ordinary token whose row says 2.
Two == [t \in Tokens |-> 2]
=============================================================================
