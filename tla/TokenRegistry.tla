---------------------------- MODULE TokenRegistry ----------------------------
(***************************************************************************)
(* What Station promises of its tokens, without requests, statements and   *)
(* locks: binding an instance to a token is one step, in which the token   *)
(* is still in the table, has room, and takes the instance away from no    *)
(* living token.  The exception is an instance that an administrator has   *)
(* deleted: a request under way may bring its row back without looking.    *)
(* CredentialBinding implements it: see CredentialBinding!Registry.        *)
(***************************************************************************)
EXTENDS Integers, FiniteSets

CONSTANTS
  Tokens,     \* token hashes
  Instances,  \* installations of Scout
  Limits,     \* how many instances each token is for
  NoToken,    \* an instance that is known and bound to no token
  NoRow       \* an instance that is not known

VARIABLES
  credentials,   \* what became of each token
  registration,  \* what each instance is bound to
  deleted        \* the instances that have ever been deleted

vars == <<credentials, registration, deleted>>

Init ==
  /\ credentials  = [t \in Tokens |-> "unminted"]
  /\ registration = [i \in Instances |-> NoRow]
  /\ deleted      = {}

Kept(t)  == credentials[t] \in {"live", "expired"}
Bound(t) == {i \in Instances : registration[i] = t}
Free(i)  == ~\E t \in Tokens : registration[i] = t /\ credentials[t] = "live"
Room(t)  == Cardinality(Bound(t) \ deleted) < Limits[t]

Mint(t) ==
  /\ credentials[t] = "unminted"
  /\ credentials' = [credentials EXCEPT ![t] = "live"]
  /\ UNCHANGED <<registration, deleted>>

Expire(t) ==
  /\ credentials[t] = "live"
  /\ credentials' = [credentials EXCEPT ![t] = "expired"]
  /\ UNCHANGED <<registration, deleted>>

\* Expired tokens go and leave their bindings behind.
Cleanup(gone) ==
  /\ \A t \in gone : credentials[t] = "expired"
  /\ credentials' = [t \in Tokens |-> IF t \in gone THEN "gone" ELSE credentials[t]]
  /\ UNCHANGED <<registration, deleted>>

\* A revoked token goes with its bindings, but for those made while the revocation waited: they
\* name a token that opens nothing any more.
Revoke(t, cleared) ==
  /\ Kept(t)
  /\ cleared \subseteq Bound(t)
  /\ credentials' = [credentials EXCEPT ![t] = "gone"]
  /\ registration' = [i \in Instances |-> IF i \in cleared THEN NoToken ELSE registration[i]]
  /\ UNCHANGED deleted

Write(t, i) ==
  /\ registration' = [registration EXCEPT ![i] = t]
  /\ UNCHANGED <<credentials, deleted>>

\* A token that was verified may have expired by now.
Bind(t, i) ==
  /\ Kept(t)
  /\ Free(i) \/ i \in deleted
  /\ Room(t)
  /\ Write(t, i)

Delete(i) ==
  /\ registration[i] # NoRow
  /\ registration' = [registration EXCEPT ![i] = NoRow]
  /\ deleted' = deleted \cup {i}
  /\ UNCHANGED credentials

\* A request finds the row gone of the instance that it has bound, and writes another.
Return(t, i) ==
  /\ i \in deleted
  /\ registration[i] = NoRow
  /\ credentials[t] # "unminted"
  /\ Write(t, i)

Next ==
  \/ \E t \in Tokens : Mint(t) \/ Expire(t)
  \/ \E gone \in SUBSET Tokens : Cleanup(gone)
  \/ \E t \in Tokens, cleared \in SUBSET Instances : Revoke(t, cleared)
  \/ \E t \in Tokens, i \in Instances : Bind(t, i) \/ Return(t, i)
  \/ \E i \in Instances : Delete(i)

Spec == Init /\ [][Next]_vars
=============================================================================
