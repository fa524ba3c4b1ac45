---------------------------- MODULE SnapshotStore ----------------------------
(***************************************************************************)
(* What Station's upload API promises of the snapshots of a namespace,     *)
(* without sessions, locks, files or requests: data arrives at the end of  *)
(* what is there, it is verified when it is what the Scout declared, and   *)
(* from the verification to the moment the snapshot is stored, nothing can *)
(* be added to it.  UploadIngest implements it: see UploadIngest!Store.    *)
(***************************************************************************)
EXTENDS Naturals, Sequences

CONSTANTS
  Archives,  \* what may be stored
  Uploads,   \* uploads
  Declared   \* the data whose checksum the Scout declared

VARIABLES
  arriving,  \* per upload, the data that has arrived
  verified,  \* the uploads whose data was found to be what was declared, and their archives
  stored     \* per archive, the data of its snapshot; empty when there is none

vars == <<arriving, verified, stored>>

Init ==
  /\ arriving = [u \in Uploads |-> <<>>]
  /\ verified = {}
  /\ stored   = [a \in Archives |-> <<>>]

Extends(s, t) == Len(t) >= Len(s) /\ SubSeq(t, 1, Len(s)) = s

\* Data of any kind arrives for an upload that is not verified.
Receive(u) ==
  /\ \A a \in Archives : <<u, a>> \notin verified
  /\ Extends(arriving[u], arriving'[u])
  /\ arriving' = [arriving EXCEPT ![u] = arriving'[u]]
  /\ UNCHANGED <<verified, stored>>

LosesOnly(lost) == arriving' = [u \in Uploads |-> IF u \in lost THEN <<>> ELSE arriving[u]]

\* An upload starts over, is abandoned or has expired.
Lose(lost) == LosesOnly(lost) /\ UNCHANGED <<verified, stored>>

Verify(u, a) ==
  /\ arriving[u] = Declared
  /\ verified' = verified \cup {<<u, a>>}
  /\ UNCHANGED <<arriving, stored>>

Settled(u, a) ==
  /\ <<u, a>> \in verified
  /\ verified' = verified \ {<<u, a>>}
  /\ \E lost \in SUBSET {u} : LosesOnly(lost)

\* The snapshot is stored, with the data that was verified.
Accept(u, a) == Settled(u, a) /\ stored' = [stored EXCEPT ![a] = Declared]

\* It is not: Station has the same data already, or storing it failed.
Decline(u, a) == Settled(u, a) /\ UNCHANGED stored

\* Retention, or an administrator.
Remove(gone) ==
  /\ stored' = [a \in Archives |-> IF a \in gone THEN <<>> ELSE stored[a]]
  /\ UNCHANGED <<arriving, verified>>

\* What was verified before Station stopped has to be verified again.
Restart == verified' = {} /\ UNCHANGED <<arriving, stored>>

Next ==
  \/ \E u \in Uploads : Receive(u)
  \/ \E lost \in SUBSET Uploads : Lose(lost)
  \/ \E u \in Uploads, a \in Archives : Verify(u, a) \/ Accept(u, a) \/ Decline(u, a)
  \/ \E gone \in SUBSET Archives : Remove(gone)
  \/ Restart

Spec == Init /\ [][Next]_vars
=============================================================================
