---------------------- MODULE CredentialBindingProofs ----------------------
(***************************************************************************)
(* Theorems about CredentialBinding, for any tokens, limits, requests and  *)
(* any finite set of instances: not counting instances that have been      *)
(* deleted, limits are kept and a binding to a living token stays.  What   *)
(* Bind reads stays true until it writes: the row lock of the token keeps  *)
(* the count, and the advisory lock of the instance keeps the row as it    *)
(* was found.  The one writer without these locks is registerScout, and it *)
(* only inserts a row where there is none, which takes a deletion of that  *)
(* instance.  For the same reason the last statement of Bind is one step   *)
(* of TokenRegistry.                                                       *)
(* Revoke keeps the token's row and the rows it has taken to its end.      *)
(* A request is answered because no locks are held in a circle.            *)
(***************************************************************************)
EXTENDS CredentialBinding, FiniteSetTheorems, TLAPS

\* Each lock has one holder.
TokenLockExclusive ==
  \A v, w \in Workers, t \in Tokens : HoldsToken(v, t) /\ HoldsToken(w, t) => v = w
InstanceLockExclusive ==
  \A v, w \in Workers, i \in Instances : HoldsInstance(v, i) /\ HoldsInstance(w, i) => v = w

\* A token that a request or a registration names has been minted, and stays in the table as
\* long as its row is locked.
NamedMinted ==
  /\ \A w \in Workers : worker[w].pc # "idle" => credentials[worker[w].token] # "unminted"
  /\ \A i \in Instances, t \in Tokens : registration[i] = t => credentials[t] # "unminted"
LockedStays ==
  \A w \in Workers : worker[w].pc \in TokenPc => credentials[worker[w].token] # "gone"

\* The bindings that are counted: a deleted instance may come back beside them.
Counted(t) == Bound(t) \ deleted

\* Unless it was deleted, the instance a request has bound has a row, ...
RegisteredHasRow ==
  \A w \in Workers :
    worker[w].pc \in {"register_read", "register_write"} =>
      worker[w].inst \in deleted \/ registration[worker[w].inst] # NoRow

\* ... the instance it is about to bind is still free, ...
FreeToBind ==
  \A w \in Workers : worker[w].pc \in InstancePc => worker[w].inst \in deleted \/ ~BoundAlive(worker[w].inst)

\* ... and its token still has room.
RoomToBind ==
  \A w \in Workers : At(w, "bind_write") => Cardinality(Counted(worker[w].token)) < Limit(worker[w].token)

\* The inductive invariant.
IInv ==
  /\ TypeOK
  /\ TokenLockExclusive
  /\ InstanceLockExclusive
  /\ NamedMinted
  /\ LockedStays
  /\ RegisteredHasRow
  /\ FreeToBind
  /\ RoomToBind
  /\ LimitKept

\* What a running Revoke has locked is as it found it: the token, which no Bind holds, and the
\* rows that name it.
RevokeOwns ==
  /\ revoke.pc # "none" => credentials[revoke.token] # "unminted" /\ revoke.seen \cap revoke.taken = {}
  /\ revoke.pc = "token" => revoke.taken = {}
  /\ revoke.pc = "rows" =>
       /\ credentials[revoke.token] # "gone"
       /\ \A w \in Workers : ~HoldsToken(w, revoke.token)
       /\ \A i \in revoke.taken : registration[i] = revoke.token

-----------------------------------------------------------------------------
(* Counting *)

\* The bindings of a token can be counted.
LEMMA BoundFinite ==
  ASSUME NEW t
  PROVE  /\ IsFiniteSet(Counted(t)) /\ Cardinality(Counted(t)) \in Nat
         /\ IsFiniteSet(Counted(t)') /\ Cardinality(Counted(t)') \in Nat
         /\ IsFiniteSet(Bound(t)) /\ Cardinality(Bound(t)) \in Nat
         /\ Cardinality(Counted(t)) <= Cardinality(Bound(t))
<1>1. Bound(t) \subseteq Instances /\ Counted(t)' \subseteq Instances /\ Counted(t) \subseteq Bound(t)
  BY DEF Bound, Counted
<1>2. IsFiniteSet(Bound(t)) /\ IsFiniteSet(Counted(t)')
  BY <1>1, InstancesAssumption, FS_Subset
<1> QED BY <1>1, <1>2, FS_Subset, FS_CardinalityType

\* A token that gains no instance counts no more of them.
LEMMA FewerBound ==
  ASSUME NEW t, Counted(t)' \subseteq Counted(t)
  PROVE  Cardinality(Counted(t)') <= Cardinality(Counted(t))
BY BoundFinite, FS_Subset

\* One more element adds at most one.
LEMMA OneMore ==
  ASSUME NEW S, NEW T, NEW x, IsFiniteSet(S), T \subseteq S \cup {x}
  PROVE  Cardinality(T) <= Cardinality(S) + 1
<1>1. /\ IsFiniteSet(S \cup {x})
      /\ Cardinality(S \cup {x}) = IF x \in S THEN Cardinality(S) ELSE Cardinality(S) + 1
  BY FS_AddElement
<1>2. IsFiniteSet(T) /\ Cardinality(T) <= Cardinality(S \cup {x})
  BY <1>1, FS_Subset
<1>3. Cardinality(S) \in Nat /\ Cardinality(S \cup {x}) \in Nat /\ Cardinality(T) \in Nat
  BY <1>1, <1>2, FS_CardinalityType
<1> QED BY <1>1, <1>2, <1>3

\* A token that gains one instance counts at most one more.
LEMMA OneMoreBound ==
  ASSUME NEW t, NEW i \in Instances, Counted(t)' \subseteq Counted(t) \cup {i}
  PROVE  Cardinality(Counted(t)') <= Cardinality(Counted(t)) + 1
BY BoundFinite, OneMore

\* Every token is for one instance at least.
LEMMA LimitType == \A t \in Tokens : Limit(t) \in Nat /\ Limit(t) >= 1
BY TokensAssumption DEF Limit

-----------------------------------------------------------------------------
(* Requests *)

USE DEF TokenPc, InstancePc, RequestPc

\* A request that is not idle has a token and an instance.
LEMMA RequestFields ==
  ASSUME NEW w \in Workers, TypeOK, worker[w].pc # "idle"
  PROVE  worker[w] \in Request /\ worker[w].token \in Tokens /\ worker[w].inst \in Instances
BY DEF TypeOK, Request, Idle

\* A request that moves on keeps its token and its instance.
LEMMA AdvanceRequest ==
  ASSUME NEW w \in Workers, TypeOK, worker[w].pc # "idle", NEW pc \in RequestPc, Advance(w, pc)
  PROVE  \E s \in Request :
           Become(w, s) /\ s.pc = pc /\ s.token = worker[w].token /\ s.inst = worker[w].inst
<1>1. [worker[w] EXCEPT !.pc = pc] \in Request
  BY RequestFields DEF Request
<1> QED BY <1>1, RequestFields DEF Advance, Request

\* A request takes a lock when it is free and otherwise stays with its own.
LEMMA LocksKept ==
  ASSUME IInv, NEW w \in Workers, NEW s, Become(w, s),
         s.pc \in TokenPc => HoldsToken(w, s.token) \/ TokenFree(s.token),
         s.pc \in InstancePc => HoldsInstance(w, s.inst) \/ InstanceFree(s.inst)
  PROVE  TokenLockExclusive' /\ InstanceLockExclusive'
<1>1. TokenLockExclusive'
  BY DEF IInv, TypeOK, TokenLockExclusive, Become, HoldsToken, TokenFree
<1>2. InstanceLockExclusive'
  BY DEF IInv, TypeOK, InstanceLockExclusive, Become, HoldsInstance, InstanceFree
<1> QED BY <1>1, <1>2

\* A request that only moves on keeps the invariant, if it knows what its next step relies on.
LEMMA MovePreserves ==
  ASSUME IInv, NEW w \in Workers, NEW s \in {Idle} \cup Request, Become(w, s),
         UNCHANGED <<credentials, registration, revoke, deleted>>,
         s.pc \in TokenPc => HoldsToken(w, s.token) \/ TokenFree(s.token),
         s.pc \in InstancePc => HoldsInstance(w, s.inst) \/ InstanceFree(s.inst),
         s.pc # "idle" => credentials[s.token] # "unminted",
         s.pc \in TokenPc => credentials[s.token] # "gone",
         s.pc \in {"register_read", "register_write"} => s.inst \in deleted \/ registration[s.inst] # NoRow,
         s.pc \in InstancePc => s.inst \in deleted \/ ~BoundAlive(s.inst),
         s.pc = "bind_write" => Cardinality(Counted(s.token)) < Limit(s.token)
  PROVE  IInv'
<1>0. \A v \in Workers : worker'[v] = IF v = w THEN s ELSE worker[v]
  BY DEF IInv, TypeOK, Become
<1>1. TypeOK'
  BY DEF IInv, TypeOK, Become
<1>2. TokenLockExclusive' /\ InstanceLockExclusive'
  BY LocksKept
<1>3. NamedMinted' /\ LockedStays'
  BY <1>0 DEF IInv, NamedMinted, LockedStays
<1>4. RegisteredHasRow' /\ FreeToBind'
  BY <1>0 DEF IInv, RegisteredHasRow, FreeToBind, BoundAlive, Live
<1>5. \A t : Counted(t)' = Counted(t)
  BY DEF Bound, Counted
<1>6. RoomToBind' /\ LimitKept'
  BY <1>0, <1>5 DEF IInv, RoomToBind, LimitKept, Counted, At
<1> QED BY <1>1, <1>2, <1>3, <1>4, <1>6 DEF IInv

\* Verify lets in a request of a living token.
LEMMA VerifyStep ==
  ASSUME IInv, NEW w \in Workers, NEW t \in Tokens, NEW i \in Instances, Verify(w, t, i)
  PROVE  IInv'
<1> DEFINE s == [pc |-> "bind_token", token |-> t, inst |-> i, locked |-> FALSE]
<1>1. s \in Request
  BY DEF Request
<1>2. Become(w, s) /\ credentials[t] = "live" /\ UNCHANGED <<credentials, registration, revoke, deleted>>
  BY DEF Verify, Live
<1> QED BY <1>1, <1>2, MovePreserves

\* A request that ends gives up its locks.
LEMMA FinishPreserves ==
  ASSUME IInv, NEW w \in Workers, Finish(w), UNCHANGED <<credentials, registration, revoke, deleted>>
  PROVE  IInv'
BY MovePreserves DEF Finish, Idle

\* Abort is such an end.
LEMMA AbortStep == ASSUME IInv, NEW w \in Workers, Abort(w) PROVE IInv'
BY FinishPreserves DEF Abort

\* The token's row is locked only as long as it is there.
LEMMA BindTokenStep == ASSUME IInv, NEW w \in Workers, BindToken(w) PROVE IInv'
<1>1. CASE Live(worker[w].token)
  <2>1. PICK s \in Request :
          Become(w, s) /\ s.pc = "bind_instance" /\ s.token = worker[w].token /\ s.inst = worker[w].inst
    BY <1>1, AdvanceRequest DEF BindToken, At, IInv
  <2> QED BY <1>1, <2>1, MovePreserves DEF BindToken, Live
<1>2. CASE ~Live(worker[w].token)
  BY <1>2, FinishPreserves DEF BindToken
<1> QED BY <1>1, <1>2

\* An instance that is bound again has its row.
LEMMA BindAgainStep == ASSUME IInv, NEW w \in Workers, BindAgain(w) PROVE IInv'
<1>1. worker[w].pc = "bind_instance" /\ worker[w].token \in Tokens
  BY RequestFields DEF BindAgain, At, IInv
<1>2. PICK s \in Request :
        Become(w, s) /\ s.pc = "register_read" /\ s.token = worker[w].token /\ s.inst = worker[w].inst
  BY <1>1, AdvanceRequest DEF BindAgain, IInv
<1>3. registration[s.inst] # NoRow /\ credentials[s.token] # "unminted"
  BY <1>1, <1>2, TokensAssumption DEF BindAgain, IInv, NamedMinted
<1> QED BY <1>2, <1>3, MovePreserves DEF BindAgain

\* The instance is locked and free of living tokens, or the request ends.
LEMMA BindInstanceStep == ASSUME IInv, NEW w \in Workers, BindInstance(w) PROVE IInv'
<1>1. worker[w].pc = "bind_instance" /\ worker[w] \in Request
  BY RequestFields DEF BindInstance, At, IInv
<1>2. CASE BoundAlive(worker[w].inst)
  BY <1>2, FinishPreserves DEF BindInstance
<1>3. CASE ~BoundAlive(worker[w].inst)
  <2> DEFINE s == [worker[w] EXCEPT !.pc = "bind_count", !.locked = registration[worker[w].inst] # NoRow]
  <2>1. s \in Request /\ s.pc = "bind_count" /\ s.token = worker[w].token /\ s.inst = worker[w].inst
    BY <1>1 DEF Request
  <2>2. Become(w, s) /\ InstanceFree(s.inst) /\ UNCHANGED <<credentials, registration, revoke, deleted>>
    BY <1>3, <2>1 DEF BindInstance
  <2>3. HoldsToken(w, s.token)
    BY <1>1, <2>1 DEF HoldsToken
  <2>4. credentials[s.token] # "unminted" /\ credentials[s.token] # "gone"
    BY <1>1, <2>1 DEF IInv, NamedMinted, LockedStays
  <2> HIDE DEF s
  <2> QED BY <1>3, <2>1, <2>2, <2>3, <2>4, MovePreserves
<1> QED BY <1>2, <1>3

\* The token has room, or the request ends.
LEMMA BindCountStep == ASSUME IInv, NEW w \in Workers, BindCount(w) PROVE IInv'
<1>1. worker[w].pc = "bind_count" /\ worker[w] \in Request
  BY RequestFields DEF BindCount, At, IInv
<1>2. CASE Reached(worker[w].token)
  BY <1>2, FinishPreserves DEF BindCount
<1>3. CASE ~Reached(worker[w].token)
  <2>1. PICK s \in Request :
          Become(w, s) /\ s.pc = "bind_write" /\ s.token = worker[w].token /\ s.inst = worker[w].inst
    BY <1>1, <1>3, AdvanceRequest DEF BindCount, IInv
  <2>2. HoldsToken(w, s.token) /\ HoldsInstance(w, s.inst)
    BY <1>1, <2>1 DEF HoldsToken, HoldsInstance
  <2>3. credentials[s.token] # "unminted" /\ credentials[s.token] # "gone"
    BY <1>1, <2>1 DEF IInv, NamedMinted, LockedStays
  <2>4. Cardinality(Counted(s.token)) < Limit(s.token)
    BY <1>3, <2>1, BoundFinite, LimitType DEF Reached, Request
  <2>5. s.inst \in deleted \/ ~BoundAlive(s.inst)
    BY <1>1, <2>1 DEF IInv, FreeToBind
  <2>6. UNCHANGED <<credentials, registration, revoke, deleted>>
    BY DEF BindCount
  <2> QED BY <2>1, <2>2, <2>3, <2>4, <2>5, <2>6, MovePreserves
<1> QED BY <1>2, <1>3

\* RegisterRead goes on with the row it found.
LEMMA RegisterReadStep == ASSUME IInv, NEW w \in Workers, RegisterRead(w) PROVE IInv'
<1>1. worker[w].pc = "register_read" /\ worker[w] \in Request
  BY RequestFields DEF RegisterRead, At, IInv
<1>2. CASE registration[worker[w].inst] \in Tokens \ {worker[w].token}
  BY <1>2, FinishPreserves DEF RegisterRead
<1>3. CASE registration[worker[w].inst] \notin Tokens \ {worker[w].token}
  <2>1. PICK s \in Request :
          Become(w, s) /\ s.pc = "register_write" /\ s.token = worker[w].token /\ s.inst = worker[w].inst
    BY <1>1, <1>3, AdvanceRequest DEF RegisterRead, IInv
  <2>2. credentials[s.token] # "unminted" /\ (s.inst \in deleted \/ registration[s.inst] # NoRow)
    BY <1>1, <2>1 DEF IInv, NamedMinted, RegisteredHasRow
  <2>3. UNCHANGED <<credentials, registration, revoke, deleted>>
    BY DEF RegisterRead
  <2> QED BY <2>1, <2>2, <2>3, MovePreserves
<1> QED BY <1>2, <1>3

\* Only BindWrite adds to what a token is bound to, and it has the room.
LEMMA BindWriteStep == ASSUME IInv, NEW w \in Workers, BindWrite(w) PROVE IInv'
<1>1. worker[w].pc = "bind_write" /\ worker[w] \in Request /\ worker[w].pc # "idle"
  BY RequestFields DEF BindWrite, At, IInv
<1>2. PICK t \in Tokens, i \in Instances : t = worker[w].token /\ i = worker[w].inst
  BY <1>1 DEF Request
<1>3. PICK s \in Request : Become(w, s) /\ s.pc = "register_read" /\ s.token = t /\ s.inst = i
  BY <1>1, <1>2, AdvanceRequest DEF BindWrite, IInv
<1>4. /\ \A v \in Workers : worker'[v] = IF v = w THEN s ELSE worker[v]
      /\ \A j \in Instances : registration'[j] = IF j = i THEN t ELSE registration[j]
      /\ UNCHANGED <<credentials, revoke, deleted>>
  BY <1>2, <1>3 DEF BindWrite, IInv, TypeOK, Become
<1>5. TypeOK'
  BY <1>2, <1>3 DEF BindWrite, IInv, TypeOK, Become
<1>6. TokenLockExclusive' /\ InstanceLockExclusive'
  BY <1>3, LocksKept
<1>7. NamedMinted'
  BY <1>1, <1>2, <1>3, <1>4 DEF IInv, NamedMinted
<1>8. LockedStays'
  BY <1>1, <1>2, <1>3, <1>4 DEF IInv, LockedStays
<1>9. RegisteredHasRow'
  BY <1>1, <1>2, <1>3, <1>4, TokensAssumption DEF IInv, RegisteredHasRow, TypeOK, Request, Idle
<1>10. FreeToBind'
  <2>1. SUFFICES ASSUME NEW v \in Workers, worker'[v].pc \in InstancePc
                 PROVE  (worker[v].inst \in deleted \/ ~BoundAlive(worker[v].inst))'
    BY DEF FreeToBind
  <2>2. v # w /\ worker[v].pc \in InstancePc /\ worker'[v] = worker[v]
    BY <1>3, <1>4, <2>1
  <2>3. worker[v].inst # i /\ worker[v].inst \in Instances
    BY <1>1, <1>2, <2>2, RequestFields DEF IInv, InstanceLockExclusive, HoldsInstance
  <2>4. worker[v].inst \in deleted \/ ~BoundAlive(worker[v].inst)
    BY <2>2 DEF IInv, FreeToBind
  <2> QED BY <1>4, <2>2, <2>3, <2>4 DEF BoundAlive, Live
<1>11. /\ Counted(t)' \subseteq Counted(t) \cup {i}
       /\ \A u \in Tokens \ {t} : Counted(u)' \subseteq Counted(u)
  BY <1>4 DEF Bound, Counted
<1>12. RoomToBind'
  <2>1. SUFFICES ASSUME NEW v \in Workers, worker'[v].pc = "bind_write"
                 PROVE  (Cardinality(Counted(worker[v].token)) < Limit(worker[v].token))'
    BY DEF RoomToBind, At
  <2>2. v # w /\ worker[v].pc = "bind_write" /\ worker'[v] = worker[v]
    BY <1>3, <1>4, <2>1
  <2>3. PICK u \in Tokens : u = worker[v].token
    BY <2>2, RequestFields DEF IInv
  <2>4. u # t
    BY <1>1, <1>2, <2>2, <2>3 DEF IInv, TokenLockExclusive, HoldsToken
  <2>5. Cardinality(Counted(u)) < Limit(u)
    BY <2>2, <2>3 DEF IInv, RoomToBind, At
  <2>6. Cardinality(Counted(u)') <= Cardinality(Counted(u))
    BY <1>11, <2>4, FewerBound
  <2>7. Cardinality(Counted(u)') < Limit(u)
    BY <2>5, <2>6, BoundFinite, LimitType
  <2> QED BY <2>2, <2>3, <2>7 DEF Bound, Counted, Limit
<1>13. Cardinality(Counted(t)') <= Limit(t)
  <2>1. Cardinality(Counted(t)) < Limit(t)
    BY <1>1, <1>2 DEF IInv, RoomToBind, At
  <2>2. Cardinality(Counted(t)') <= Cardinality(Counted(t)) + 1
    BY <1>11, OneMoreBound
  <2> QED BY <2>1, <2>2, BoundFinite, LimitType
<1>14. ASSUME NEW u \in Tokens, u # t
       PROVE  Cardinality(Counted(u)') <= Limit(u)
  <2>1. Cardinality(Counted(u)) <= Limit(u)
    BY DEF IInv, LimitKept, Counted
  <2>2. Cardinality(Counted(u)') <= Cardinality(Counted(u))
    BY <1>11, <1>14, FewerBound
  <2> QED BY <2>1, <2>2, BoundFinite, LimitType
<1>15. LimitKept'
  BY <1>13, <1>14 DEF LimitKept, Limit, Counted
<1> QED BY <1>4, <1>5, <1>6, <1>7, <1>8, <1>9, <1>10, <1>12, <1>15 DEF IInv

\* registerScout inserts a row only where there is none, so only of an instance that was deleted.
LEMMA RegisterWriteStep == ASSUME IInv, NEW w \in Workers, RegisterWrite(w) PROVE IInv'
<1>1. worker[w].pc = "register_write" /\ worker[w] \in Request
  BY RequestFields DEF RegisterWrite, At, IInv
<1>2. PICK t \in Tokens, i \in Instances : t = worker[w].token /\ i = worker[w].inst
  BY <1>1 DEF Request
<1>3. /\ Finish(w) /\ UNCHANGED <<credentials, revoke, deleted>>
      /\ registration' = [registration EXCEPT ![i] = IF registration[i] = NoRow THEN t ELSE registration[i]]
  BY <1>2 DEF RegisterWrite
<1>4. CASE registration[i] # NoRow
  <2>1. registration' = registration
    BY <1>3, <1>4 DEF IInv, TypeOK
  <2> QED BY <1>3, <2>1, FinishPreserves
<1>5. CASE registration[i] = NoRow
  <2>1. i \in deleted
    BY <1>1, <1>2, <1>5 DEF IInv, RegisteredHasRow
  <2>2. TypeOK'
    BY <1>2, <1>3 DEF IInv, TypeOK, Finish, Become
  <2>3. TokenLockExclusive' /\ InstanceLockExclusive'
    BY <1>3, LocksKept DEF Finish, Idle
  <2>4. NamedMinted' /\ LockedStays'
    BY <1>1, <1>2, <1>3 DEF IInv, TypeOK, NamedMinted, LockedStays, Finish, Become, Idle
  <2>5. /\ \A v \in Workers : worker'[v] = IF v = w THEN Idle ELSE worker[v]
        /\ \A k \in Instances : registration'[k] = IF k = i THEN t ELSE registration[k]
    BY <1>2, <1>3, <1>5 DEF IInv, TypeOK, Finish, Become
  <2>6. \A v \in Workers : worker[v].pc # "idle" => worker[v].inst \in Instances
    BY RequestFields DEF IInv
  <2>7. RegisteredHasRow'
    BY <1>3, <2>5, <2>6, TokensAssumption DEF IInv, RegisteredHasRow, Idle
  <2>8. FreeToBind'
    BY <1>3, <2>1, <2>5, <2>6 DEF IInv, FreeToBind, BoundAlive, Live, Idle
  <2>9. \A u : Counted(u)' = Counted(u)
    BY <1>3, <2>1, <2>5 DEF Bound, Counted
  <2>10. RoomToBind' /\ LimitKept'
    BY <2>5, <2>9 DEF IInv, RoomToBind, LimitKept, Counted, At, Idle
  <2> QED BY <2>2, <2>3, <2>4, <2>7, <2>8, <2>10 DEF IInv
<1> QED BY <1>4, <1>5

-----------------------------------------------------------------------------
(* Tokens and administration *)

\* Where no token gains an instance, room and limits stay.
LEMMA FewerKeepLimits ==
  ASSUME IInv, UNCHANGED worker, \A t \in Tokens : Counted(t)' \subseteq Counted(t)
  PROVE  RoomToBind' /\ LimitKept'
<1>1. \A t \in Tokens : Cardinality(Counted(t)') <= Cardinality(Counted(t))
  BY FewerBound
<1>2. \A t \in Tokens : Cardinality(Counted(t)) \in Nat /\ Cardinality(Counted(t)') \in Nat
  BY BoundFinite
<1>3. RoomToBind'
  <2>1. SUFFICES ASSUME NEW w \in Workers, worker[w].pc = "bind_write"
                 PROVE  Cardinality(Counted(worker[w].token)') < Limit(worker[w].token)
    BY DEF RoomToBind, At, Bound, Counted, Limit
  <2>2. PICK t \in Tokens : t = worker[w].token
    BY <2>1, RequestFields DEF IInv
  <2>3. Cardinality(Counted(t)) < Limit(t)
    BY <2>1, <2>2 DEF IInv, RoomToBind, At
  <2> QED BY <1>1, <1>2, <2>2, <2>3, LimitType
<1>4. LimitKept'
  <2>1. \A t \in Tokens : Cardinality(Counted(t)) <= Limit(t)
    BY DEF IInv, LimitKept, Counted
  <2>2. \A t \in Tokens : Cardinality(Counted(t)') <= Limit(t)
    BY <1>1, <1>2, <2>1, LimitType
  <2> QED BY <2>2 DEF LimitKept, Counted, Limit
<1> QED BY <1>3, <1>4

\* What happens to a token keeps the locks and the tokens that requests and rows name, as long
\* as none returns to unminted and none goes while its row is locked.
LEMMA TokenStepKeeps ==
  ASSUME IInv, UNCHANGED worker,
         \A t \in Tokens : credentials'[t] = "unminted" => credentials[t] = "unminted",
         \A t \in Tokens : credentials'[t] = "gone" => credentials[t] = "gone" \/ \A w \in Workers : ~HoldsToken(w, t),
         \A i \in Instances : registration'[i] \in {registration[i], NoToken, NoRow}
  PROVE  TokenLockExclusive' /\ InstanceLockExclusive' /\ NamedMinted' /\ LockedStays'
<1>1. TokenLockExclusive' /\ InstanceLockExclusive'
  BY DEF IInv, TokenLockExclusive, InstanceLockExclusive, HoldsToken, HoldsInstance
<1>2. NamedMinted'
  <2>1. \A w \in Workers : worker[w].pc # "idle" => worker[w].token \in Tokens
    BY RequestFields DEF IInv
  <2> QED BY <2>1, TokensAssumption DEF IInv, NamedMinted
<1>3. LockedStays'
  <2>1. \A w \in Workers : worker[w].pc \in TokenPc => worker[w].token \in Tokens
    BY RequestFields DEF IInv
  <2> QED BY <2>1 DEF IInv, LockedStays, HoldsToken
<1> QED BY <1>1, <1>2, <1>3

\* It keeps the invariant if, besides, it revives no token and takes no row away.
LEMMA TokenStepPreserves ==
  ASSUME IInv, TypeOK', UNCHANGED <<worker, deleted>>,
         \A t \in Tokens : credentials'[t] = "unminted" => credentials[t] = "unminted",
         \A t \in Tokens : credentials'[t] = "gone" => credentials[t] = "gone" \/ \A w \in Workers : ~HoldsToken(w, t),
         \A t \in Tokens : credentials'[t] = "live" => credentials[t] \in {"live", "unminted"},
         \A i \in Instances : registration'[i] \in {registration[i], NoToken}
  PROVE  IInv'
<1>1. TokenLockExclusive' /\ InstanceLockExclusive' /\ NamedMinted' /\ LockedStays'
  BY TokenStepKeeps
<1>2. \A w \in Workers : worker[w].pc # "idle" => worker[w].inst \in Instances /\ worker[w].token \in Tokens
  BY RequestFields DEF IInv
<1>3. RegisteredHasRow'
  BY <1>2, TokensAssumption DEF IInv, RegisteredHasRow
<1>4. FreeToBind'
  BY <1>2, TokensAssumption DEF IInv, FreeToBind, BoundAlive, Live, NamedMinted
<1>5. \A t \in Tokens : Counted(t)' \subseteq Counted(t)
  BY TokensAssumption DEF Bound, Counted
<1>6. RoomToBind' /\ LimitKept'
  BY <1>2, <1>5, FewerKeepLimits
<1> QED BY <1>1, <1>3, <1>4, <1>6 DEF IInv

\* A new token is not named anywhere yet.
LEMMA MintStep == ASSUME IInv, NEW t \in Tokens, Mint(t) PROVE IInv'
<1>1. TypeOK'
  BY DEF Mint, IInv, TypeOK
<1> QED BY <1>1, TokenStepPreserves DEF Mint, IInv, TypeOK

\* An expired token stays in the table.
LEMMA ExpireStep == ASSUME IInv, NEW t \in Tokens, Expire(t) PROVE IInv'
<1>1. TypeOK'
  BY DEF Expire, IInv, TypeOK
<1> QED BY <1>1, TokenStepPreserves DEF Expire, Live, IInv, TypeOK

\* The cleanup deleted tokens whose row is free.
LEMMA CleanupStep == ASSUME IInv, CleanupExpired PROVE IInv'
<1>1. PICK gone \in SUBSET Tokens :
        /\ \A t \in gone : TokenFree(t)
        /\ credentials' = [t \in Tokens |-> IF t \in gone THEN "gone" ELSE credentials[t]]
  BY DEF CleanupExpired
<1>2. UNCHANGED <<registration, worker, revoke, deleted>>
  BY DEF CleanupExpired
<1>3. TypeOK'
  BY <1>1, <1>2 DEF IInv, TypeOK
<1> QED BY <1>1, <1>2, <1>3, TokenStepPreserves DEF TokenFree

\* A revocation begins by looking.
LEMMA RevokeBeginStep == ASSUME IInv, NEW t \in Tokens, RevokeBegin(t) PROVE IInv'
<1>1. TypeOK'
  BY DEF RevokeBegin, IInv, TypeOK, Bound
<1> QED BY <1>1, TokenStepPreserves DEF RevokeBegin

\* It waits for rows, or fails, without a change.
LEMMA RevokeWaitStep == ASSUME IInv, RevokeToken \/ (\E i \in Instances : RevokeRow(i)) \/ RevokeFails PROVE IInv'
<1> DEFINE Running == [pc : {"token", "rows"}, token : Tokens, seen : SUBSET Instances, taken : SUBSET Instances]
<1>0. revoke.pc # "none" => revoke \in Running BY DEF IInv, TypeOK, NoRevoke
<1>1. UNCHANGED <<credentials, registration, worker, deleted>> BY DEF RevokeToken, RevokeRow, RevokeFails
<1>2. revoke' \in {NoRevoke} \cup Running
  <2>1. CASE RevokeToken BY <1>0, <2>1 DEF RevokeToken
  <2>2. ASSUME NEW i \in Instances, RevokeRow(i) PROVE revoke' \in Running
    <3>1. revoke.seen \ {i} \in SUBSET Instances /\ revoke.taken \cup {i} \in SUBSET Instances
      BY <1>0, <2>2 DEF RevokeRow
    <3> QED BY <1>0, <2>2, <3>1 DEF RevokeRow
  <2> QED BY <2>1, <2>2 DEF RevokeFails
<1>3. TypeOK' BY <1>1, <1>2 DEF IInv, TypeOK
<1> QED BY <1>1, <1>3, TokenStepPreserves

\* It ends with the token's row, so no request relies on the token.
LEMMA RevokeEndStep == ASSUME IInv, RevokeOwns, RevokeEnd PROVE IInv'
<1>1. PICK t \in Tokens : t = revoke.token /\ \A w \in Workers : ~HoldsToken(w, t)
  BY DEF RevokeEnd, RevokeOwns, IInv, TypeOK, NoRevoke
<1>2. /\ credentials' = [credentials EXCEPT ![t] = "gone"]
      /\ registration' \in [Instances -> Tokens \cup {NoToken, NoRow}]
      /\ \A i \in Instances : registration'[i] \in {registration[i], NoToken}
      /\ revoke' = NoRevoke /\ UNCHANGED <<worker, deleted>>
  BY <1>1 DEF RevokeEnd, Cleared, IInv, TypeOK
<1>3. TypeOK'
  BY <1>1, <1>2 DEF IInv, TypeOK
<1>4. \A u \in Tokens : credentials'[u] = IF u = t THEN "gone" ELSE credentials[u]
  BY <1>2 DEF IInv, TypeOK
<1> QED BY <1>1, <1>2, <1>3, <1>4, TokenStepPreserves

\* A deletion ends what is promised of that instance, and keeps the rest.
LEMMA DeleteStep == ASSUME IInv, NEW i \in Instances, DeleteInstance(i) PROVE IInv'
<1>1. /\ deleted' = deleted \cup {i} /\ UNCHANGED <<credentials, worker>>
      /\ registration' = [registration EXCEPT ![i] = NoRow]
  BY DEF DeleteInstance
<1>2. revoke' \in {NoRevoke} \cup [pc : {"token", "rows"}, token : Tokens,
                                  seen : SUBSET Instances, taken : SUBSET Instances]
  BY DEF DeleteInstance, IInv, TypeOK, NoRevoke
<1>3. TypeOK'
  BY <1>1, <1>2 DEF IInv, TypeOK
<1>4. \A j \in Instances : registration'[j] = IF j = i THEN NoRow ELSE registration[j]
  BY <1>1 DEF IInv, TypeOK
<1>5. TokenLockExclusive' /\ InstanceLockExclusive' /\ NamedMinted' /\ LockedStays'
  BY <1>1, <1>4, TokenStepKeeps
<1>6. \A w \in Workers : worker[w].pc # "idle" => worker[w].inst \in Instances
  BY RequestFields DEF IInv
<1>7. RegisteredHasRow' /\ FreeToBind'
  BY <1>1, <1>4, <1>6 DEF IInv, RegisteredHasRow, FreeToBind, BoundAlive, Live
<1>8. \A t \in Tokens : Counted(t)' \subseteq Counted(t)
  BY <1>1, <1>4, TokensAssumption DEF Bound, Counted
<1>9. RoomToBind' /\ LimitKept'
  BY <1>1, <1>8, FewerKeepLimits
<1> QED BY <1>3, <1>5, <1>7, <1>9 DEF IInv

-----------------------------------------------------------------------------
(* A running Revoke *)

\* A request takes no row that Revoke has locked.
LEMMA WorkerKeepsOwned ==
  ASSUME TypeOK, RevokeOwns, NEW w \in Workers, NEW s, Become(w, s), UNCHANGED <<credentials, revoke>>,
         s.pc \in TokenPc => HoldsToken(w, s.token) \/ ~RevokeHoldsToken(s.token),
         \A i \in Instances : registration'[i] = registration[i] \/ ~RevokeHoldsRow(i)
  PROVE  RevokeOwns'
<1>1. \A v \in Workers : worker'[v] = IF v = w THEN s ELSE worker[v] BY DEF TypeOK, Become
<1>2. CASE revoke.pc = "rows"
  <2>1. revoke.taken \subseteq Instances BY <1>2 DEF TypeOK, NoRevoke
  <2>2. \A v \in Workers : ~HoldsToken(v, revoke.token)' BY <1>1, <1>2 DEF RevokeOwns, HoldsToken, RevokeHoldsToken
  <2>3. \A i \in revoke.taken : registration'[i] = revoke.token
    BY <1>2, <2>1 DEF RevokeOwns, RevokeHoldsRow
  <2> QED BY <2>2, <2>3 DEF RevokeOwns
<1>3. CASE revoke.pc # "rows" BY <1>3 DEF RevokeOwns
<1> QED BY <1>2, <1>3

LEMMA RequestKeepsOwned ==
  ASSUME IInv, RevokeOwns, NEW w \in Workers,
         (\E t \in Tokens, i \in Instances : Verify(w, t, i)) \/ Bind(w) \/ RegisterScout(w) \/ Abort(w)
  PROVE  RevokeOwns'
<1>0. TypeOK /\ (worker[w].pc # "idle" => worker[w] \in Request) BY RequestFields DEF IInv
<1>1. UNCHANGED <<credentials, revoke>>
  BY DEF Verify, Bind, BindToken, BindAgain, BindInstance, BindCount, BindWrite, RegisterScout, RegisterRead,
     RegisterWrite, Abort
<1>2. CASE \E t \in Tokens, i \in Instances : Verify(w, t, i)
  <2>1. PICK s : Become(w, s) /\ s.pc = "bind_token" BY <1>2 DEF Verify
  <2> QED BY <1>0, <1>1, <1>2, <2>1, WorkerKeepsOwned DEF Verify
<1>3. ASSUME Finish(w), registration' = registration PROVE RevokeOwns'
  BY <1>0, <1>1, <1>3, WorkerKeepsOwned DEF Finish, Idle
<1>4. ASSUME NEW pc \in RequestPc, worker[w].pc # "idle", Advance(w, pc), registration' = registration,
             pc \in TokenPc => HoldsToken(w, worker[w].token) \/ TokenFree(worker[w].token)
      PROVE  RevokeOwns'
  <2>1. PICK s \in Request : Become(w, s) /\ s.pc = pc /\ s.token = worker[w].token
    BY <1>0, <1>4, AdvanceRequest
  <2> QED BY <1>0, <1>1, <1>4, <2>1, WorkerKeepsOwned DEF TokenFree
<1>5. CASE BindToken(w) BY <1>3, <1>4, <1>5 DEF BindToken, At
<1>6. CASE BindAgain(w) BY <1>4, <1>6 DEF BindAgain, At
<1>7. CASE BindInstance(w)
  <2>1. worker[w].pc = "bind_instance" /\ registration' = registration BY <1>7 DEF BindInstance, At
  <2>2. CASE Finish(w) BY <1>3, <2>1, <2>2
  <2>3. CASE ~Finish(w)
    <3>1. PICK s : Become(w, s) /\ s = [worker[w] EXCEPT !.pc = "bind_count", !.locked = registration[worker[w].inst] # NoRow]
      BY <1>7, <2>3 DEF BindInstance
    <3>2. s.token = worker[w].token BY <1>0, <2>1, <3>1 DEF Request
    <3>3. HoldsToken(w, s.token) BY <2>1, <3>2 DEF HoldsToken
    <3> QED BY <1>0, <1>1, <2>1, <3>1, <3>3, WorkerKeepsOwned
  <2> QED BY <2>2, <2>3
<1>8. CASE BindCount(w) BY <1>3, <1>4, <1>8 DEF BindCount, At, HoldsToken
<1>9. CASE BindWrite(w)
  <2>1. PICK s \in Request : Become(w, s) /\ s.pc = "register_read"
    BY <1>0, <1>9, AdvanceRequest DEF BindWrite, At
  <2>2. \A i \in Instances : registration'[i] = registration[i] \/ ~RevokeHoldsRow(i)
    BY <1>0, <1>9 DEF BindWrite, TypeOK
  <2> QED BY <1>0, <1>1, <2>1, <2>2, WorkerKeepsOwned
<1>10. CASE RegisterRead(w) BY <1>3, <1>4, <1>10 DEF RegisterRead, At
<1>11. CASE RegisterWrite(w)
  <2>1. \A i \in Instances : registration'[i] = registration[i] \/ ~RevokeHoldsRow(i)
    BY <1>0, <1>11 DEF RegisterWrite, RowFree, TypeOK
  <2> QED BY <1>0, <1>1, <1>11, <2>1, WorkerKeepsOwned DEF RegisterWrite, Finish, Idle
<1>12. CASE Abort(w) BY <1>3, <1>12 DEF Abort
<1> QED BY <1>2, <1>5, <1>6, <1>7, <1>8, <1>9, <1>10, <1>11, <1>12 DEF Bind, RegisterScout

\* Nor does anything that happens to a token or a registration, and Revoke takes what is free.
LEMMA TokenKeepsOwned ==
  ASSUME IInv, RevokeOwns, (\E t \in Tokens : Mint(t) \/ Expire(t)) \/ CleanupExpired
  PROVE  RevokeOwns'
<1>1. UNCHANGED <<registration, worker, revoke>> BY DEF Mint, Expire, CleanupExpired
<1>2. \A t \in Tokens : credentials[t] # "unminted" => credentials'[t] # "unminted"
  BY DEF Mint, Expire, Live, CleanupExpired, IInv, TypeOK
<1>3. \A t \in Tokens : RevokeHoldsToken(t) /\ credentials[t] # "gone" => credentials'[t] # "gone"
  BY DEF Mint, Expire, CleanupExpired, TokenFree, IInv, TypeOK
<1>4. revoke.pc # "none" => revoke.token \in Tokens BY DEF IInv, TypeOK, NoRevoke
<1> QED BY <1>1, <1>2, <1>3, <1>4 DEF RevokeOwns, RevokeHoldsToken, HoldsToken

LEMMA RevokeKeepsOwned ==
  ASSUME IInv, RevokeOwns, (\E t \in Tokens : RevokeBegin(t)) \/ Revoke \/ RevokeFails
  PROVE  RevokeOwns'
<1>1. CASE \E t \in Tokens : RevokeBegin(t) BY <1>1 DEF RevokeBegin, RevokeOwns
<1>2. CASE RevokeToken
  <2>1. /\ revoke \in [pc : {"token"}, token : Tokens, seen : SUBSET Instances, taken : SUBSET Instances]
        /\ UNCHANGED <<credentials, registration, worker>>
    BY <1>2 DEF RevokeToken, IInv, TypeOK, NoRevoke
  <2>2. CASE credentials[revoke.token] = "gone" BY <1>2, <2>2 DEF RevokeToken, RevokeOwns, NoRevoke
  <2>3. CASE credentials[revoke.token] # "gone"
    <3>1. revoke' = [revoke EXCEPT !.pc = "rows"] BY <1>2, <2>3 DEF RevokeToken
    <3>2. \A w \in Workers : ~HoldsToken(w, revoke.token) BY <1>2 DEF RevokeToken, TokenFree
    <3>3. revoke.taken = {} BY <2>1 DEF RevokeOwns
    <3> QED BY <2>1, <2>3, <3>1, <3>2, <3>3 DEF RevokeOwns, HoldsToken
  <2> QED BY <2>2, <2>3
<1>3. CASE \E i \in Instances : RevokeRow(i)
  <2>1. PICK i \in Instances : RevokeRow(i) BY <1>3
  <2>2. /\ revoke \in [pc : {"rows"}, token : Tokens, seen : SUBSET Instances, taken : SUBSET Instances]
        /\ UNCHANGED <<credentials, registration, worker>>
    BY <2>1 DEF RevokeRow, IInv, TypeOK, NoRevoke
  <2>3. /\ revoke'.pc = "rows" /\ revoke'.token = revoke.token /\ revoke'.seen = revoke.seen \ {i}
        /\ revoke'.taken = IF registration[i] = revoke.token THEN revoke.taken \cup {i} ELSE revoke.taken
    BY <2>1, <2>2 DEF RevokeRow
  <2> QED BY <2>2, <2>3 DEF RevokeOwns, HoldsToken
<1>4. CASE RevokeEnd \/ RevokeFails BY <1>4 DEF RevokeEnd, RevokeFails, RevokeOwns, NoRevoke
<1> QED BY <1>1, <1>2, <1>3, <1>4 DEF Revoke

LEMMA DeleteKeepsOwned ==
  ASSUME IInv, RevokeOwns, NEW i \in Instances, DeleteInstance(i)
  PROVE  RevokeOwns'
<1>1. ~RevokeHoldsRow(i) /\ UNCHANGED <<credentials, worker>> /\ \A j \in Instances \ {i} : registration'[j] = registration[j]
  BY DEF DeleteInstance, RowFree, IInv, TypeOK
<1>2. CASE revoke = NoRevoke BY <1>2 DEF DeleteInstance, RevokeOwns, NoRevoke
<1>3. CASE revoke # NoRevoke
  <2>1. /\ revoke \in [pc : {"token", "rows"}, token : Tokens, seen : SUBSET Instances, taken : SUBSET Instances]
        /\ revoke' = [revoke EXCEPT !.seen = @ \ {i}]
    BY <1>3 DEF DeleteInstance, IInv, TypeOK
  <2>2. /\ revoke'.pc = revoke.pc /\ revoke'.token = revoke.token /\ revoke'.taken = revoke.taken
        /\ revoke'.seen = revoke.seen \ {i}
    BY <2>1
  <2> QED BY <1>1, <2>1, <2>2 DEF RevokeOwns, RevokeHoldsRow, HoldsToken
<1> QED BY <1>2, <1>3

-----------------------------------------------------------------------------
(* The invariant *)

\* Station begins without tokens and registrations.
LEMMA InitEstablishes == Init => IInv
<1> SUFFICES ASSUME Init PROVE IInv
  OBVIOUS
<1>1. TypeOK
  BY DEF Init, TypeOK
<1>2. \A w \in Workers : worker[w].pc = "idle"
  BY DEF Init, Idle
<1>3. \A t \in Tokens : Bound(t) \ deleted = {}
  BY TokensAssumption DEF Init, Bound
<1>4. LimitKept
  BY <1>3, LimitType, FS_EmptySet DEF LimitKept
<1>5. NamedMinted /\ LockedStays
  BY <1>2, TokensAssumption DEF Init, NamedMinted, LockedStays
<1>6. TokenLockExclusive /\ InstanceLockExclusive
  BY <1>2 DEF TokenLockExclusive, InstanceLockExclusive, HoldsToken, HoldsInstance
<1>7. RegisteredHasRow /\ FreeToBind /\ RoomToBind
  BY <1>2 DEF RegisteredHasRow, FreeToBind, RoomToBind, At
<1> QED BY <1>1, <1>4, <1>5, <1>6, <1>7 DEF IInv

\* Every step keeps it.
LEMMA NextPreserves == IInv /\ RevokeOwns /\ [Next]_vars => IInv'
<1> SUFFICES ASSUME IInv, RevokeOwns, [Next]_vars PROVE IInv'
  OBVIOUS
<1>1. CASE \E w \in Workers, t \in Tokens, i \in Instances : Verify(w, t, i)
  BY <1>1, VerifyStep
<1>2. ASSUME NEW w \in Workers, Bind(w) \/ RegisterScout(w) \/ Abort(w)
      PROVE  IInv'
  BY <1>2, BindTokenStep, BindAgainStep, BindInstanceStep, BindCountStep, BindWriteStep,
     RegisterReadStep, RegisterWriteStep, AbortStep DEF Bind, RegisterScout
<1>3. CASE \E t \in Tokens : Mint(t) \/ Expire(t) \/ RevokeBegin(t)
  BY <1>3, MintStep, ExpireStep, RevokeBeginStep
<1>4. CASE CleanupExpired \/ Revoke \/ RevokeFails
  BY <1>4, CleanupStep, RevokeWaitStep, RevokeEndStep DEF Revoke
<1>5. CASE \E i \in Instances : DeleteInstance(i)
  BY <1>5, DeleteStep
<1>6. CASE UNCHANGED vars
  <2>1. \A t : Counted(t)' = Counted(t)
    BY <1>6 DEF vars, Bound, Counted
  <2> QED
    BY <1>6, <2>1 DEF vars, IInv, TypeOK, TokenLockExclusive, InstanceLockExclusive, NamedMinted, LockedStays,
       RegisteredHasRow, FreeToBind, RoomToBind, LimitKept, Counted, HoldsToken, HoldsInstance, BoundAlive, Live, At, Limit
<1> QED BY <1>1, <1>2, <1>3, <1>4, <1>5, <1>6 DEF Next

LEMMA OwnedKept == IInv /\ RevokeOwns /\ [Next]_vars => RevokeOwns'
<1> SUFFICES ASSUME IInv, RevokeOwns, [Next]_vars PROVE RevokeOwns'
  OBVIOUS
<1>1. CASE UNCHANGED vars BY <1>1 DEF vars, RevokeOwns, HoldsToken
<1> QED BY <1>1, RequestKeepsOwned, TokenKeepsOwned, RevokeKeepsOwned, DeleteKeepsOwned DEF Next

\* The invariant holds throughout.
THEOREM Invariance == Spec => [](IInv /\ RevokeOwns)
<1>1. Init => RevokeOwns BY DEF Init, RevokeOwns, NoRevoke
<1> QED BY <1>1, InitEstablishes, NextPreserves, OwnedKept, PTL DEF Spec

-----------------------------------------------------------------------------
(* What it is for *)

\* Every variable of the credential store has its type.
THEOREM BindingTypeCorrect == Spec => []TypeOK
<1>1. IInv => TypeOK
  BY DEF IInv
<1> QED BY <1>1, Invariance, PTL

\* Concurrent first uploads, expiry, cleanup and revocation never bind a token to more instances
\* than it was minted for, not counting those that have been deleted.
THEOREM LimitAlwaysKept == Spec => []LimitKept
<1>1. IInv => LimitKept
  BY DEF IInv
<1> QED BY <1>1, Invariance, PTL

\* The registration of an instance that was never deleted changes in two ways only: Bind writes
\* it, holding both locks, or a revocation clears it.
LEMMA RegistrationChanges ==
  ASSUME IInv, RevokeOwns, [Next]_vars, NEW i \in Instances, registration'[i] # registration[i], i \notin deleted'
  PROVE  \/ \E w \in Workers : /\ At(w, "bind_write") /\ worker[w].inst = i
                              /\ registration'[i] = worker[w].token /\ credentials' = credentials
         \/ RevokeEnd /\ registration[i] = revoke.token /\ registration'[i] = NoToken
<1>1. CASE UNCHANGED registration
  BY <1>1
<1>2. ASSUME NEW w \in Workers, BindWrite(w)
      PROVE  At(w, "bind_write") /\ worker[w].inst = i /\ registration'[i] = worker[w].token /\ credentials' = credentials
  <2>1. worker[w].pc = "bind_write" /\ worker[w].inst \in Instances
    BY <1>2, RequestFields DEF BindWrite, At, IInv
  <2> QED BY <1>2, <2>1 DEF BindWrite, At, IInv, TypeOK
<1>3. ASSUME NEW w \in Workers, RegisterWrite(w)
      PROVE  FALSE
  <2>1. worker[w].pc = "register_write" /\ deleted' = deleted
    BY <1>3 DEF RegisterWrite, At
  <2>2. worker[w].inst \in deleted \/ registration[worker[w].inst] # NoRow
    BY <2>1 DEF IInv, RegisteredHasRow
  <2>3. worker[w].inst = i /\ registration[i] = NoRow
    BY <1>3 DEF RegisterWrite, IInv, TypeOK
  <2> QED BY <2>1, <2>2, <2>3
<1>4. ASSUME RevokeEnd
      PROVE  registration[i] = revoke.token /\ registration'[i] = NoToken
  BY <1>4 DEF RevokeEnd, RevokeOwns, Cleared
<1>5. ASSUME NEW j \in Instances, DeleteInstance(j)
      PROVE  FALSE
  BY <1>5 DEF DeleteInstance, IInv, TypeOK
<1>6. CASE Next
  <2>1. \/ UNCHANGED registration
        \/ \E w \in Workers : BindWrite(w) \/ RegisterWrite(w)
        \/ RevokeEnd
        \/ \E j \in Instances : DeleteInstance(j)
    BY <1>6 DEF Next, Verify, Bind, BindToken, BindAgain, BindInstance, BindCount, RegisterScout, RegisterRead,
       Abort, Mint, Expire, RevokeBegin, CleanupExpired, Revoke, RevokeToken, RevokeRow, RevokeFails
  <2> QED BY <1>1, <1>2, <1>3, <1>4, <1>5, <2>1
<1> QED BY <1>1, <1>6 DEF vars

\* Only a deletion adds to the instances that were deleted.
LEMMA DeletionsKept ==
  ASSUME [Next]_vars
  PROVE  deleted' = deleted \/ \E j \in Instances : DeleteInstance(j)
BY DEF vars, Next, Verify, Bind, BindToken, BindAgain, BindInstance, BindCount, BindWrite, RegisterScout,
   RegisterRead, RegisterWrite, Abort, Mint, Expire, RevokeBegin, CleanupExpired, Revoke, RevokeToken,
   RevokeRow, RevokeEnd, RevokeFails

\* No instance that was never deleted is bound anew to a token that was revoked or cleaned up.
THEOREM RevokedNeverBound == Spec => RevokedStaysUnbound
<1>1. ASSUME IInv, RevokeOwns, [Next]_vars, NEW i \in Instances \ deleted, NEW t \in Tokens,
             credentials[t] = "gone", registration'[i] = t
      PROVE  registration[i] = t
  <2> SUFFICES ASSUME registration[i] # t PROVE FALSE
    OBVIOUS
  <2>1. i \notin deleted'
    <3>1. ASSUME NEW j \in Instances, DeleteInstance(j) PROVE i # j
      BY <1>1, <3>1, TokensAssumption DEF DeleteInstance, IInv, TypeOK
    <3> QED BY <1>1, <3>1, DeletionsKept DEF DeleteInstance
  <2>2. PICK w \in Workers : At(w, "bind_write") /\ registration'[i] = worker[w].token
    BY <1>1, <2>1, RegistrationChanges, TokensAssumption
  <2>3. credentials[worker[w].token] # "gone"
    BY <1>1, <2>2 DEF IInv, LockedStays, At
  <2> QED BY <1>1, <2>2, <2>3
<1>2. IInv /\ RevokeOwns /\ [Next]_vars =>
        [\A i \in Instances \ deleted, t \in Tokens :
           (credentials[t] = "gone" /\ registration'[i] = t) => registration[i] = t]_vars
  BY <1>1
<1> QED BY <1>2, Invariance, PTL DEF Spec, RevokedStaysUnbound

\* No instance that was never deleted goes from one living token to another.
THEOREM LiveAlwaysKept == Spec => LiveKept
<1>1. ASSUME IInv, RevokeOwns, [Next]_vars, NEW i \in Instances \ deleted', NEW t \in Tokens,
             registration[i] = t, Live(t), registration'[i] # t
      PROVE  credentials'[t] = "gone"
  <2>1. CASE RevokeEnd /\ registration[i] = revoke.token
    BY <1>1, <2>1 DEF RevokeEnd, IInv, TypeOK
  <2>2. ASSUME NEW w \in Workers, At(w, "bind_write"), worker[w].inst = i, credentials' = credentials
        PROVE  FALSE
    <3>1. i \notin deleted
      BY <1>1, DeletionsKept DEF DeleteInstance
    <3> QED BY <1>1, <2>2, <3>1 DEF IInv, FreeToBind, BoundAlive, At
  <2> QED BY <1>1, <2>1, <2>2, RegistrationChanges
<1>2. IInv /\ RevokeOwns /\ [Next]_vars =>
        [\A i \in Instances \ deleted', t \in Tokens :
           (registration[i] = t /\ Live(t)) => registration'[i] = t \/ credentials'[t] = "gone"]_vars
  BY <1>1
<1> QED BY <1>2, Invariance, PTL DEF Spec, LiveKept

-----------------------------------------------------------------------------
(* CredentialBinding implements TokenRegistry *)

\* What the registry sees of a step.
RegistryStep == Registry!Next \/ UNCHANGED <<credentials, registration, deleted>>

\* The last statement of Bind is the registry's Bind.
LEMMA BindWriteRefines == ASSUME IInv, NEW w \in Workers, BindWrite(w) PROVE RegistryStep
<1> DEFINE t == worker[w].token
           i == worker[w].inst
<1>0. worker[w].pc = "bind_write" BY DEF BindWrite, At
<1>1. t \in Tokens /\ i \in Instances BY <1>0, RequestFields DEF IInv
<1>2. registration' = [registration EXCEPT ![i] = t] /\ UNCHANGED <<credentials, deleted>> BY DEF BindWrite
<1>3. Registry!Kept(t)
  BY <1>0, <1>1 DEF IInv, TypeOK, NamedMinted, LockedStays, Registry!Kept
<1>4. Registry!Write(t, i) BY <1>2 DEF Registry!Write
<1>5. Registry!Free(i) \/ i \in deleted
  BY <1>0 DEF IInv, FreeToBind, BoundAlive, Live, Registry!Free
<1>6. Registry!Room(t)
  <2>1. Cardinality(Counted(t)) < Limit(t)
    BY <1>0 DEF IInv, RoomToBind, At
  <2> HIDE DEF t
  <2>2. Registry!Bound(t) \ deleted = Counted(t) BY DEF Bound, Counted, Registry!Bound
  <2>3. \A S : Registry!Cardinality(S) = Cardinality(S)
    BY DEF Registry!Cardinality, Cardinality
  <2>4. [u \in Tokens |-> Limit(u)][t] = Limit(t) BY <1>1
  <2> QED BY <2>1, <2>2, <2>3, <2>4 DEF Registry!Room
<1>7. Registry!Bind(t, i) BY <1>3, <1>4, <1>5, <1>6 DEF Registry!Bind
<1> QED BY <1>1, <1>7 DEF RegistryStep, Registry!Next

\* The refresh of a registration is seen by the registry when the row was deleted after the binding.
LEMMA RegisterWriteRefines == ASSUME IInv, NEW w \in Workers, RegisterWrite(w) PROVE RegistryStep
<1> DEFINE t == worker[w].token
           i == worker[w].inst
<1>0. worker[w].pc = "register_write" BY DEF RegisterWrite, At
<1>1. t \in Tokens /\ i \in Instances /\ credentials[t] # "unminted"
  BY <1>0, RequestFields DEF IInv, NamedMinted
<1>2. registration' = [registration EXCEPT ![i] = IF @ = NoRow THEN t ELSE @] /\ UNCHANGED <<credentials, deleted>>
  BY DEF RegisterWrite
<1>3. CASE registration[i] # NoRow
  <2>1. registration' = registration BY <1>2, <1>3 DEF IInv, TypeOK
  <2> QED BY <1>2, <2>1 DEF RegistryStep
<1>4. CASE registration[i] = NoRow
  <2>1. i \in deleted BY <1>0, <1>4 DEF IInv, RegisteredHasRow
  <2>2. Registry!Write(t, i) BY <1>2, <1>4 DEF Registry!Write
  <2>3. Registry!Return(t, i) BY <1>1, <1>4, <2>1, <2>2 DEF Registry!Return
  <2> QED BY <1>1, <2>3 DEF RegistryStep, Registry!Next
<1> QED BY <1>3, <1>4

\* The statement of Revoke, when it is done.
LEMMA RevokeEndRefines == ASSUME IInv, RevokeOwns, RevokeEnd PROVE RegistryStep
<1> DEFINE t == revoke.token
<1>1. t \in Tokens /\ revoke.taken \in SUBSET Instances
  BY DEF RevokeEnd, IInv, TypeOK, NoRevoke
<1>2. credentials[t] # "unminted" /\ credentials[t] # "gone" /\ \A i \in revoke.taken : registration[i] = t
  BY DEF RevokeEnd, RevokeOwns
<1>3. Registry!Kept(t) BY <1>1, <1>2 DEF IInv, TypeOK, Registry!Kept
<1>4. revoke.taken \subseteq Registry!Bound(t) BY <1>1, <1>2 DEF Registry!Bound
<1>5. Registry!Revoke(t, revoke.taken) BY <1>3, <1>4 DEF RevokeEnd, Cleared, Registry!Revoke
<1> QED BY <1>1, <1>5 DEF RegistryStep, Registry!Next

\* The steps that are one step of the registry by themselves.
LEMMA TokenLifeRefines ==
  ASSUME IInv, (\E t \in Tokens : Mint(t) \/ Expire(t)) \/ CleanupExpired \/ \E i \in Instances : DeleteInstance(i)
  PROVE  RegistryStep
<1>1. ASSUME NEW t \in Tokens, Mint(t) PROVE RegistryStep
  BY <1>1 DEF Mint, Registry!Mint, RegistryStep, Registry!Next
<1>2. ASSUME NEW t \in Tokens, Expire(t) PROVE RegistryStep
  BY <1>2 DEF Expire, Live, Registry!Expire, RegistryStep, Registry!Next
<1>3. CASE CleanupExpired
  <2>1. PICK gone \in SUBSET {t \in Tokens : credentials[t] = "expired"} :
          credentials' = [t \in Tokens |-> IF t \in gone THEN "gone" ELSE credentials[t]]
    BY <1>3 DEF CleanupExpired
  <2>2. Registry!Cleanup(gone) BY <1>3, <2>1 DEF CleanupExpired, Registry!Cleanup
  <2> QED BY <2>1, <2>2 DEF RegistryStep, Registry!Next
<1>4. ASSUME NEW i \in Instances, DeleteInstance(i) PROVE RegistryStep
  <2>1. Registry!Delete(i) BY <1>4 DEF DeleteInstance, Registry!Delete
  <2> QED BY <2>1 DEF RegistryStep, Registry!Next
<1> QED BY <1>1, <1>2, <1>3, <1>4

\* credential_binding.go: whatever requests, revocations and cleanups interleave, binding is one
\* step of TokenRegistry, taken with a token in the table that has room, for an instance that is
\* free or has been deleted once; the row of a deleted instance may come back.
THEOREM RegistryImplemented == Spec => ImplementsRegistry
<1>1. Init => Registry!Init
  BY DEF Init, Registry!Init
<1>2. IInv /\ RevokeOwns /\ [Next]_vars => [Registry!Next]_(Registry!vars)
  <2> SUFFICES ASSUME IInv, RevokeOwns, [Next]_vars PROVE RegistryStep
    BY DEF RegistryStep, Registry!vars
  <2>1. \/ UNCHANGED <<credentials, registration, deleted>>
        \/ \E w \in Workers : BindWrite(w) \/ RegisterWrite(w)
        \/ (\E t \in Tokens : Mint(t) \/ Expire(t)) \/ CleanupExpired \/ RevokeEnd
        \/ \E i \in Instances : DeleteInstance(i)
    BY DEF vars, Next, Verify, Bind, BindToken, BindAgain, BindInstance, BindCount, RegisterScout, RegisterRead,
       Abort, RevokeBegin, Revoke, RevokeToken, RevokeRow, RevokeFails
  <2>2. CASE UNCHANGED <<credentials, registration, deleted>>
    BY <2>2 DEF RegistryStep
  <2> QED BY <2>1, <2>2, BindWriteRefines, RegisterWriteRefines, RevokeEndRefines, TokenLifeRefines
<1> QED BY <1>1, <1>2, Invariance, PTL DEF Spec, ImplementsRegistry, Registry!Spec

-----------------------------------------------------------------------------
(* Why a request is answered *)

\* How far a request is from its answer.
Left(pc) ==
  CASE pc = "bind_token"     -> 6
    [] pc = "bind_instance"  -> 5
    [] pc = "bind_count"     -> 4
    [] pc = "bind_write"     -> 3
    [] pc = "register_read"  -> 2
    [] pc = "register_write" -> 1
    [] OTHER                 -> 0

Answered(w)  == worker'[w] = Idle
Nearer(w)    == Left(worker'[w].pc) < Left(worker[w].pc)
Requested(w) == \E t \in Tokens, i \in Instances : Verify(w, t, i)

RequestAdvances(w) ==
  /\ Bind(w) \/ RegisterScout(w) => Nearer(w)
  /\ worker'[w] # worker[w] => Nearer(w) \/ Answered(w) \/ Requested(w)

RevokeNearer ==
  \/ revoke' = NoRevoke
  \/ revoke.pc = "token" /\ revoke'.pc = "rows"
  \/ revoke'.pc = revoke.pc /\ \E i \in revoke.seen : revoke'.seen = revoke.seen \ {i}

RevokeAdvances ==
  /\ Revoke => RevokeNearer
  /\ revoke' # revoke => RevokeNearer \/ \E t \in Tokens : RevokeBegin(t)

\* What the next statement of a request waits for.
MayGoOn(w) ==
  /\ At(w, "bind_token") => TokenFree(worker[w].token)
  /\ At(w, "bind_instance") => InstanceFree(worker[w].inst) /\ ~RevokeHoldsRow(worker[w].inst)
  /\ At(w, "bind_write") => ~RevokeHoldsRow(worker[w].inst)
  /\ At(w, "register_read") => RegistryFree(worker[w].inst)
  /\ At(w, "register_write") => RowFree(worker[w].inst)

\* What a revocation waits for, whichever row PostgreSQL takes next.
RevokeMayGoOn ==
  /\ revoke.pc = "token" => TokenFree(revoke.token)
  /\ revoke.pc = "rows" => \A i \in revoke.seen : RowFree(i)

\* A holder of the instance waits for a revocation at most, which then has its token and waits
\* for no such holder; a holder of the mutex waits for these only, and a holder of the token too.
SomebodyGoesOn ==
  (\E w \in Workers : ~At(w, "idle")) \/ revoke.pc # "none" =>
    (\E w \in Workers : ~At(w, "idle") /\ MayGoOn(w)) \/ (revoke.pc # "none" /\ RevokeMayGoOn)

LEMMA GoesOn == TypeOK /\ RevokeOwns => SomebodyGoesOn
<1> SUFFICES ASSUME TypeOK, RevokeOwns, \A w \in Workers : MayGoOn(w) => At(w, "idle")
             PROVE  IF revoke.pc = "none" THEN \A w \in Workers : At(w, "idle") ELSE RevokeMayGoOn
  BY DEF SomebodyGoesOn
<1>1. \A w \in Workers : worker[w].pc \in InstancePc => At(w, "bind_write") /\ RevokeHoldsRow(worker[w].inst)
  BY DEF MayGoOn, At
<1>2. CASE revoke.pc = "rows"
  <2>1. ASSUME NEW i \in revoke.seen PROVE RowFree(i)
    <3>1. i \notin revoke.taken BY <1>2, <2>1 DEF RevokeOwns
    <3>2. ~RevokeHoldsRow(i) BY <3>1 DEF RevokeHoldsRow
    <3> QED BY <1>1, <3>2 DEF RowFree, HoldsInstance
  <2> QED BY <1>2, <2>1 DEF RevokeMayGoOn
<1>3. CASE revoke.pc # "rows"
  <2>1. \A w \in Workers : worker[w].pc \notin InstancePc BY <1>1, <1>3 DEF RevokeHoldsRow
  <2>2. \A i \in Instances : InstanceFree(i) /\ RowFree(i) /\ ~RevokeHoldsRow(i)
    BY <1>3, <2>1 DEF InstanceFree, RowFree, HoldsInstance, RevokeHoldsRow
  <2>3. \A w \in Workers : ~At(w, "bind_instance") /\ ~At(w, "register_write")
    BY <2>2, RequestFields DEF MayGoOn, At
  <2>4. \A t \in Tokens : TokenFree(t)
    BY <1>3, <2>1, <2>3 DEF TokenFree, HoldsToken, RevokeHoldsToken, At
  <2>5. \A w \in Workers : RegistryFree(worker[w].inst) BY <2>3 DEF RegistryFree
  <2>6. \A w \in Workers : At(w, "idle")
    <3>1. ASSUME NEW w \in Workers, ~At(w, "idle") PROVE MayGoOn(w)
      <4>1. worker[w].token \in Tokens BY <3>1, RequestFields DEF At
      <4> QED BY <2>1, <2>3, <2>4, <2>5, <4>1 DEF MayGoOn, At
    <3> QED BY <3>1
  <2>7. revoke.pc = "token" => revoke.token \in Tokens BY DEF TypeOK, NoRevoke
  <2> QED BY <1>3, <2>4, <2>6, <2>7 DEF RevokeMayGoOn
<1> QED BY <1>2, <1>3

\* What a step of a request does to it.
LEMMA OwnStepAdvances ==
  ASSUME TypeOK, NEW w \in Workers, Bind(w) \/ RegisterScout(w)
  PROVE  Nearer(w) /\ \A v \in Workers \ {w} : worker'[v] = worker[v]
<1>1. /\ worker[w].pc # "idle"
      /\ \/ At(w, "bind_token") /\ (Advance(w, "bind_instance") \/ Finish(w))
         \/ At(w, "bind_instance") /\ (Advance(w, "register_read") \/ Finish(w))
         \/ /\ At(w, "bind_instance")
            /\ \E b : Become(w, [worker[w] EXCEPT !.pc = "bind_count", !.locked = b])
         \/ At(w, "bind_count") /\ (Advance(w, "bind_write") \/ Finish(w))
         \/ At(w, "bind_write") /\ Advance(w, "register_read")
         \/ At(w, "register_read") /\ (Advance(w, "register_write") \/ Finish(w))
         \/ At(w, "register_write") /\ Finish(w)
  BY DEF Bind, BindToken, BindAgain, BindInstance, BindCount, BindWrite, RegisterScout, RegisterRead,
     RegisterWrite, At
<1>2. worker[w] \in Request /\ worker \in [Workers -> {Idle} \cup Request]
  BY <1>1, RequestFields DEF TypeOK
<1>3. \E s : Become(w, s) /\ Left(s.pc) < Left(worker[w].pc)
  <2>1. CASE Finish(w)
    <3>1. Left("idle") = 0 /\ \A pc \in RequestPc : Left(pc) > 0 BY DEF Left
    <3>2. worker[w].pc \in RequestPc BY <1>2 DEF Request
    <3> QED BY <2>1, <3>1, <3>2 DEF Finish, Idle
  <2>2. CASE \E pc : Advance(w, pc) /\ Left(pc) < Left(worker[w].pc)
    <3>1. PICK pc : Advance(w, pc) /\ Left(pc) < Left(worker[w].pc) BY <2>2
    <3>2. [worker[w] EXCEPT !.pc = pc].pc = pc BY <1>2 DEF Request
    <3> QED BY <3>1, <3>2 DEF Advance
  <2>3. CASE /\ At(w, "bind_instance")
             /\ \E b : Become(w, [worker[w] EXCEPT !.pc = "bind_count", !.locked = b])
    <3>1. PICK b : Become(w, [worker[w] EXCEPT !.pc = "bind_count", !.locked = b]) BY <2>3
    <3>2. [worker[w] EXCEPT !.pc = "bind_count", !.locked = b].pc = "bind_count" BY <1>2 DEF Request
    <3>3. Left("bind_count") < Left(worker[w].pc) BY <2>3 DEF At, Left
    <3> QED BY <3>1, <3>2, <3>3
  <2>4. \/ Finish(w)
        \/ \E pc : Advance(w, pc) /\ Left(pc) < Left(worker[w].pc)
        \/ /\ At(w, "bind_instance")
           /\ \E b : Become(w, [worker[w] EXCEPT !.pc = "bind_count", !.locked = b])
    <3>1. /\ Left("bind_instance") < Left("bind_token")
          /\ Left("register_read") < Left("bind_instance")
          /\ Left("bind_write") < Left("bind_count")
          /\ Left("register_read") < Left("bind_write")
          /\ Left("register_write") < Left("register_read")
      BY DEF Left
    <3> QED BY <1>1, <3>1 DEF At
  <2> QED BY <2>1, <2>2, <2>3, <2>4
<1> QED BY <1>2, <1>3 DEF Become, Nearer

\* What a step does to a revocation.
LEMMA RevokeStepAdvances == TypeOK /\ Next => RevokeAdvances
<1> SUFFICES ASSUME TypeOK, Next PROVE RevokeAdvances
  OBVIOUS
<1>0. revoke = NoRevoke \/ revoke \in [pc : {"token", "rows"}, token : Tokens,
                                     seen : SUBSET Instances, taken : SUBSET Instances]
  BY DEF TypeOK
<1>1. ASSUME Revoke PROVE RevokeNearer
  <2>1. CASE RevokeToken BY <1>0, <2>1 DEF RevokeToken, RevokeNearer, NoRevoke
  <2>2. ASSUME NEW i \in Instances, RevokeRow(i) PROVE RevokeNearer
    BY <1>0, <2>2 DEF RevokeRow, RevokeNearer, NoRevoke
  <2>3. CASE RevokeEnd BY <2>3 DEF RevokeEnd, RevokeNearer
  <2> QED BY <1>1, <2>1, <2>2, <2>3 DEF Revoke
<1>2. ASSUME NEW i \in Instances, DeleteInstance(i), revoke' # revoke PROVE RevokeNearer
  <2>1. revoke # NoRevoke /\ revoke' = [revoke EXCEPT !.seen = @ \ {i}] BY <1>2 DEF DeleteInstance
  <2>2. i \in revoke.seen
    <3>1. i \notin revoke.seen => revoke.seen \ {i} = revoke.seen OBVIOUS
    <3> QED BY <1>0, <1>2, <2>1, <3>1
  <2> QED BY <1>0, <2>1, <2>2 DEF RevokeNearer
<1>3. \/ revoke' = revoke \/ Revoke \/ revoke' = NoRevoke
      \/ \E t \in Tokens : RevokeBegin(t)
      \/ \E i \in Instances : DeleteInstance(i)
  BY DEF Next, Verify, Bind, BindToken, BindAgain, BindInstance, BindCount, BindWrite, RegisterScout, RegisterRead,
     RegisterWrite, Abort, Mint, Expire, CleanupExpired, RevokeFails
<1> QED BY <1>1, <1>2, <1>3 DEF RevokeAdvances, RevokeNearer

\* Every statement of Bind and registerScout takes its request nearer to the answer, and every
\* row a revocation gets takes that nearer to its end; whatever else happens leaves them where
\* they are or ends them. In the meantime somebody always has all that its next statement waits
\* for: token rows, instance locks, registration rows and the mutexes of registerScout are never
\* held in a circle, whichever row Revoke takes next. With the strong fairness of requests and
\* revocations this is why each request is answered (RequestsAnswered).
THEOREM RequestsAdvance ==
  Spec => [][RevokeAdvances /\ \A w \in Workers : RequestAdvances(w)]_vars /\ []SomebodyGoesOn
<1>1. TypeOK /\ [Next]_vars => [RevokeAdvances /\ \A w \in Workers : RequestAdvances(w)]_vars
  <2> SUFFICES ASSUME TypeOK, Next, NEW w \in Workers PROVE RequestAdvances(w)
    BY RevokeStepAdvances
  <2>1. Bind(w) \/ RegisterScout(w) => Nearer(w) BY OwnStepAdvances
  <2>2. worker'[w] # worker[w] => Nearer(w) \/ Answered(w) \/ Requested(w)
    <3>1. CASE \E v \in Workers : Bind(v) \/ RegisterScout(v)
      BY <3>1, OwnStepAdvances
    <3>2. CASE \E v \in Workers : Abort(v)
      BY <3>2 DEF Abort, Finish, Become, Answered, TypeOK
    <3>3. CASE \E v \in Workers : Requested(v)
      BY <3>3 DEF Requested, Verify, Become, TypeOK
    <3>4. CASE UNCHANGED worker
      BY <3>4
    <3> QED BY <3>1, <3>2, <3>3, <3>4
          DEF Next, Requested, Mint, Expire, RevokeBegin, CleanupExpired, Revoke, RevokeToken, RevokeRow,
              RevokeEnd, RevokeFails, DeleteInstance
  <2> QED BY <2>1, <2>2 DEF RequestAdvances
<1>2. IInv => TypeOK BY DEF IInv
<1> QED BY <1>1, <1>2, GoesOn, Invariance, PTL DEF Spec
=============================================================================
