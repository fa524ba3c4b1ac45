------------------------- MODULE CredentialBinding -------------------------
(***************************************************************************)
(* Which Scout instance may use which Station token: store/credentials.go, *)
(* store/credential_binding.go, registerScout of ingest/ingest.go and the  *)
(* deletion of an instance in api/overview.go (app/station/internal).      *)
(*                                                                         *)
(* An upload request verifies its token, binds it to the instance in a     *)
(* READ COMMITTED transaction (Bind), and then refreshes the registration  *)
(* in two statements of their own (registerScout).  Each statement is a    *)
(* step: it sees what was committed before it, and waits for the rows and  *)
(* advisory locks that another transaction holds.  What a transaction      *)
(* writes appears when it commits; Bind writes in its last statement, so   *)
(* that statement and the commit are one step.  Revoke is one statement,   *)
(* which takes the rows that it changes one by one.                        *)
(*                                                                         *)
(* Signatures, lifetimes in days and the rest of a registration row are    *)
(* left out: a token is minted once, lives, may expire, and is deleted.    *)
(***************************************************************************)
EXTENDS Integers, FiniteSets

CONSTANTS
  Tokens,            \* token hashes
  Instances,         \* pairs of scout_id and scout_instance_id
  ScoutOf,           \* the scout_id of each instance
  Shared,            \* the tokens minted as shared
  MaxRegistrations,  \* max_registrations of each token
  Workers,           \* upload requests being authorized at once
  NoToken,           \* a registration without credential_hash
  NoRow,             \* no row in scout_registration
  Deletable,         \* bound: the instances that an administrator deletes, any number of times
  Revocable          \* bound: the tokens that an administrator revokes

ASSUME InstancesAssumption == IsFiniteSet(Instances) /\ DOMAIN ScoutOf = Instances
ASSUME TokensAssumption    ==
  /\ Shared \subseteq Tokens
  /\ MaxRegistrations \in [Tokens -> Int]
  /\ NoToken \notin Tokens
  /\ NoRow \notin Tokens \cup {NoToken}
ASSUME BoundsAssumption == Deletable \subseteq Instances /\ Revocable \subseteq Tokens

VARIABLES
  credentials,   \* scout_credentials: what became of each token
  registration,  \* scout_registration: the credential_hash of each instance
  worker,        \* what each request is doing
  revoke,        \* the revocation under way
  deleted        \* history: the instances an administrator has ever deleted

vars == <<credentials, registration, worker, revoke, deleted>>

-----------------------------------------------------------------------------

\* An ordinary token is for one instance, whatever the row says.
Limit(t) == IF t \in Shared /\ MaxRegistrations[t] > 1 THEN MaxRegistrations[t] ELSE 1

Live(t)  == credentials[t] = "live"
Bound(t) == {i \in Instances : registration[i] = t}

Idle == [pc |-> "idle"]
NoRevoke == [pc |-> "none"]

TokenPc    == {"bind_instance", "bind_count", "bind_write"}
InstancePc == {"bind_count", "bind_write"}
RequestPc  == {"bind_token", "register_read", "register_write"} \cup TokenPc
Request    == [pc : RequestPc, token : Tokens, inst : Instances, locked : BOOLEAN]

At(w, pc)      == worker[w].pc = pc
Become(w, s)   == worker' = [worker EXCEPT ![w] = s]
Finish(w)      == Become(w, Idle)
Advance(w, pc) == Become(w, [worker[w] EXCEPT !.pc = pc])

\* The rows that a running Revoke has locked.
RevokeHoldsToken(t) == revoke.pc = "rows" /\ revoke.token = t
RevokeHoldsRow(i)   == revoke.pc = "rows" /\ i \in revoke.taken

TokenFreeOfNobody(t) == TRUE
\* The row of the token, which Bind selects FOR UPDATE before anything else.
HoldsToken(w, t) == worker[w].pc \in TokenPc /\ worker[w].token = t
TokenFree(t)     == ~RevokeHoldsToken(t) /\ \A w \in Workers : ~HoldsToken(w, t)

\* pg_advisory_xact_lock of the instance.
HoldsInstance(w, i) == worker[w].pc \in InstancePc /\ worker[w].inst = i
InstanceFreeOfNobody(i) == TRUE
InstanceFree(i)     == \A w \in Workers : ~HoldsInstance(w, i)

\* The registration row of the instance, selected FOR UPDATE if there was one.
RowFree(i) == ~RevokeHoldsRow(i) /\ \A w \in Workers : ~(HoldsInstance(w, i) /\ worker[w].locked)

\* The mutex of registerScout, one for each Scout.
RegistryFree(i) ==
  \A w \in Workers : At(w, "register_write") => ScoutOf[worker[w].inst] # ScoutOf[i]

Init ==
  /\ credentials  = [t \in Tokens |-> "unminted"]
  /\ registration = [i \in Instances |-> NoRow]
  /\ worker       = [w \in Workers |-> Idle]
  /\ revoke       = NoRevoke
  /\ deleted      = {}

-----------------------------------------------------------------------------
(* An upload request: Verify, Bind, registerScout *)

Verify(w, t, i) ==
  /\ At(w, "idle")
  /\ Live(t)
  /\ Become(w, [pc |-> "bind_token", token |-> t, inst |-> i, locked |-> FALSE])
  /\ UNCHANGED <<credentials, registration, revoke, deleted>>

\* The token's row is locked; it may have expired or gone since Verify.
BindToken(w) ==
  /\ At(w, "bind_token")
  /\ TokenFree(worker[w].token)
  /\ IF Live(worker[w].token) THEN Advance(w, "bind_instance") ELSE Finish(w)
  /\ UNCHANGED <<credentials, registration, revoke, deleted>>

\* The instance is already bound to this token: the transaction commits without a write.
BindAgain(w) ==
  /\ At(w, "bind_instance")
  /\ InstanceFree(worker[w].inst)
  /\ ~RevokeHoldsRow(worker[w].inst)
  /\ registration[worker[w].inst] = worker[w].token
  /\ Advance(w, "register_read")
  /\ UNCHANGED <<credentials, registration, revoke, deleted>>

BoundAliveUnchecked(i) == FALSE
BoundAlive(i) == registration[i] \in Tokens /\ Live(registration[i])

\* It is bound to another token: that must not be alive.
BindInstance(w) ==
  /\ At(w, "bind_instance")
  /\ LET i == worker[w].inst
     IN /\ InstanceFree(i)
        /\ ~RevokeHoldsRow(i)
        /\ registration[i] # worker[w].token
        /\ IF BoundAlive(i)
           THEN Finish(w)
           ELSE Become(w, [worker[w] EXCEPT !.pc = "bind_count", !.locked = registration[i] # NoRow])
  /\ UNCHANGED <<credentials, registration, revoke, deleted>>

ReachedOffByOne(t) == Cardinality(Bound(t)) > Limit(t)
Reached(t) == Cardinality(Bound(t)) >= Limit(t)

BindCountWaiting(w) ==
  /\ At(w, "bind_count")
  /\ ~Reached(worker[w].token)
  /\ Advance(w, "bind_write")
  /\ UNCHANGED <<credentials, registration, revoke, deleted>>
BindCount(w) ==
  /\ At(w, "bind_count")
  /\ IF Reached(worker[w].token) THEN Finish(w) ELSE Advance(w, "bind_write")
  /\ UNCHANGED <<credentials, registration, revoke, deleted>>

\* INSERT ... ON CONFLICT DO UPDATE SET credential_hash, and the commit. A row that was not there
\* when Bind looked may be somebody's by now.
BindWrite(w) ==
  /\ At(w, "bind_write")
  /\ ~RevokeHoldsRow(worker[w].inst)
  /\ registration' = [registration EXCEPT ![worker[w].inst] = worker[w].token]
  /\ Advance(w, "register_read")
  /\ UNCHANGED <<credentials, revoke, deleted>>

\* GetScoutRegistration, under the Scout's mutex: another token's instance is refused.
RegisterRead(w) ==
  /\ At(w, "register_read")
  /\ RegistryFree(worker[w].inst)
  /\ IF registration[worker[w].inst] \in Tokens \ {worker[w].token}
     THEN Finish(w)
     ELSE Advance(w, "register_write")
  /\ UNCHANGED <<credentials, registration, revoke, deleted>>

\* UpsertScoutRegistration: a new row gets the token, an existing one keeps what it has.
RegisterWrite(w) ==
  /\ At(w, "register_write")
  /\ LET i == worker[w].inst
     IN /\ RowFree(i)
        /\ registration' = [registration EXCEPT ![i] = IF @ = NoRow THEN worker[w].token ELSE @]
  /\ Finish(w)
  /\ UNCHANGED <<credentials, revoke, deleted>>

\* The client goes away, a statement fails or Station stops: the transaction is rolled back.
Abort(w) ==
  /\ worker[w].pc # "idle"
  /\ Finish(w)
  /\ UNCHANGED <<credentials, registration, revoke, deleted>>

-----------------------------------------------------------------------------
(* The life of a token *)

Mint(t) ==
  /\ credentials[t] = "unminted"
  /\ credentials' = [credentials EXCEPT ![t] = "live"]
  /\ UNCHANGED <<registration, worker, revoke, deleted>>

Expire(t) ==
  /\ Live(t)
  /\ credentials' = [credentials EXCEPT ![t] = "expired"]
  /\ UNCHANGED <<registration, worker, revoke, deleted>>

\* DELETE of the tokens that had expired when the statement began; their bindings stay.
CleanupExpired ==
  /\ \E gone \in SUBSET {t \in Tokens : credentials[t] = "expired"} :
       /\ gone # {}
       /\ \A t \in gone : TokenFree(t)
       /\ credentials' = [t \in Tokens |-> IF t \in gone THEN "gone" ELSE credentials[t]]
  /\ UNCHANGED <<registration, worker, revoke, deleted>>

\* What Revoke leaves in credential_hash.
Cleared == NoToken

\* Revoke is one statement: it finds the bindings in the snapshot it starts with, ...
RevokeBegin(t) ==
  /\ t \in Revocable
  /\ revoke = NoRevoke
  /\ credentials[t] \in {"live", "expired"}
  /\ revoke' = [pc |-> "token", token |-> t, seen |-> Bound(t), taken |-> {}]
  /\ UNCHANGED <<credentials, registration, worker, deleted>>

\* ... waits for the token's row, which may be gone by then, ...
RevokeToken ==
  /\ revoke.pc = "token"
  /\ TokenFree(revoke.token)
  /\ revoke' = IF credentials[revoke.token] = "gone" THEN NoRevoke ELSE [revoke EXCEPT !.pc = "rows"]
  /\ UNCHANGED <<credentials, registration, worker, deleted>>

\* ... then for one registration row after the other, which it keeps if it still names the token, ...
RevokeRow(i) ==
  /\ revoke.pc = "rows" /\ i \in revoke.seen
  /\ RowFree(i)
  /\ revoke' = [revoke EXCEPT !.seen  = @ \ {i},
                              !.taken = IF registration[i] = revoke.token THEN @ \cup {i} ELSE @]
  /\ UNCHANGED <<credentials, registration, worker, deleted>>

\* ... and commits.
RevokeEnd ==
  /\ revoke.pc = "rows" /\ revoke.seen = {}
  /\ credentials' = [credentials EXCEPT ![revoke.token] = "gone"]
  /\ registration' = [i \in Instances |-> IF i \in revoke.taken THEN Cleared ELSE registration[i]]
  /\ revoke' = NoRevoke
  /\ UNCHANGED <<worker, deleted>>

\* The administrator's request goes away or the statement fails.
RevokeFails ==
  /\ revoke # NoRevoke
  /\ revoke' = NoRevoke
  /\ UNCHANGED <<credentials, registration, worker, deleted>>

\* handleDeleteInstance removes the registration and leaves the token.  A row that is inserted
\* afterwards is not the one a running Revoke has seen.
DeleteInstance(i) ==
  /\ i \in Deletable
  /\ registration[i] # NoRow
  /\ RowFree(i)
  /\ registration' = [registration EXCEPT ![i] = NoRow]
  /\ revoke' = IF revoke = NoRevoke THEN revoke ELSE [revoke EXCEPT !.seen = @ \ {i}]
  /\ deleted' = deleted \cup {i}
  /\ UNCHANGED <<credentials, worker>>

-----------------------------------------------------------------------------

Bind(w) == BindToken(w) \/ BindAgain(w) \/ BindInstance(w) \/ BindCount(w) \/ BindWrite(w)
RegisterScout(w) == RegisterRead(w) \/ RegisterWrite(w)
Revoke == RevokeToken \/ (\E i \in Instances : RevokeRow(i)) \/ RevokeEnd

Next ==
  \/ \E w \in Workers : \/ \E t \in Tokens, i \in Instances : Verify(w, t, i)
                        \/ Bind(w) \/ RegisterScout(w) \/ Abort(w)
  \/ \E t \in Tokens : Mint(t) \/ Expire(t) \/ RevokeBegin(t)
  \/ CleanupExpired \/ Revoke \/ RevokeFails
  \/ \E i \in Instances : DeleteInstance(i)

Spec == Init /\ [][Next]_vars

\* Requests and revocations run on, and PostgreSQL and Go queue those that wait for a lock.
Fairness == SF_vars(Revoke) /\ \A w \in Workers : SF_vars(Bind(w) \/ RegisterScout(w))
FairSpec == Spec /\ Fairness

-----------------------------------------------------------------------------
(* Properties *)

TypeOK ==
  /\ credentials \in [Tokens -> {"unminted", "live", "expired", "gone"}]
  /\ registration \in [Instances -> Tokens \cup {NoToken, NoRow}]
  /\ worker \in [Workers -> {Idle} \cup Request]
  /\ revoke \in {NoRevoke} \cup [pc : {"token", "rows"}, token : Tokens,
                              seen : SUBSET Instances, taken : SUBSET Instances]
  /\ deleted \subseteq Instances

\* However many first uploads arrive at once, a token is bound to no more instances than it was
\* minted for, not counting those that have been deleted: their rows may come back.
LimitKept == \A t \in Tokens : Cardinality(Bound(t) \ deleted) <= Limit(t)

\* No instance that was never deleted goes from one living token to another.
LiveKept ==
  [][\A i \in Instances \ deleted', t \in Tokens :
       (registration[i] = t /\ Live(t)) => registration'[i] = t \/ credentials'[t] = "gone"]_vars

\* No instance that was never deleted is bound to a token that was revoked or cleaned up: Bind
\* keeps the token's row to its end.
RevokedStaysUnbound ==
  [][\A i \in Instances \ deleted, t \in Tokens :
       (credentials[t] = "gone" /\ registration'[i] = t) => registration[i] = t]_vars

\* Every request gets its locks and is answered.
RequestsAnswered == \A w \in Workers : ~At(w, "idle") ~> At(w, "idle")

-----------------------------------------------------------------------------
(* The abstract specification *)

Registry == INSTANCE TokenRegistry WITH
              Limits <- [t \in Tokens |-> Limit(t)]

\* The statements of Bind, with the locks they take and whatever commits in between, are one
\* step in which all that they have looked at is still true.
ImplementsRegistry == Registry!Spec
=============================================================================
