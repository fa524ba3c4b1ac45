------------------------- MODULE UploadIngestProofs -------------------------
(***************************************************************************)
(* Theorems about UploadIngest, for every value of its constants.          *)
(*                                                                         *)
(* What reaches the backup root is what the Scout declared (IInv), and     *)
(* that is what SnapshotStore says of a store (StoreImplemented).  The     *)
(* argument is about two locks.  The advisory lock of an upload has one    *)
(* holder, so archive.part cannot grow under a handler that has measured   *)
(* it (StagedBounded) or has verified its checksum (VerifiedStaged); those *)
(* without the lock can only remove the file.  The lock of the namespace   *)
(* has one holder, so the ".tmp" of a copy is what the handler that will   *)
(* rename it has written (CopyVerified).                                   *)
(*                                                                         *)
(* Blocks stay in order, retention holds, the index and the answers name   *)
(* files that are there, and no snapshot goes before its time (RInv, on    *)
(* top of IInv).  Between two handlers of commitNewArchive each of these   *)
(* is a plain fact; inside it is a fact about what its program point has   *)
(* still to do: prune the one file too many, list, upsert and reconcile,   *)
(* save.  Retention can count on modification times because no two files   *)
(* have the same one (OwnTimes).                                           *)
(***************************************************************************)
EXTENDS UploadIngest, SequenceTheorems, FiniteSetTheorems, TLAPS

\* The advisory lock of an upload has one holder.
UploadLockExclusive ==
  \A v, w \in Workers, u \in Uploads : HoldsUpload(v, u) /\ HoldsUpload(w, u) => v = w

\* The lock of the namespace has one holder.
NamespaceLockExclusive ==
  \A v, w \in Workers : HoldsNamespace(v) /\ HoldsNamespace(w) => v = w

\* archive.part never outgrows the declared size, nor the size an AppendChunk read before it writes.
StagedBounded ==
  /\ \A u \in Uploads : Size(u) <= Blocks
  /\ \A w \in Workers : At(w, "append_write") => Size(worker[w].upload) <= worker[w].offset

\* Between the checksum and the move into place the staged file is what was checked, or is gone.
VerifiedPc == {"final_dup", "final_store"}
VerifiedStaged ==
  \A w \in Workers : worker[w].pc \in VerifiedPc =>
    LET f == staged[worker[w].upload] IN f = NoFile \/ f.data = Declared

\* What a copy reads from the open file, and the ".tmp" it is about to rename, is what was checked.
CopyVerified ==
  \A w \in Workers :
    /\ At(w, "final_copy") => worker[w].source = Declared
    /\ At(w, "final_rename") => files[Tmp(worker[w].sess.archive)].data = Declared

\* The inductive invariant.
IInv ==
  /\ TypeOK
  /\ UploadLockExclusive
  /\ NamespaceLockExclusive
  /\ StagedBounded
  /\ VerifiedStaged
  /\ CopyVerified
  /\ StoredIsDeclared

-----------------------------------------------------------------------------
(* Types of the handlers' states *)

SessionState == [pc : SessionPc, upload : Uploads, sess : Session, listing : SUBSET Names,
                 doomed : SUBSET Names, offset : 0..Blocks, source : Seq(BlockValue)]
Budgets == [damaged : Nat, expiries : Nat, crashes : Nat, failures : Nat, deletes : Nat, settled : Int]

USE DEF StartPc, SessionPc, LockedPc, FinalNsPc, VerifiedPc

\* A handler's program point tells which of the three kinds of state it is in.
LEMMA WorkerFields ==
  ASSUME NEW w \in Workers, worker \in [Workers -> WorkerState]
  PROVE  /\ worker[w].pc \in {"idle"} \cup StartPc \cup SessionPc
         /\ worker[w].pc \in StartPc => worker[w] \in [pc : StartPc, archive : Archives]
         /\ worker[w].pc \in SessionPc => worker[w] \in SessionState
BY DEF WorkerState, Idle, SessionState

\* The states a handler moves to are states of a handler.
LEMMA BecomeType ==
  ASSUME NEW w \in Workers, worker \in [Workers -> WorkerState], NEW s \in WorkerState, Become(w, s)
  PROVE  worker' \in [Workers -> WorkerState]
BY DEF Become

\* "idle" is a state of a handler.
LEMMA IdleType == Idle \in WorkerState
BY DEF WorkerState

\* A handler that moves on within a session keeps a session's state, with or without a new listing.
LEMMA AdvanceType ==
  ASSUME NEW w \in Workers, worker[w] \in SessionState, NEW pc \in SessionPc,
         NEW listing \in SUBSET Names, NEW doomed \in SUBSET Names
  PROVE  /\ [worker[w] EXCEPT !.pc = pc] \in WorkerState
         /\ [worker[w] EXCEPT !.pc = pc, !.listing = listing] \in WorkerState
         /\ [worker[w] EXCEPT !.pc = pc, !.listing = listing, !.doomed = doomed] \in WorkerState
BY DEF WorkerState, SessionState

\* Advance keeps the upload, and the lock that goes with it.
LEMMA AdvanceStep ==
  ASSUME NEW w \in Workers, worker[w] \in SessionState, NEW pc \in SessionPc, Advance(w, pc)
  PROVE  \E s \in WorkerState : Become(w, s) /\ s.upload = worker[w].upload /\ s.pc = pc
<1>1. [worker[w] EXCEPT !.pc = pc] \in WorkerState
  BY AdvanceType
<1> QED BY <1>1 DEF Advance, SessionState

\* A handler that starts on a session has a session's state.
LEMMA StepType ==
  ASSUME NEW pc \in SessionPc, NEW u \in Uploads, NEW s \in Session
  PROVE  Step(pc, u, s) \in WorkerState
BY BlocksAssumption, EmptySeq DEF WorkerState, Step

\* A handler's copy of a row is a row.
LEMMA CopyType ==
  ASSUME TypeOK, NEW u \in Uploads, Exists(u)
  PROVE  Copy(u) \in Session
<1>1. sessions[u] \in Session BY DEF TypeOK, Exists
<1> QED BY <1>1 DEF Copy, Session

\* A removed file reads as an empty one.
LEMMA NoFileType == NoFile \in File
BY EmptySeq DEF NoFile, File

\* What was declared is blocks, as many as were announced.
LEMMA DeclaredBlocks == Declared \in Seq(BlockValue) /\ Len(Declared) = Blocks
BY BlocksAssumption DEF Declared, BlockValue

\* A chunk appended to blocks gives blocks, as many as both have.
LEMMA ConcatBlocks ==
  ASSUME NEW c \in Seq(BlockValue), NEW d \in Seq(BlockValue)
  PROVE  c \o d \in Seq(BlockValue) /\ Len(c \o d) = Len(c) + Len(d)
BY ConcatProperties

\* Bounds are only ever spent while something is left.
LEMMA BudgetType ==
  ASSUME budget \in Budgets,
         \/ NoFailure \/ Failure \/ CatchUp \/ Spend("damaged") \/ Spend("expiries")
         \/ Disturb("crashes") \/ Disturb("deletes")
  PROVE  budget' \in Budgets
<1>1. CASE NoFailure BY <1>1 DEF NoFailure
<1>2. CASE CatchUp BY <1>2, BoundsAssumption DEF CatchUp, Interruptions, Budgets
<1>3. CASE \/ Failure \/ Spend("damaged") \/ Spend("expiries")
           \/ Disturb("crashes") \/ Disturb("deletes")
  BY <1>3 DEF Budgets, Spend, Disturb, Failure
<1> QED BY <1>1, <1>2, <1>3

-----------------------------------------------------------------------------
(* What steps that append to no archive.part and store no file preserve *)

\* A handler takes the lock of an upload when it is free and otherwise stays with its own.
LEMMA LockKept ==
  ASSUME UploadLockExclusive, worker \in [Workers -> WorkerState], NEW w \in Workers, NEW s, Become(w, s),
         s.pc \in LockedPc => HoldsUpload(w, s.upload) \/ UploadFree(s.upload)
  PROVE  UploadLockExclusive'
BY DEF UploadLockExclusive, Become, HoldsUpload, UploadFree

\* The same of the lock of the namespace.
LEMMA NamespaceLockKept ==
  ASSUME NamespaceLockExclusive, worker \in [Workers -> WorkerState], NEW w \in Workers, NEW s, Become(w, s),
         s.pc \in FinalNsPc => HoldsNamespace(w) \/ NamespaceFree
  PROVE  NamespaceLockExclusive'
BY DEF NamespaceLockExclusive, Become, HoldsNamespace, NamespaceFree

\* The premise of the frame lemmas: a file stays as it is or goes.
StagedShrinks == \A u \in Uploads : staged'[u] \in {staged[u], NoFile}
FilesShrink   == \A n \in Names : files'[n] \in {files[n], NoFile}
Shrinks == StagedShrinks /\ FilesShrink

\* A staged file that stays or goes does not grow.
LEMMA ShrunkSize ==
  ASSUME TypeOK, TypeOK', StagedShrinks, NEW u \in Uploads
  PROVE  Size(u) \in Nat /\ Size(u)' \in Nat /\ Size(u)' <= Size(u)
<1>1. staged[u].data \in Seq(BlockValue) /\ staged'[u].data \in Seq(BlockValue)
  BY DEF TypeOK, File
<1>2. Size(u) \in Nat /\ Size(u)' \in Nat
  BY <1>1, LenProperties DEF Size
<1>3. CASE staged'[u] = staged[u] BY <1>2, <1>3 DEF Size
<1>4. CASE staged'[u] = NoFile
  <2>1. Size(u)' = 0 BY <1>4, EmptySeq DEF Size, NoFile
  <2> QED BY <1>2, <2>1
<1> QED BY <1>3, <1>4 DEF StagedShrinks

\* Snapshots that stay or go are still what was declared.
LEMMA ShrunkFiles ==
  ASSUME StoredIsDeclared, FilesShrink
  PROVE  StoredIsDeclared'
BY DEF StoredIsDeclared, Listed, FilesShrink

\* A handler writes in the backup root only under the namespace lock, so no other handler's ".tmp"
\* changes under it.
LEMMA CopyKept ==
  ASSUME IInv, NEW w \in Workers, NEW s, Become(w, s),
         UNCHANGED files \/ HoldsNamespace(w),
         s.pc = "final_copy" => s.source = Declared,
         s.pc = "final_rename" => files'[Tmp(s.sess.archive)].data = Declared
  PROVE  CopyVerified'
<1> SUFFICES ASSUME NEW v \in Workers
             PROVE  /\ At(v, "final_copy")' => worker'[v].source = Declared
                    /\ At(v, "final_rename")' => files'[Tmp(worker'[v].sess.archive)].data = Declared
  BY DEF CopyVerified
<1>1. CASE v = w
  BY <1>1 DEF Become, At, IInv, TypeOK
<1>2. CASE v # w
  <2>1. worker'[v] = worker[v]
    BY <1>2 DEF Become, IInv, TypeOK
  <2>2. At(v, "final_rename") => UNCHANGED files
    BY <1>2 DEF IInv, NamespaceLockExclusive, HoldsNamespace, At
  <2> QED BY <2>1, <2>2 DEF IInv, CopyVerified, At
<1> QED BY <1>1, <1>2

\* Removing staged files keeps what the lock protects, if the handler moves on within what it has
\* verified.
LEMMA HandlerLocks ==
  ASSUME IInv, TypeOK', StagedShrinks, NEW w \in Workers, NEW s, Become(w, s),
         s.pc \in LockedPc => HoldsUpload(w, s.upload) \/ UploadFree(s.upload),
         s.pc \in FinalNsPc => HoldsNamespace(w),
         s.pc # "append_write",
         s.pc \in VerifiedPc => worker[w].pc \in VerifiedPc /\ s.upload = worker[w].upload
  PROVE  UploadLockExclusive' /\ NamespaceLockExclusive' /\ StagedBounded' /\ VerifiedStaged'
<1>1. UploadLockExclusive' /\ NamespaceLockExclusive'
  BY LockKept, NamespaceLockKept DEF IInv, TypeOK
<1>2. StagedBounded'
  <2>1. \A v \in Workers : At(v, "append_write")' =>
          /\ At(v, "append_write")
          /\ worker'[v] = worker[v]
          /\ worker[v].upload \in Uploads
          /\ worker[v].offset \in Nat
    BY WorkerFields, BlocksAssumption DEF Become, At, IInv, TypeOK, SessionState
  <2> QED BY <2>1, ShrunkSize, BlocksAssumption DEF StagedBounded, IInv, At
<1>3. VerifiedStaged'
  <2>1. \A v \in Workers : worker'[v].pc \in VerifiedPc =>
          /\ worker[v].pc \in VerifiedPc
          /\ worker'[v].upload = worker[v].upload
          /\ worker[v].upload \in Uploads
    BY WorkerFields DEF Become, IInv, TypeOK, SessionState
  <2> QED BY <2>1 DEF VerifiedStaged, IInv, StagedShrinks
<1> QED BY <1>1, <1>2, <1>3

\* Removing stored files too keeps the whole invariant.
LEMMA HandlerFrame ==
  ASSUME IInv, TypeOK', Shrinks, NEW w \in Workers, NEW s, Become(w, s),
         UNCHANGED files \/ HoldsNamespace(w),
         s.pc \in LockedPc => HoldsUpload(w, s.upload) \/ UploadFree(s.upload),
         s.pc \in FinalNsPc => HoldsNamespace(w),
         s.pc \notin {"append_write", "final_copy", "final_rename"},
         s.pc \in VerifiedPc => worker[w].pc \in VerifiedPc /\ s.upload = worker[w].upload
  PROVE  IInv'
<1>1. UploadLockExclusive' /\ NamespaceLockExclusive' /\ StagedBounded' /\ VerifiedStaged'
  BY HandlerLocks DEF Shrinks
<1>2. CopyVerified'
  BY CopyKept
<1> QED BY <1>1, <1>2, ShrunkFiles DEF IInv, Shrinks

\* The same for steps that are not a handler's.
LEMMA StoreFrame ==
  ASSUME IInv, TypeOK', Shrinks, UNCHANGED worker, \A a \in Archives : files'[Tmp(a)] = files[Tmp(a)]
  PROVE  IInv'
<1>1. UploadLockExclusive' /\ NamespaceLockExclusive'
  BY DEF IInv, UploadLockExclusive, HoldsUpload, NamespaceLockExclusive, HoldsNamespace
<1>2. StagedBounded'
  <2>1. \A v \in Workers : At(v, "append_write") =>
          worker[v].upload \in Uploads /\ worker[v].offset \in Nat
    BY WorkerFields, BlocksAssumption DEF At, IInv, TypeOK, SessionState
  <2> QED BY <2>1, ShrunkSize, BlocksAssumption DEF StagedBounded, IInv, At, Shrinks
<1>3. VerifiedStaged'
  <2>1. \A v \in Workers : worker[v].pc \in VerifiedPc => worker[v].upload \in Uploads
    BY WorkerFields DEF IInv, TypeOK, SessionState
  <2> QED BY <2>1 DEF VerifiedStaged, IInv, Shrinks, StagedShrinks
<1>4. CopyVerified'
  <2>1. \A v \in Workers : At(v, "final_rename") => worker[v].sess.archive \in Archives
    BY WorkerFields DEF At, IInv, TypeOK, SessionState, Session
  <2> QED BY <2>1 DEF CopyVerified, At, IInv
<1> QED BY <1>1, <1>2, <1>3, <1>4, ShrunkFiles DEF IInv, Shrinks

-----------------------------------------------------------------------------
(* The invariant is inductive *)

USE DEF stores, Shrinks, StagedShrinks, FilesShrink

\* StartUpload keeps the invariant.
LEMMA StartPreserves ==
  ASSUME IInv, NEW w \in Workers,
         \/ \E a \in Archives : StartFresh(w, a) \/ StartResume(w, a) \/ StartMissing(w, a)
         \/ StartSave(w) \/ StartDuplicate(w) \/ StartNoDuplicate(w) \/ StartReserve(w)
  PROVE  IInv'
<1> USE DEF IInv, TypeOK
<1>1. ASSUME NEW a \in Archives, StartFresh(w, a)
      PROVE  IInv'
  <2>1. TypeOK'
    BY <1>1, BecomeType, BudgetType DEF StartFresh, WorkerState, Budgets
  <2> QED BY <1>1, <2>1, HandlerFrame DEF StartFresh
<1>2. ASSUME NEW a \in Archives, NEW u \in KeyOf(a), NEW pc \in {"start_save", "start_list"},
             Become(w, Step(pc, u, Copy(u))), NoFailure \/ Failure, UNCHANGED <<stores, cleaner, admin, clock>>
      PROVE  IInv'
  <2>1. Step(pc, u, Copy(u)) \in WorkerState
    BY StepType, CopyType DEF KeyOf
  <2>2. TypeOK'
    BY <1>2, <2>1, BecomeType, BudgetType DEF Budgets
  <2> QED BY <1>2, <2>2, HandlerFrame DEF Step
<1>3. CASE StartSave(w)
  <2>1. worker[w] \in SessionState
    BY <1>3, WorkerFields DEF StartSave, At
  <2>2. TypeOK'
    BY <1>3, <2>1, BecomeType, IdleType, BudgetType DEF StartSave, Finish, Save, SessionState, Budgets
  <2> QED BY <1>3, <2>2, HandlerFrame DEF StartSave, Finish, Idle
<1>4. CASE StartDuplicate(w)
  <2>1. TypeOK'
    BY <1>4, BecomeType, IdleType DEF StartDuplicate, Finish
  <2> QED BY <1>4, <2>1, HandlerFrame DEF StartDuplicate, Finish, Idle
<1>5. CASE StartNoDuplicate(w)
  <2>1. worker[w] \in [pc : StartPc, archive : Archives]
    BY <1>5, WorkerFields DEF StartNoDuplicate, At
  <2>2. PICK s \in WorkerState : Become(w, s) /\ s.pc \in {"start_reserve", "idle"}
    BY <1>5, <2>1, IdleType DEF StartNoDuplicate, Finish, Advance, WorkerState, Idle
  <2>3. TypeOK'
    BY <1>5, <2>2, BecomeType, BudgetType DEF StartNoDuplicate, Budgets
  <2> QED BY <1>5, <2>2, <2>3, HandlerFrame DEF StartNoDuplicate
<1>6. CASE StartReserve(w)
  <2>1. worker[w] \in [pc : StartPc, archive : Archives]
    BY <1>6, WorkerFields DEF StartReserve, At
  <2>2. NewSession(worker[w].archive) \in Session
    BY <2>1 DEF NewSession, Session
  <2>3. TypeOK'
    BY <1>6, <2>2, BecomeType, IdleType, BudgetType DEF StartReserve, Finish, Budgets
  <2> QED BY <1>6, <2>3, HandlerFrame DEF StartReserve, Finish, Idle
<1> QED
  BY <1>1, <1>2, <1>3, <1>4, <1>5, <1>6 DEF StartResume, StartMissing, FoundMissing, NoFailure

\* reconcileNamespace and discardSession keeps the invariant.
LEMMA ReconcilePreserves ==
  ASSUME IInv, NEW w \in Workers,
         ReconcileList(w) \/ ReconcileApply(w) \/ DiscardRow(w) \/ DiscardStaged(w)
  PROVE  IInv'
<1> USE DEF IInv, TypeOK
<1>0. worker[w] \in SessionState
  BY WorkerFields DEF ReconcileList, ReconcileApply, DiscardRow, DiscardStaged
<1>1. CASE ReconcileList(w)
  <2> DEFINE next == IF worker[w].pc = "start_list" THEN "start_apply" ELSE "final_apply"
  <2>1. PICK listing \in SUBSET Names :
          /\ NoFailure \/ Failure
          /\ Become(w, [worker[w] EXCEPT !.pc = next, !.listing = listing])
    BY <1>0, <1>1 DEF ReconcileList, ListedOrNothing, SessionState
  <2> DEFINE s == [worker[w] EXCEPT !.pc = next, !.listing = listing]
  <2>2. s \in WorkerState /\ Become(w, s) /\ s.upload = worker[w].upload /\ s.pc = next
    <3>1. next \in SessionPc
      OBVIOUS
    <3> QED BY <1>0, <2>1, <3>1, AdvanceType DEF SessionState
  <2> HIDE DEF s
  <2>3. TypeOK'
    BY <1>1, <2>1, <2>2, BecomeType, BudgetType DEF ReconcileList, Budgets
  <2> QED BY <1>1, <2>2, <2>3, HandlerFrame DEF ReconcileList, HoldsUpload
<1>2. CASE ReconcileApply(w)
  <2> DEFINE next == IF worker[w].pc = "start_apply" THEN "start_discard" ELSE "final_discard"
  <2>1. PICK s \in WorkerState : Become(w, s) /\ s.upload = worker[w].upload /\ s.pc = next
    <3>1. next \in SessionPc /\ Advance(w, next)
      BY <1>2 DEF ReconcileApply, At
    <3> QED BY <1>0, <3>1, AdvanceStep
  <2>2. TypeOK'
    BY <1>2, <2>1, BecomeType, BudgetType DEF ReconcileApply, Reconciled, Budgets
  <2> QED BY <1>2, <2>1, <2>2, HandlerFrame DEF ReconcileApply, HoldsUpload
<1>3. CASE DiscardRow(w)
  <2> DEFINE next == IF worker[w].pc = "start_discard" THEN "start_remove" ELSE "final_remove"
  <2>1. PICK s \in WorkerState : Become(w, s) /\ s.upload = worker[w].upload /\ s.pc = next
    <3>1. next \in SessionPc /\ Advance(w, next)
      BY <1>3 DEF DiscardRow, At
    <3> QED BY <1>0, <3>1, AdvanceStep
  <2>2. TypeOK'
    BY <1>0, <1>3, <2>1, BecomeType, BudgetType DEF DiscardRow, Budgets, SessionState
  <2> QED BY <1>3, <2>1, <2>2, HandlerFrame DEF DiscardRow, HoldsUpload
<1>4. CASE DiscardStaged(w)
  <2>1. PICK s \in WorkerState : Become(w, s) /\ s.pc \in {"idle", "start_dup"}
    BY <1>0, <1>4, IdleType DEF DiscardStaged, Finish, Idle, WorkerState, SessionState, Session
  <2>2. TypeOK'
    BY <1>4, <2>1, BecomeType, BudgetType, NoFileType DEF DiscardStaged, TryRemoveStaged, RemoveStaged, Budgets
  <2> QED BY <1>4, <2>1, <2>2, HandlerFrame DEF DiscardStaged, TryRemoveStaged, RemoveStaged
<1> QED
  BY <1>1, <1>2, <1>3, <1>4

\* AppendChunk, which alone makes archive.part grow, keeps the invariant.
LEMMA AppendPreserves ==
  ASSUME IInv, NEW w \in Workers,
         (\E u \in Uploads : AppendBegin(w, u)) \/ AppendWrite(w) \/ AppendSave(w)
  PROVE  IInv'
<1> USE DEF IInv, TypeOK
<1>1. ASSUME NEW u \in Uploads, AppendBegin(w, u)
      PROVE  IInv'
  <2> DEFINE s == [Step("append_write", u, Copy(u)) EXCEPT !.offset = Size(u)]
  <2>1. Size(u) \in 0..Blocks
    BY LenProperties, BlocksAssumption DEF StagedBounded, Size, File
  <2>2. /\ s \in WorkerState /\ Become(w, s)
        /\ s.pc = "append_write" /\ s.upload = u /\ s.offset = Size(u)
    BY <1>1, <2>1, CopyType, EmptySeq DEF AppendBegin, WorkerState, Step
  <2> HIDE DEF s
  <2>3. TypeOK'
    BY <1>1, <2>2, BecomeType DEF AppendBegin
  <2>4. UploadLockExclusive'
    BY <1>1, <2>2, LockKept DEF AppendBegin
  <2>5. StagedBounded'
    <3>1. \A v \in Workers : worker'[v] = IF v = w THEN s ELSE worker[v]
      BY <2>2 DEF Become
    <3>2. \A x : Size(x)' = Size(x)
      BY <1>1 DEF AppendBegin, Size
    <3>3. \A v \in Workers : At(v, "append_write")' => Size(worker'[v].upload) <= worker'[v].offset
      BY <2>1, <2>2, <3>1 DEF StagedBounded, At
    <3> QED BY <3>2, <3>3 DEF StagedBounded, Size
  <2>6. VerifiedStaged'
    BY <1>1, <2>2 DEF AppendBegin, VerifiedStaged, Become
  <2>7. NamespaceLockExclusive' /\ CopyVerified'
    BY <1>1, <2>2, NamespaceLockKept, CopyKept DEF AppendBegin
  <2> QED BY <1>1, <2>3, <2>4, <2>5, <2>6, <2>7, ShrunkFiles DEF AppendBegin
<1>2. ASSUME AppendEnd(w), At(w, "append_write")
      PROVE  /\ worker[w] \in SessionState
             /\ \E s \in WorkerState :
                  Become(w, s) /\ s.pc \in {"idle", "append_save"} /\ (s.pc = "append_save" => s.upload = worker[w].upload)
  <2>1. worker[w] \in SessionState
    BY <1>2, WorkerFields DEF At
  <2>2. Step("append_save", worker[w].upload, worker[w].sess) \in WorkerState
    BY <2>1, StepType DEF SessionState
  <2>3. CASE Become(w, Step("append_save", worker[w].upload, worker[w].sess))
    BY <2>1, <2>2, <2>3 DEF Step
  <2>4. CASE Finish(w)
    <3>1. Idle.pc = "idle" /\ Become(w, Idle)
      BY <2>4 DEF Idle, Finish
    <3> HIDE DEF Idle
    <3> QED BY <2>1, <3>1, IdleType
  <2> QED BY <1>2, <2>3, <2>4 DEF AppendEnd
<1>3. CASE AppendNothing(w)
  <2>1. PICK s \in WorkerState :
          Become(w, s) /\ s.pc \in {"idle", "append_save"} /\ (s.pc = "append_save" => s.upload = worker[w].upload)
    BY <1>2, <1>3 DEF AppendNothing
  <2>2. TypeOK'
    BY <1>3, <2>1, BecomeType DEF AppendNothing
  <2> QED BY <1>3, <2>1, <2>2, HandlerFrame DEF AppendNothing, At, HoldsUpload
<1>4. ASSUME NEW n \in 1..Blocks, NEW damaged \in BOOLEAN, AppendBlocks(w, n, damaged)
      PROVE  IInv'
  <2>0. PICK up \in Uploads, offset \in 0..Blocks : up = worker[w].upload /\ offset = worker[w].offset
    BY <1>2, <1>4 DEF AppendBlocks, SessionState
  <2> DEFINE chunk  == Chunk(offset, n, damaged)
             data   == staged[up].data \o chunk
  <2>1. PICK s \in WorkerState : Become(w, s) /\ s.pc \in {"idle", "append_save"} /\ (s.pc = "append_save" => s.upload = up)
    BY <1>2, <1>4, <2>0 DEF AppendBlocks
  <2>2. offset + n <= Blocks
    BY <1>4, <2>0 DEF AppendBlocks
  <2>3. chunk \in Seq(BlockValue) /\ Len(chunk) = n
    BY <2>0, <2>2, BlocksAssumption DEF BlockValue, Chunk
  <2>4. staged[up].data \in Seq(BlockValue) /\ Size(up) \in Nat /\ Size(up) <= offset
    BY <1>4, <2>0, LenProperties DEF AppendBlocks, File, Size, StagedBounded, At
  <2>5. staged' = [staged EXCEPT ![up] = [data |-> data, mtime |-> clock + 1]]
    BY <1>4, <2>0 DEF AppendBlocks
  <2> HIDE DEF chunk
  <2>6. data \in Seq(BlockValue) /\ Len(data) = Size(up) + n
    <3>1. Len(staged[up].data) = Size(up)
      BY DEF Size
    <3>2. /\ data \in Seq(BlockValue)
          /\ Len(data) = Len(staged[up].data) + Len(chunk)
      BY <2>3, <2>4, ConcatBlocks
    <3> QED BY <2>3, <3>1, <3>2
  <2> HIDE DEF data
  <2>7. TypeOK'
    <3>0. [data |-> data, mtime |-> clock + 1] \in File /\ clock' \in Nat
      BY <1>4, <2>6 DEF AppendBlocks, File
    <3>1. staged' \in [Uploads -> File]
      BY <2>5, <3>0
    <3>2. worker' \in [Workers -> WorkerState]
      BY <2>1, BecomeType
    <3>3. budget' \in Budgets
      BY <1>4, BudgetType DEF AppendBlocks, NoFailure, Budgets
    <3> QED BY <1>4, <3>0, <3>1, <3>2, <3>3 DEF AppendBlocks, Budgets
  <2>8. Size(up)' \in Nat /\ Size(up)' <= Blocks /\ \A v \in Uploads \ {up} : Size(v)' = Size(v)
    <3>1. staged'[up].data = data /\ \A v \in Uploads \ {up} : staged'[v] = staged[v]
      BY <2>5
    <3>2. Len(data) \in Nat /\ Len(data) <= Blocks
      BY <2>2, <2>4, <2>6, BlocksAssumption
    <3> QED BY <3>1, <3>2 DEF Size
  <2>9. \A v \in Workers : worker'[v].pc \in {"append_write"} \cup VerifiedPc =>
          v # w /\ worker'[v] = worker[v] /\ worker[v].upload \in Uploads \ {up}
    <3>1. \A v \in Workers : v # w /\ worker[v].pc \in LockedPc => worker[v].upload # up
      BY <1>4, <2>0 DEF AppendBlocks, At, UploadLockExclusive, HoldsUpload
    <3> QED BY <2>1, <3>1, WorkerFields DEF Become, SessionState
  <2>10. UploadLockExclusive'
    BY <1>4, <2>0, <2>1, LockKept DEF AppendBlocks, At, HoldsUpload
  <2>11. StagedBounded'
    <3>1. \A u2 \in Uploads : Size(u2)' <= Blocks
      BY <2>8 DEF StagedBounded
    <3>2. \A v \in Workers : At(v, "append_write")' => Size(worker[v].upload)' <= worker[v].offset /\ worker'[v] = worker[v]
      BY <2>8, <2>9 DEF StagedBounded, At
    <3> QED BY <3>1, <3>2 DEF StagedBounded, Size
  <2>12. VerifiedStaged'
    BY <2>5, <2>9 DEF VerifiedStaged
  <2>13. NamespaceLockExclusive' /\ CopyVerified'
    BY <1>4, <2>1, NamespaceLockKept, CopyKept DEF AppendBlocks
  <2> QED BY <1>4, <2>7, <2>10, <2>11, <2>12, <2>13 DEF AppendBlocks, StoredIsDeclared, Listed
<1>5. CASE AppendSave(w)
  <2>1. worker[w] \in SessionState
    BY <1>5, WorkerFields DEF AppendSave, At
  <2>2. TypeOK'
    BY <1>5, <2>1, BecomeType, IdleType, BudgetType DEF AppendSave, Finish, Save, SessionState, Budgets
  <2> QED BY <1>5, <2>2, HandlerFrame DEF AppendSave, Finish, Idle
<1> QED BY <1>1, <1>3, <1>4, <1>5 DEF AppendWrite

\* FinalizeUpload up to the checksum and the duplicate check keeps the invariant.
LEMMA FinalizePreserves ==
  ASSUME IInv, NEW w \in Workers,
         \/ \E u \in Uploads : FinalizeBegin(w, u) \/ FinalizeMissing(w, u)
         \/ FinalizeRefuse(w) \/ FinalizeReset(w)
         \/ FinalizeVerify(w) \/ FinalizeDuplicate(w) \/ FinalizeNoDuplicate(w)
  PROVE  IInv'
<1> USE DEF IInv, TypeOK
<1>1. ASSUME NEW u \in Uploads, NEW pc \in {"final_verify", "final_list"}, UploadFree(u),
             Become(w, Step(pc, u, Copy(u))), Exists(u), NoFailure \/ Failure,
             UNCHANGED <<stores, cleaner, admin, clock>>
      PROVE  IInv'
  <2>1. Step(pc, u, Copy(u)) \in WorkerState
    BY <1>1, StepType, CopyType
  <2>2. TypeOK'
    BY <1>1, <2>1, BecomeType, BudgetType DEF Budgets
  <2> QED BY <1>1, <2>2, HandlerFrame DEF Step
<1>2. CASE FinalizeRefuse(w)
  <2>1. TypeOK'
    BY <1>2, BecomeType, IdleType, BudgetType DEF FinalizeRefuse, Finish, Budgets
  <2> QED BY <1>2, <2>1, HandlerFrame DEF FinalizeRefuse, Finish, Idle
<1>3. CASE FinalizeReset(w)
  <2>1. worker[w] \in SessionState
    BY <1>3, WorkerFields DEF FinalizeReset, At
  <2>2. [Copy(worker[w].upload) EXCEPT !.status = "active"] \in Session
    BY <1>3, <2>1, CopyType, SMTT(30) DEF FinalizeReset, Session, SessionState
  <2>3. TypeOK'
    <3>1. staged' \in [Uploads -> File]
      BY <1>3, NoFileType DEF FinalizeReset, RemoveStaged
    <3>2. sessions' \in [Uploads -> Session \cup {NoSession}]
      BY <1>3, <2>2 DEF FinalizeReset, Save
    <3>3. worker' \in [Workers -> WorkerState]
      BY <1>3, BecomeType, IdleType DEF FinalizeReset, Finish
    <3>4. budget' \in Budgets
      BY <1>3, BudgetType DEF FinalizeReset, Budgets
    <3> QED BY <1>3, <3>1, <3>2, <3>3, <3>4 DEF FinalizeReset, Budgets
  <2> QED BY <1>3, <2>3, HandlerFrame DEF FinalizeReset, RemoveStaged, Finish, Idle
<1>4. CASE FinalizeVerify(w)
  <2>0. worker[w] \in SessionState
    BY <1>4, WorkerFields DEF FinalizeVerify, At
  <2>1. PICK up \in Uploads : up = worker[w].upload
    BY <2>0 DEF SessionState
  <2> DEFINE s == Step("final_dup", up, Copy(up))
  <2>2. /\ s \in WorkerState /\ Become(w, s)
        /\ s.pc = "final_dup" /\ s.upload = up
    BY <1>4, <2>1, StepType, CopyType DEF FinalizeVerify, Step
  <2> HIDE DEF s
  <2>3. TypeOK'
    BY <1>4, <2>2, BecomeType DEF FinalizeVerify
  <2>4. UploadLockExclusive'
    BY <1>4, <2>1, <2>2, LockKept DEF FinalizeVerify, HoldsUpload, At
  <2>5. StagedBounded'
    <3>1. \A v \in Workers : At(v, "append_write")' => At(v, "append_write") /\ worker'[v] = worker[v]
      BY <2>2 DEF Become, At
    <3> QED BY <1>4, <3>1 DEF FinalizeVerify, StagedBounded, Size
  <2>6. VerifiedStaged'
    <3>1. staged'[up].data = Declared
      BY <1>4, <2>1 DEF FinalizeVerify
    <3> QED BY <1>4, <2>2, <3>1 DEF FinalizeVerify, VerifiedStaged, Become
  <2>7. NamespaceLockExclusive' /\ CopyVerified'
    BY <1>4, <2>2, NamespaceLockKept, CopyKept DEF FinalizeVerify
  <2> QED BY <1>4, <2>3, <2>4, <2>5, <2>6, <2>7, ShrunkFiles DEF FinalizeVerify
<1>5. CASE FinalizeDuplicate(w)
  <2>0. worker[w] \in SessionState
    BY <1>5, WorkerFields DEF FinalizeDuplicate, At
  <2>1. PICK b \in index : Become(w, Step("final_save", worker[w].upload, Completed(worker[w].sess, b)))
    BY <1>5 DEF FinalizeDuplicate, Duplicates
  <2> DEFINE s == Step("final_save", worker[w].upload, Completed(worker[w].sess, b))
  <2>2. s \in WorkerState /\ s.upload = worker[w].upload /\ s.pc = "final_save"
    <3>1. Completed(worker[w].sess, b) \in Session
      BY <2>0 DEF Completed, Session, SessionState
    <3> QED BY <2>0, <3>1, StepType DEF SessionState, Step
  <2> HIDE DEF s
  <2>3. Become(w, s)
    BY <2>1 DEF s
  <2>4. TypeOK'
    BY <1>5, <2>2, <2>3, BecomeType, BudgetType, NoFileType
       DEF FinalizeDuplicate, TryRemoveStaged, RemoveStaged, Budgets
  <2> QED BY <1>5, <2>2, <2>3, <2>4, HandlerFrame
          DEF FinalizeDuplicate, TryRemoveStaged, RemoveStaged, HoldsUpload, HoldsNamespace, At
<1>6. CASE FinalizeNoDuplicate(w)
  <2>0. worker[w] \in SessionState
    BY <1>6, WorkerFields DEF FinalizeNoDuplicate, At
  <2>1. PICK s \in WorkerState :
          Become(w, s) /\ s.pc \in {"idle", "final_store"} /\ (s.pc = "final_store" => s.upload = worker[w].upload)
    <3>1. CASE Advance(w, "final_store")
      BY <2>0, <3>1, AdvanceStep
    <3>2. CASE Finish(w)
      BY <3>2, IdleType DEF Finish, Idle
    <3> QED BY <1>6, <3>1, <3>2 DEF FinalizeNoDuplicate
  <2>2. TypeOK'
    BY <1>6, <2>1, BecomeType, BudgetType DEF FinalizeNoDuplicate, Budgets
  <2> QED BY <1>6, <2>1, <2>2, HandlerFrame DEF FinalizeNoDuplicate, HoldsUpload, HoldsNamespace, At
<1> QED
  BY <1>1, <1>2, <1>3, <1>4, <1>5, <1>6 DEF FinalizeBegin, FinalizeMissing, FoundMissing, NoFailure

\* The ".tmp" of an archive is not its snapshot, nor that of another.
LEMMA TmpSnap == \A a, b \in Archives : Tmp(a) # Snap(b) /\ Tmp(a) \in Names /\ Snap(b) \in Names
BY DEF Tmp, Snap, Names

\* commitNewArchive, which alone writes in the backup root, keeps the invariant.
LEMMA CommitPreserves ==
  ASSUME IInv, NEW w \in Workers,
         \/ FinalizeStore(w) \/ FinalizeCopy(w) \/ FinalizeCopied(w) \/ FinalizeRename(w)
         \/ FinalizeStoreError(w) \/ FinalizePrune(w) \/ FinalizeDelete(w) \/ FinalizeFiles(w)
         \/ FinalizeUpsert(w) \/ FinalizeReconcile(w) \/ FinalizeSave(w)
  PROVE  IInv'
<1> USE DEF IInv, TypeOK
<1>0. worker[w] \in SessionState /\ HoldsNamespace(w) /\ HoldsUpload(w, worker[w].upload)
  BY WorkerFields DEF FinalizeStore, FinalizeCopy, FinalizeCopied, FinalizeRename, FinalizeStoreError,
     FinalizePrune, FinalizeDelete, FinalizeFiles, FinalizeUpsert, FinalizeReconcile, FinalizeSave, At,
     HoldsNamespace, HoldsUpload
<1>a. PICK u \in Uploads, a \in Archives : u = worker[w].upload /\ a = worker[w].sess.archive
  BY <1>0 DEF SessionState, Session
<1>b. Snap(a) \in Names /\ Tmp(a) \in Names
  BY DEF Names, Snap, Tmp
<1>1. CASE FinalizeStore(w)
  <2>1. PICK s \in WorkerState : Become(w, s) /\ s.upload = u /\ s.pc = "final_prune"
    BY <1>0, <1>a, <1>1, AdvanceStep DEF FinalizeStore
  <2>2. staged[u] \in File /\ staged[u].data = Declared /\ files' = [files EXCEPT ![Snap(a)] = staged[u]]
    BY <1>1, <1>a DEF FinalizeStore, VerifiedStaged, At
  <2>3. TypeOK'
    <3>1. files' \in [Names -> File] /\ staged' \in [Uploads -> File]
      BY <1>1, <1>a, <2>2, NoFileType DEF FinalizeStore, RemoveStaged
    <3> QED BY <1>1, <2>1, <3>1, BecomeType DEF FinalizeStore
  <2>4. UploadLockExclusive' /\ NamespaceLockExclusive' /\ StagedBounded' /\ VerifiedStaged'
    BY <1>0, <1>1, <1>a, <2>1, <2>3, HandlerLocks DEF FinalizeStore, RemoveStaged
  <2>5. CopyVerified'
    BY <1>0, <2>1, CopyKept
  <2>6. StoredIsDeclared'
    BY <2>2 DEF StoredIsDeclared, Listed
  <2> QED BY <2>3, <2>4, <2>5, <2>6
<1>2. CASE FinalizeCopy(w)
  <2> DEFINE s == [Step("final_copy", u, worker[w].sess) EXCEPT !.source = staged[u].data]
  <2>1. staged[u].data = Declared /\ Declared \in Seq(BlockValue) /\ Len(Declared) = Blocks
    BY <1>2, <1>a, DeclaredBlocks DEF FinalizeCopy, VerifiedStaged, At
  <2>2. /\ s \in WorkerState /\ Become(w, s)
        /\ s.pc = "final_copy" /\ s.upload = u /\ s.source = Declared
    <3>1. Step("final_copy", u, worker[w].sess) \in SessionState
      BY <1>0, <1>a, BlocksAssumption, EmptySeq DEF SessionState, Step
    <3>2. s \in SessionState /\ s.pc = "final_copy" /\ s.upload = u /\ s.source = Declared
      BY <2>1, <3>1 DEF SessionState, Step
    <3>3. s \in WorkerState BY <3>2 DEF SessionState, WorkerState
    <3>4. Become(w, s) BY <1>2, <1>a DEF FinalizeCopy
    <3> QED BY <3>2, <3>3, <3>4
  <2> HIDE DEF s
  <2>3. PICK n \in 0..(Blocks - 1) :
          files' = [files EXCEPT ![Tmp(a)] = [data |-> Prefix(Declared, n), mtime |-> clock + 1]]
    BY <1>2, <1>a, <2>1 DEF FinalizeCopy, Size
  <2> DEFINE part == [data |-> Prefix(Declared, n), mtime |-> clock + 1]
  <2>4. part \in File
    <3>1. Prefix(Declared, n) \in Seq(BlockValue)
      BY <2>1, <2>3, BlocksAssumption, SubSeqProperties DEF Prefix
    <3> QED BY <3>1 DEF File
  <2>5. files' = [files EXCEPT ![Tmp(a)] = part]
    BY <2>3
  <2> HIDE DEF part
  <2>6. TypeOK'
    <3>1. files' \in [Names -> File]
      BY <2>4, <2>5
    <3>2. clock' \in Nat
      BY <1>2 DEF FinalizeCopy
    <3> QED BY <1>2, <2>2, <3>1, <3>2, BecomeType DEF FinalizeCopy
  <2>7. UploadLockExclusive' /\ NamespaceLockExclusive' /\ StagedBounded' /\ VerifiedStaged'
    BY <1>0, <1>2, <1>a, <2>2, <2>6, HandlerLocks DEF FinalizeCopy
  <2>8. CopyVerified'
    BY <1>0, <2>2, CopyKept
  <2>9. StoredIsDeclared'
    BY <2>5, TmpSnap DEF StoredIsDeclared, Listed
  <2> QED BY <2>6, <2>7, <2>8, <2>9
<1>3. CASE FinalizeCopied(w)
  <2> DEFINE s == Step("final_rename", u, worker[w].sess)
             copy == [data |-> worker[w].source, mtime |-> clock + 1]
  <2>1. /\ s \in WorkerState /\ Become(w, s)
        /\ s.pc = "final_rename" /\ s.upload = u /\ s.sess.archive = a
    <3>1. s \in WorkerState
      BY <1>0, <1>a, StepType DEF SessionState
    <3>2. s.pc = "final_rename" /\ s.upload = u /\ s.sess.archive = a
      BY <1>a DEF Step
    <3> QED BY <1>3, <1>a, <3>1, <3>2 DEF FinalizeCopied
  <2> HIDE DEF s
  <2>2. copy \in File /\ copy.data = Declared /\ files' = [files EXCEPT ![Tmp(a)] = copy]
    <3>1. worker[w].source = Declared
      BY <1>3 DEF FinalizeCopied, CopyVerified
    <3>2. [data |-> Declared, mtime |-> clock + 1] \in File
      BY DeclaredBlocks DEF File
    <3> QED BY <1>3, <1>a, <3>1, <3>2 DEF FinalizeCopied
  <2> HIDE DEF copy
  <2>3. TypeOK'
    <3>1. files' \in [Names -> File]
      BY <2>2
    <3>2. clock' \in Nat
      BY <1>3 DEF FinalizeCopied
    <3> QED BY <1>3, <2>1, <3>1, <3>2, BecomeType DEF FinalizeCopied
  <2>4. UploadLockExclusive' /\ NamespaceLockExclusive' /\ StagedBounded' /\ VerifiedStaged'
    BY <1>0, <1>3, <1>a, <2>1, <2>3, HandlerLocks DEF FinalizeCopied
  <2>5. CopyVerified'
    <3>1. files'[Tmp(s.sess.archive)].data = Declared
      BY <1>b, <2>1, <2>2
    <3> QED BY <1>0, <2>1, <3>1, CopyKept
  <2>6. StoredIsDeclared'
    BY <2>2, TmpSnap DEF StoredIsDeclared, Listed
  <2> QED BY <2>3, <2>4, <2>5, <2>6
<1>4. CASE FinalizeRename(w)
  <2>1. PICK s \in WorkerState : Become(w, s) /\ s.upload = u /\ s.pc = "final_prune"
    BY <1>0, <1>a, <1>4, AdvanceStep DEF FinalizeRename
  <2>2. files[Tmp(a)].data = Declared /\ files' = [files EXCEPT ![Snap(a)] = files[Tmp(a)], ![Tmp(a)] = NoFile]
    BY <1>4, <1>a DEF FinalizeRename, CopyVerified
  <2>3. files' \in [Names -> File] /\ StoredIsDeclared'
    BY <1>b, <2>2, NoFileType, TmpSnap DEF StoredIsDeclared, Listed
  <2>4. TypeOK'
    BY <1>4, <2>1, <2>3, BecomeType, BudgetType, NoFileType
       DEF FinalizeRename, TryRemoveStaged, RemoveStaged, Budgets
  <2>5. UploadLockExclusive' /\ NamespaceLockExclusive' /\ StagedBounded' /\ VerifiedStaged'
    BY <1>0, <1>4, <1>a, <2>1, <2>4, HandlerLocks DEF FinalizeRename, TryRemoveStaged, RemoveStaged
  <2>6. CopyVerified'
    BY <1>0, <2>1, CopyKept
  <2> QED BY <2>3, <2>4, <2>5, <2>6
<1>5. CASE FinalizeStoreError(w)
  <2>1. files' \in [Names -> File] /\ FilesShrink
    BY <1>5, NoFileType DEF FinalizeStoreError, WithoutFiles
  <2>2. TypeOK'
    BY <1>5, <2>1, BecomeType, IdleType, BudgetType DEF FinalizeStoreError, Finish, Budgets
  <2> QED BY <1>0, <1>5, <2>1, <2>2, HandlerFrame DEF FinalizeStoreError, Finish, Idle
<1>6. CASE FinalizePrune(w)
  <2>1. PICK s \in WorkerState : Become(w, s) /\ s.upload = u /\ s.pc \in {"final_files", "final_delete"}
    <3>1. CASE Advance(w, "final_files")
      BY <1>0, <1>a, <3>1, AdvanceStep
    <3>2. CASE Become(w, [worker[w] EXCEPT !.pc = "final_delete", !.listing = Listed, !.doomed = Surplus])
      <4> DEFINE s == [worker[w] EXCEPT !.pc = "final_delete", !.listing = Listed, !.doomed = Surplus]
      <4>1. Listed \in SUBSET Names /\ Surplus \in SUBSET Names BY DEF Listed, Surplus
      <4>2. s \in WorkerState BY <1>0, <4>1, AdvanceType
      <4>3. s.upload = u /\ s.pc = "final_delete" BY <1>0, <1>a DEF SessionState
      <4> QED BY <3>2, <4>2, <4>3
    <3> QED BY <1>6, <3>1, <3>2 DEF FinalizePrune
  <2>2. (NoFailure \/ Failure \/ CatchUp) /\ UNCHANGED <<stores, cleaner, admin, clock>>
    BY <1>6 DEF FinalizePrune
  <2>3. TypeOK'
    BY <2>1, <2>2, BecomeType, BudgetType DEF Budgets
  <2> QED BY <1>0, <1>a, <2>1, <2>2, <2>3, HandlerFrame
<1>11. CASE FinalizeDelete(w)
  <2>1. PICK s \in WorkerState : Become(w, s) /\ s.upload = u /\ s.pc \in {"final_files", "final_delete"}
    <3>1. CASE EndPrune(w)
      <4>1. Step("final_files", u, worker[w].sess) \in WorkerState
        BY <1>0, <1>a, StepType DEF SessionState
      <4> QED BY <1>a, <3>1, <4>1 DEF EndPrune, Step
    <3>2. CASE UNCHANGED worker
      <4>1. worker[w] \in WorkerState /\ Become(w, worker[w]) BY <3>2 DEF Become
      <4> QED BY <1>11, <1>a, <4>1 DEF FinalizeDelete, At
    <3> QED BY <1>11, <3>1, <3>2 DEF FinalizeDelete
  <2>2. /\ NoFailure \/ Failure \/ CatchUp
        /\ UNCHANGED <<sessions, used, staged, index, cleaner, admin, clock>>
        /\ UNCHANGED files \/ \E n : files' = WithoutFiles({n})
    BY <1>11 DEF FinalizeDelete
  <2>3. files' \in [Names -> File] /\ FilesShrink
    BY <2>2, NoFileType DEF WithoutFiles
  <2>4. TypeOK'
    BY <2>1, <2>2, <2>3, BecomeType, BudgetType DEF Budgets
  <2> QED BY <1>0, <1>a, <2>1, <2>2, <2>3, <2>4, HandlerFrame
<1>7. CASE FinalizeFiles(w)
  <2>1. PICK listing \in SUBSET Names :
          /\ NoFailure \/ Failure
          /\ Become(w, [worker[w] EXCEPT !.pc = "final_upsert", !.listing = listing])
    BY <1>7 DEF FinalizeFiles, ListedOrNothing
  <2> DEFINE s == [worker[w] EXCEPT !.pc = "final_upsert", !.listing = listing]
  <2>2. s \in WorkerState /\ Become(w, s) /\ s.upload = u /\ s.pc = "final_upsert"
    BY <1>0, <1>a, <2>1, AdvanceType DEF SessionState
  <2> HIDE DEF s
  <2>3. TypeOK'
    BY <1>7, <2>1, <2>2, BecomeType, BudgetType DEF FinalizeFiles, Budgets
  <2> QED BY <1>0, <1>7, <1>a, <2>2, <2>3, HandlerFrame DEF FinalizeFiles
<1>8. CASE FinalizeUpsert(w)
  <2>1. PICK s \in WorkerState : Become(w, s) /\ s.upload = u /\ s.pc = "final_reconcile"
    BY <1>0, <1>a, <1>8, AdvanceStep DEF FinalizeUpsert
  <2>2. TypeOK'
    BY <1>8, <1>a, <2>1, BecomeType, BudgetType DEF FinalizeUpsert, Budgets
  <2> QED BY <1>0, <1>8, <1>a, <2>1, <2>2, HandlerFrame DEF FinalizeUpsert
<1>9. CASE FinalizeReconcile(w)
  <2> DEFINE s == Step("final_save", u, Completed(worker[w].sess, a))
  <2>1. s \in WorkerState /\ Become(w, s) /\ s.upload = u /\ s.pc = "final_save"
    <3>1. Completed(worker[w].sess, a) \in Session
      BY <1>0 DEF Completed, Session, SessionState
    <3> QED BY <1>9, <1>a, <3>1, StepType DEF FinalizeReconcile, Step
  <2> HIDE DEF s
  <2>2. TypeOK'
    BY <1>9, <2>1, BecomeType, BudgetType DEF FinalizeReconcile, Reconciled, Budgets
  <2> QED BY <1>0, <1>9, <1>a, <2>1, <2>2, HandlerFrame DEF FinalizeReconcile
<1>10. CASE FinalizeSave(w)
  <2>1. TypeOK'
    BY <1>0, <1>10, BecomeType, IdleType, BudgetType DEF FinalizeSave, Finish, Save, SessionState, Budgets
  <2> QED BY <1>10, <2>1, HandlerFrame DEF FinalizeSave, Finish, Idle
<1> QED
  BY <1>1, <1>2, <1>3, <1>4, <1>5, <1>6, <1>7, <1>8, <1>9, <1>10, <1>11

\* The cleanup loop, the administrator and the clock remove files and rows; a restart also ends
\* every handler.
LEMMA OthersPreserve ==
  ASSUME IInv,
         (\E u \in Uploads : Expire(u)) \/ Cleanup \/ Administer \/ Restart
  PROVE  IInv'
<1> USE DEF IInv, TypeOK
<1>1. ASSUME NEW u \in Uploads, Expire(u)
      PROVE  IInv'
  <2>1. TypeOK'
    BY <1>1, BudgetType, ZenonT(60) DEF Expire, Exists, Session, Budgets
  <2> QED BY <1>1, <2>1, StoreFrame DEF Expire
<1>2. CASE CleanupSelect
  <2>1. TypeOK'
    BY <1>2 DEF CleanupSelect, ExpiredSessions
  <2> QED BY <1>2, <2>1, StoreFrame DEF CleanupSelect
<1>3. CASE CleanupDelete
  <2>1. TypeOK'
    BY <1>3, BudgetType DEF CleanupDelete, Idle, Budgets
  <2> QED BY <1>3, <2>1, StoreFrame DEF CleanupDelete
<1>4. CASE CleanupRemove
  <2>1. TypeOK'
    BY <1>4, NoFileType, BudgetType DEF CleanupRemove, Idle, Budgets
  <2> QED BY <1>4, <2>1, StoreFrame DEF CleanupRemove
<1>5. ASSUME NEW a \in Archives, DeleteSnapshot(a)
      PROVE  IInv'
  <2>1. files' \in [Names -> File] /\ FilesShrink /\ \A b \in Archives : files'[Tmp(b)] = files[Tmp(b)]
    BY <1>5, NoFileType, TmpSnap DEF DeleteSnapshot, WithoutFiles
  <2>2. TypeOK'
    BY <1>5, <2>1, BudgetType DEF DeleteSnapshot, Budgets
  <2> QED BY <1>5, <2>1, <2>2, StoreFrame DEF DeleteSnapshot
<1>6. CASE DeleteList
  <2>1. TypeOK'
    BY <1>6, BudgetType DEF DeleteList, ListedOrNothing, Budgets
  <2> QED BY <1>6, <2>1, StoreFrame DEF DeleteList
<1>7. CASE DeleteReconcile
  <2>1. TypeOK'
    BY <1>7, BudgetType DEF DeleteReconcile, Reconciled, Budgets
  <2> QED BY <1>7, <2>1, StoreFrame DEF DeleteReconcile
<1>8. CASE Restart
  <2>1. TypeOK'
    BY <1>8, IdleType, BudgetType DEF Restart, Budgets
  <2>2. \A w \in Workers : worker'[w].pc = "idle"
    BY <1>8 DEF Restart, Idle
  <2> QED BY <1>8, <2>1, <2>2, ShrunkFiles
          DEF Restart, UploadLockExclusive, HoldsUpload, NamespaceLockExclusive, HoldsNamespace,
              StagedBounded, VerifiedStaged, CopyVerified, At, Size
<1> QED
  BY <1>1, <1>2, <1>3, <1>4, <1>5, <1>6, <1>7, <1>8 DEF Cleanup, Administer

\* The invariant holds of an empty Station.
LEMMA InitEstablishes == Init => IInv
<1> SUFFICES ASSUME Init PROVE IInv
  OBVIOUS
<1> USE DEF Init
<1>1. TypeOK
  BY IdleType, NoFileType, BoundsAssumption DEF TypeOK
<1>2. UploadLockExclusive /\ NamespaceLockExclusive
  BY DEF UploadLockExclusive, HoldsUpload, NamespaceLockExclusive, HoldsNamespace, Idle
<1>3. StagedBounded
  BY BlocksAssumption, EmptySeq DEF StagedBounded, Size, NoFile, At, Idle
<1>4. VerifiedStaged /\ CopyVerified
  BY DEF VerifiedStaged, CopyVerified, At, Idle
<1>5. StoredIsDeclared
  BY DEF StoredIsDeclared, Listed
<1> QED BY <1>1, <1>2, <1>3, <1>4, <1>5 DEF IInv

\* A step that changes nothing keeps the invariant.
LEMMA StutterPreserves == IInv /\ UNCHANGED vars => IInv'
<1> SUFFICES ASSUME IInv, UNCHANGED vars PROVE IInv'
  OBVIOUS
<1>1. TypeOK'
  BY DEF IInv, TypeOK, vars
<1> QED BY <1>1, StoreFrame DEF IInv, vars

-----------------------------------------------------------------------------
(* Theorems *)

\* IInv holds in every reachable state.
THEOREM Invariance == Spec => []IInv
<1>1. IInv /\ [Next]_vars => IInv'
  <2> SUFFICES ASSUME IInv, [Next]_vars PROVE IInv'
    OBVIOUS
  <2>1. ASSUME NEW w \in Workers, Request(w) \/ Handle(w)
        PROVE  IInv'
    <3>1. CASE \E a \in Archives : StartFresh(w, a) \/ StartResume(w, a) \/ StartMissing(w, a)
      BY <3>1, StartPreserves
    <3>2. CASE \E u \in Uploads : AppendBegin(w, u) \/ FinalizeBegin(w, u) \/ FinalizeMissing(w, u)
      BY <3>2, AppendPreserves, FinalizePreserves
    <3>3. CASE Handle(w)
      BY <3>3, StartPreserves, ReconcilePreserves, AppendPreserves, FinalizePreserves, CommitPreserves
      DEF Handle
    <3> QED BY <2>1, <3>1, <3>2, <3>3 DEF Request
  <2> QED BY <2>1, OthersPreserve, StutterPreserves DEF Next
<1> QED BY <1>1, InitEstablishes, PTL DEF Spec

\* Every state has its type; in particular no handler ever sees an archive.part larger than the
\* declared size (the offset of AppendChunk).
THEOREM TypeCorrect == Spec => []TypeOK
BY Invariance, PTL DEF IInv

\* ingest.go, FinalizeUpload: whatever chunks were damaged, repeated, lost in a cleanup or cut off
\* by a crash, a snapshot of the backup root has the checksum the Scout declared.
THEOREM StoredCorrect == Spec => []StoredIsDeclared
BY Invariance, PTL DEF IInv
-----------------------------------------------------------------------------
(***************************************************************************)
(* UploadIngest implements SnapshotStore.  The mapping hides the handlers  *)
(* but for what they have verified; IInv says that what the mapping calls  *)
(* verified is what was declared when it is stored, and that nobody else   *)
(* holds the upload in between.                                            *)
(***************************************************************************)

Arriving == [u \in Uploads |-> staged[u].data]
Contents == [a \in Archives |-> files[Snap(a)].data]

\* A step of the store, or one that it does not see.
StoreStep == Store!Next \/ UNCHANGED <<Arriving, Verified, Contents>>

Pair(w) == <<worker[w].upload, worker[w].sess.archive>>

\* No handler but w moves.
OnlyMoves(w) == \A v \in Workers \ {w} : worker'[v] = worker[v]

USE DEF VerifiedPcs, stores

-----------------------------------------------------------------------------
(* What becomes of the verified uploads when a handler moves *)

\* A handler that has verified nothing, before or after, leaves them alone.
LEMMA VerifiedStays ==
  ASSUME worker \in [Workers -> WorkerState], NEW w \in Workers, OnlyMoves(w),
         worker[w].pc \notin VerifiedPcs, worker'[w].pc \notin VerifiedPcs
  PROVE  Verified' = Verified
BY DEF Verified, OnlyMoves, Pair

\* A handler on its way from the checksum to the store keeps its upload and archive.
LEMMA VerifiedMoves ==
  ASSUME worker \in [Workers -> WorkerState], NEW w \in Workers, OnlyMoves(w),
         worker[w].pc \in VerifiedPcs, worker'[w].pc \in VerifiedPcs, Pair(w)' = Pair(w)
  PROVE  Verified' = Verified
<1>1. \A v \in Workers : /\ worker'[v].pc \in VerifiedPcs <=> worker[v].pc \in VerifiedPcs
                         /\ worker[v].pc \in VerifiedPcs => Pair(v)' = Pair(v)
  BY DEF OnlyMoves, Pair
<1> QED BY <1>1 DEF Verified, Pair

\* The checksum adds an upload.
LEMMA VerifiedEnters ==
  ASSUME worker \in [Workers -> WorkerState], NEW w \in Workers, OnlyMoves(w),
         worker[w].pc \notin VerifiedPcs, worker'[w].pc \in VerifiedPcs
  PROVE  Verified' = Verified \cup {Pair(w)'}
BY DEF Verified, OnlyMoves, Pair

\* An upload that is done with leaves: no other handler has the upload.
LEMMA VerifiedLeaves ==
  ASSUME worker \in [Workers -> WorkerState], UploadLockExclusive, NEW w \in Workers, OnlyMoves(w),
         worker[w].pc \in VerifiedPcs, worker'[w].pc \notin VerifiedPcs
  PROVE  Pair(w) \in Verified /\ Verified' = Verified \ {Pair(w)}
<1>1. \A v \in Workers : v # w /\ worker[v].pc \in VerifiedPcs => worker[v].upload # worker[w].upload
  <2>1. \A v \in Workers : worker[v].pc \in VerifiedPcs =>
          HoldsUpload(v, worker[v].upload) /\ worker[v].upload \in Uploads
    BY WorkerFields DEF HoldsUpload, SessionState
  <2> QED BY <2>1 DEF UploadLockExclusive
<1>2. Pair(w) \in Verified
  BY DEF Verified, Pair
<1>3. \A v \in Workers : /\ v # w => worker'[v] = worker[v]
                         /\ worker'[w].pc \notin VerifiedPcs
  BY DEF OnlyMoves
<1>4. \A v \in Workers : v # w /\ worker[v].pc \in VerifiedPcs => Pair(v) # Pair(w)
  BY <1>1 DEF Pair
<1> QED BY <1>2, <1>3, <1>4 DEF Verified, Pair

\* A step that touches neither files nor verified uploads is one the store does not see.
LEMMA Unseen ==
  ASSUME UNCHANGED <<staged, files>>, Verified' = Verified
  PROVE  StoreStep
BY DEF StoreStep, Arriving, Contents

\* The data of a removed staged file is empty.
LEMMA LostData ==
  ASSUME NEW lost \in SUBSET Uploads, staged \in [Uploads -> File],
         staged' = [u \in Uploads |-> IF u \in lost THEN NoFile ELSE staged[u]]
  PROVE  Store!LosesOnly(lost)
BY DEF Store!LosesOnly, NoFile

\* Staged files that stay lose nothing.
LEMMA KeptData ==
  ASSUME UNCHANGED staged
  PROVE  Store!LosesOnly({})
BY DEF Store!LosesOnly

\* A removal that may fail.
LEMMA TriedData ==
  ASSUME NEW u \in Uploads, staged \in [Uploads -> File], TryRemoveStaged(u)
  PROVE  \E lost \in SUBSET {u} : Store!LosesOnly(lost)
<1>1. CASE RemoveStaged(u)
  <2>1. staged' = [x \in Uploads |-> IF x \in {u} THEN NoFile ELSE staged[x]]
    BY <1>1 DEF RemoveStaged
  <2> QED BY <2>1, LostData
<1>2. CASE UNCHANGED staged
  BY <1>2, KeptData
<1> QED BY <1>1, <1>2 DEF TryRemoveStaged

-----------------------------------------------------------------------------
(* Every step of a handler is a step of the store *)

\* Of StartUpload and of the discarding of sessions, the store sees at most that data is lost.
LEMMA StartRefines ==
  ASSUME IInv, NEW w \in Workers,
         \/ \E a \in Archives : StartFresh(w, a) \/ StartResume(w, a) \/ StartMissing(w, a)
         \/ StartSave(w) \/ StartDuplicate(w) \/ StartNoDuplicate(w) \/ StartReserve(w)
         \/ ReconcileList(w) \/ ReconcileApply(w) \/ DiscardRow(w) \/ DiscardStaged(w)
  PROVE  StoreStep
<1> USE DEF IInv, TypeOK, At
<1>1. CASE \E a \in Archives : StartFresh(w, a) \/ StartResume(w, a) \/ StartMissing(w, a)
  <2>1. OnlyMoves(w) /\ worker'[w].pc \notin VerifiedPcs
    BY <1>1 DEF Become, OnlyMoves, StartFresh, StartResume, StartMissing, Step
  <2> QED BY <1>1, <2>1, VerifiedStays, Unseen DEF StartFresh, StartResume, StartMissing
<1>2. CASE StartSave(w) \/ StartDuplicate(w) \/ StartNoDuplicate(w) \/ StartReserve(w)
  <2>1. worker[w].pc \in {"start_save"} \cup StartPc
    BY <1>2 DEF StartSave, StartDuplicate, StartNoDuplicate, StartReserve
  <2>2. OnlyMoves(w) /\ worker'[w].pc \notin VerifiedPcs
    BY <1>2, <2>1, WorkerFields
       DEF Become, OnlyMoves, StartSave, StartDuplicate, StartNoDuplicate, StartReserve, Finish, Advance, Idle
  <2> QED BY <1>2, <2>1, <2>2, VerifiedStays, Unseen
          DEF StartSave, StartDuplicate, StartNoDuplicate, StartReserve
<1>3. CASE ReconcileList(w) \/ ReconcileApply(w) \/ DiscardRow(w)
  <2>1. worker[w] \in SessionState /\ worker[w].pc \notin VerifiedPcs
    BY <1>3, WorkerFields DEF ReconcileList, ReconcileApply, DiscardRow
  <2>2. OnlyMoves(w) /\ worker'[w].pc \notin VerifiedPcs
    <3>1. CASE ReconcileList(w)
      <4>1. PICK listing : worker' = [worker EXCEPT ![w] =
              [worker[w] EXCEPT !.pc = IF worker[w].pc = "start_list" THEN "start_apply" ELSE "final_apply",
                                !.listing = listing]]
        BY <3>1 DEF ReconcileList, Become
      <4> QED BY <2>1, <4>1 DEF OnlyMoves, SessionState
    <3>2. CASE ReconcileApply(w)
      BY <2>1, <3>2 DEF ReconcileApply, Advance, Become, OnlyMoves, SessionState
    <3>3. CASE DiscardRow(w)
      BY <2>1, <3>3 DEF DiscardRow, Advance, Become, OnlyMoves, SessionState
    <3> QED BY <1>3, <3>1, <3>2, <3>3
  <2> QED BY <1>3, <2>1, <2>2, VerifiedStays, Unseen DEF ReconcileList, ReconcileApply, DiscardRow
<1>4. CASE DiscardStaged(w)
  <2>1. worker[w] \in SessionState /\ worker[w].pc \notin VerifiedPcs
    BY <1>4, WorkerFields DEF DiscardStaged
  <2>2. PICK u \in Uploads : u = worker[w].upload
    BY <2>1 DEF SessionState
  <2>3. OnlyMoves(w) /\ worker'[w].pc \notin VerifiedPcs
    BY <1>4 DEF Become, OnlyMoves, DiscardStaged, Finish, Idle
  <2>4. Verified' = Verified
    BY <2>1, <2>3, VerifiedStays
  <2>5. PICK lost \in SUBSET Uploads : Store!LosesOnly(lost)
    <3>1. TryRemoveStaged(u) BY <1>4, <2>2 DEF DiscardStaged
    <3>2. \E lost \in SUBSET {u} : Store!LosesOnly(lost) BY <3>1, TriedData
    <3> QED BY <3>2
  <2> QED BY <1>4, <2>4, <2>5 DEF StoreStep, Store!Next, Store!Lose, DiscardStaged
<1> QED BY <1>1, <1>2, <1>3, <1>4

\* Of AppendChunk, the store sees that data arrives, for an upload that is not verified.
LEMMA AppendRefines ==
  ASSUME IInv, NEW w \in Workers,
         (\E u \in Uploads : AppendBegin(w, u)) \/ AppendWrite(w) \/ AppendSave(w)
  PROVE  StoreStep
<1> USE DEF IInv, TypeOK, At
<1>1. CASE (\E u \in Uploads : AppendBegin(w, u)) \/ AppendSave(w) \/ AppendNothing(w)
  <2>1. OnlyMoves(w) /\ worker'[w].pc \notin VerifiedPcs
    <3>1. CASE \E u \in Uploads : AppendBegin(w, u)
      BY <3>1 DEF AppendBegin, Become, OnlyMoves, Step
    <3>2. CASE AppendSave(w)
      BY <3>2 DEF AppendSave, Become, OnlyMoves, Finish, Idle
    <3>3. CASE AppendNothing(w)
      BY <3>3 DEF AppendNothing, AppendEnd, Become, OnlyMoves, Finish, Idle, Step
    <3> QED BY <1>1, <3>1, <3>2, <3>3
  <2> QED BY <1>1, <2>1, VerifiedStays, Unseen DEF AppendBegin, AppendSave, AppendNothing
<1>2. ASSUME NEW n \in 1..Blocks, NEW damaged \in BOOLEAN, AppendBlocks(w, n, damaged)
      PROVE  StoreStep
  <2>1. OnlyMoves(w) /\ worker'[w].pc \notin VerifiedPcs
    BY <1>2 DEF Become, OnlyMoves, AppendBlocks, AppendEnd, Finish, Idle, Step
  <2>2. Verified' = Verified
    BY <1>2, <2>1, VerifiedStays DEF AppendBlocks
  <2>3. worker[w] \in SessionState
    BY <1>2, WorkerFields DEF AppendBlocks
  <2>4. PICK u \in Uploads, offset \in 0..Blocks : u = worker[w].upload /\ offset = worker[w].offset
    BY <2>3 DEF SessionState
  <2> DEFINE chunk == Chunk(offset, n, damaged)
  <2>5. chunk \in Seq(BlockValue)
    <3>1. offset + n <= Blocks
      BY <1>2, <2>4 DEF AppendBlocks
    <3> QED BY <2>4, <3>1, BlocksAssumption DEF Chunk, BlockValue
  <2>6. staged' = [staged EXCEPT ![u] = [data |-> staged[u].data \o chunk, mtime |-> clock + 1]]
    BY <1>2, <2>4 DEF AppendBlocks
  <2> HIDE DEF chunk
  <2>7. staged[u].data \in Seq(BlockValue)
    BY DEF File
  <2>8. Store!Extends(staged[u].data, staged[u].data \o chunk)
    <3>1. SubSeq(staged[u].data \o chunk, 1, Len(staged[u].data)) = staged[u].data
      BY <2>5, <2>7, SubSeqOfConcat1, SubSeqFull, SubSeqEmpty, LenProperties
    <3>2. Len(staged[u].data \o chunk) >= Len(staged[u].data)
      BY <2>5, <2>7, ConcatProperties, LenProperties
    <3> QED BY <3>1, <3>2 DEF Store!Extends
  <2>9. \A a \in Archives : <<u, a>> \notin Verified
    <3>1. \A v \in Workers : worker[v].pc \in VerifiedPcs => worker[v].upload # u
      BY <1>2, <2>4 DEF AppendBlocks, UploadLockExclusive, HoldsUpload
    <3> QED BY <3>1 DEF Verified
  <2>10. Arriving' = [Arriving EXCEPT ![u] = staged[u].data \o chunk]
    BY <2>6 DEF Arriving
  <2>11. Store!Receive(u)
    BY <1>2, <2>2, <2>8, <2>9, <2>10 DEF Store!Receive, AppendBlocks, Arriving
  <2> QED BY <2>11 DEF StoreStep, Store!Next
<1> QED BY <1>1, <1>2 DEF AppendWrite

\* Of FinalizeUpload before the store, it sees the checksum, and whether the upload goes on.
LEMMA FinalizeRefines ==
  ASSUME IInv, NEW w \in Workers,
         \/ \E u \in Uploads : FinalizeBegin(w, u) \/ FinalizeMissing(w, u)
         \/ FinalizeRefuse(w) \/ FinalizeReset(w)
         \/ FinalizeVerify(w) \/ FinalizeDuplicate(w) \/ FinalizeNoDuplicate(w)
  PROVE  StoreStep
<1> USE DEF IInv, TypeOK, At
<1>1. CASE (\E u \in Uploads : FinalizeBegin(w, u) \/ FinalizeMissing(w, u)) \/ FinalizeRefuse(w)
  <2>1. OnlyMoves(w) /\ worker'[w].pc \notin VerifiedPcs
    BY <1>1 DEF Become, OnlyMoves, FinalizeBegin, FinalizeMissing, FinalizeRefuse, Finish, Idle, Step
  <2> QED BY <1>1, <2>1, VerifiedStays, Unseen DEF FinalizeBegin, FinalizeMissing, FinalizeRefuse
<1>2. CASE FinalizeReset(w)
  <2>1. worker[w] \in SessionState /\ worker[w].pc \notin VerifiedPcs
    BY <1>2, WorkerFields DEF FinalizeReset
  <2>2. PICK u \in Uploads : u = worker[w].upload
    BY <2>1 DEF SessionState
  <2>3. OnlyMoves(w) /\ worker'[w].pc \notin VerifiedPcs
    BY <1>2 DEF Become, OnlyMoves, FinalizeReset, Finish, Idle
  <2>4. Verified' = Verified
    BY <2>1, <2>3, VerifiedStays
  <2>5. staged' = [x \in Uploads |-> IF x \in {u} THEN NoFile ELSE staged[x]]
    BY <1>2, <2>2 DEF FinalizeReset, RemoveStaged
  <2>6. Store!LosesOnly({u})
    BY <2>5, LostData
  <2> QED BY <1>2, <2>4, <2>6 DEF StoreStep, Store!Next, Store!Lose, FinalizeReset
<1>3. CASE FinalizeVerify(w)
  <2>1. worker[w] \in SessionState /\ worker[w].pc \notin VerifiedPcs
    BY <1>3, WorkerFields DEF FinalizeVerify
  <2>2. PICK u \in Uploads : u = worker[w].upload
    BY <2>1 DEF SessionState
  <2>3. PICK a \in Archives : a = Copy(u).archive
    BY <1>3, <2>2, CopyType DEF FinalizeVerify, Session
  <2>4. OnlyMoves(w) /\ worker'[w] = Step("final_dup", u, Copy(u))
    BY <1>3, <2>2 DEF FinalizeVerify, Become, OnlyMoves
  <2>5. Verified' = Verified \cup {<<u, a>>}
    BY <2>1, <2>3, <2>4, VerifiedEnters DEF Step, Pair
  <2>6. Arriving[u] = Declared /\ UNCHANGED <<Arriving, Contents>>
    BY <1>3, <2>2 DEF FinalizeVerify, Arriving, Contents
  <2>7. Store!Verify(u, a)
    BY <2>5, <2>6 DEF Store!Verify, Arriving, Contents
  <2> QED BY <2>7 DEF StoreStep, Store!Next
<1>4. CASE FinalizeDuplicate(w) \/ (FinalizeNoDuplicate(w) /\ Finish(w))
  <2>1. worker[w] \in SessionState /\ worker[w].pc = "final_dup"
    BY <1>4, WorkerFields DEF FinalizeDuplicate, FinalizeNoDuplicate
  <2>2. PICK u \in Uploads, a \in Archives : u = worker[w].upload /\ a = worker[w].sess.archive
    BY <2>1 DEF SessionState, Session
  <2>3. OnlyMoves(w) /\ worker'[w].pc \notin VerifiedPcs
    BY <1>4 DEF Become, OnlyMoves, FinalizeDuplicate, Finish, Idle, Step
  <2>4. <<u, a>> \in Verified /\ Verified' = Verified \ {<<u, a>>}
    BY <2>1, <2>2, <2>3, VerifiedLeaves DEF Pair
  <2>5. \E lost \in SUBSET {u} : Store!LosesOnly(lost)
    <3>1. CASE FinalizeDuplicate(w)
      BY <2>2, <3>1, TriedData DEF FinalizeDuplicate
    <3>2. CASE UNCHANGED staged
      BY <3>2, KeptData
    <3> QED BY <1>4, <3>1, <3>2 DEF FinalizeNoDuplicate
  <2>6. Store!Decline(u, a)
    BY <1>4, <2>4, <2>5 DEF Store!Decline, Store!Settled, FinalizeDuplicate, FinalizeNoDuplicate
  <2> QED BY <2>6 DEF StoreStep, Store!Next
<1>5. CASE FinalizeNoDuplicate(w) /\ Advance(w, "final_store")
  <2>1. worker[w] \in SessionState /\ worker[w].pc = "final_dup"
    BY <1>5, WorkerFields DEF FinalizeNoDuplicate
  <2>2. OnlyMoves(w) /\ worker'[w].pc = "final_store" /\ Pair(w)' = Pair(w)
    BY <1>5, <2>1 DEF Advance, Become, OnlyMoves, Pair, SessionState
  <2>3. Verified' = Verified
    BY <2>1, <2>2, VerifiedMoves
  <2> QED BY <1>5, <2>3, Unseen DEF FinalizeNoDuplicate
<1> QED BY <1>1, <1>2, <1>3, <1>4, <1>5 DEF FinalizeNoDuplicate

\* A handler that deletes goes on with it, or ends it.
LEMMA DeleteMoves ==
  ASSUME worker \in [Workers -> WorkerState], NEW w \in Workers, FinalizeDelete(w)
  PROVE  OnlyMoves(w) /\ worker'[w].pc \in {"final_delete", "final_files"}
<1>1. CASE EndPrune(w)
  <2>1. worker' = [worker EXCEPT ![w] = Step("final_files", worker[w].upload, worker[w].sess)]
    BY <1>1 DEF EndPrune, Become
  <2>2. Step("final_files", worker[w].upload, worker[w].sess).pc = "final_files" BY DEF Step
  <2> QED BY <2>1, <2>2 DEF OnlyMoves
<1>2. CASE UNCHANGED worker
  BY <1>2 DEF FinalizeDelete, At, OnlyMoves
<1> QED BY <1>1, <1>2 DEF FinalizeDelete

\* Of commitNewArchive, it sees the moment the snapshot is stored, and retention.
LEMMA CommitRefines ==
  ASSUME IInv, NEW w \in Workers,
         \/ FinalizeStore(w) \/ FinalizeCopy(w) \/ FinalizeCopied(w) \/ FinalizeRename(w)
         \/ FinalizeStoreError(w) \/ FinalizePrune(w) \/ FinalizeDelete(w) \/ FinalizeFiles(w)
         \/ FinalizeUpsert(w) \/ FinalizeReconcile(w) \/ FinalizeSave(w)
  PROVE  StoreStep
<1> USE DEF IInv, TypeOK, At
<1>0. worker[w] \in SessionState
  BY WorkerFields DEF FinalizeStore, FinalizeCopy, FinalizeCopied, FinalizeRename, FinalizeStoreError,
     FinalizePrune, FinalizeDelete, FinalizeFiles, FinalizeUpsert, FinalizeReconcile, FinalizeSave
<1>a. PICK u \in Uploads, a \in Archives : u = worker[w].upload /\ a = worker[w].sess.archive
  BY <1>0 DEF SessionState, Session
<1>b. Snap(a) \in Names /\ Tmp(a) \in Names /\ \A b \in Archives : Snap(b) \in Names /\ (Snap(b) = Snap(a) <=> b = a)
  BY DEF Names, Snap, Tmp
<1>1. CASE FinalizeStore(w) \/ FinalizeRename(w)
  <2>1. OnlyMoves(w) /\ worker'[w].pc = "final_prune"
    BY <1>0, <1>1 DEF FinalizeStore, FinalizeRename, Advance, Become, OnlyMoves, SessionState
  <2>2. <<u, a>> \in Verified /\ Verified' = Verified \ {<<u, a>>}
    BY <1>1, <1>a, <2>1, VerifiedLeaves DEF Pair, FinalizeStore, FinalizeRename
  <2>3. \E lost \in SUBSET {u} : Store!LosesOnly(lost)
    <3>1. CASE FinalizeStore(w)
      <4>1. staged' = [x \in Uploads |-> IF x \in {u} THEN NoFile ELSE staged[x]]
        BY <1>a, <3>1 DEF FinalizeStore, RemoveStaged
      <4> QED BY <4>1, LostData
    <3>2. CASE FinalizeRename(w)
      BY <1>a, <3>2, TriedData DEF FinalizeRename
    <3> QED BY <1>1, <3>1, <3>2
  <2>4. /\ files'[Snap(a)].data = Declared
        /\ \A b \in Archives \ {a} : files'[Snap(b)] = files[Snap(b)]
    <3>1. CASE FinalizeStore(w)
      BY <1>a, <1>b, <3>1 DEF FinalizeStore, VerifiedStaged
    <3>2. CASE FinalizeRename(w)
      BY <1>a, <1>b, <3>2, TmpSnap DEF FinalizeRename, CopyVerified
    <3> QED BY <1>1, <3>1, <3>2
  <2>5. Contents' = [Contents EXCEPT ![a] = Declared]
    BY <2>4 DEF Contents
  <2>6. Store!Accept(u, a)
    BY <2>2, <2>3, <2>5 DEF Store!Accept, Store!Settled, Contents
  <2> QED BY <2>6 DEF StoreStep, Store!Next
<1>2. CASE FinalizeCopy(w) \/ FinalizeCopied(w)
  <2>1. OnlyMoves(w) /\ worker'[w].pc \in VerifiedPcs /\ Pair(w)' = Pair(w)
    <3>1. CASE FinalizeCopy(w)
      BY <1>0, <3>1 DEF FinalizeCopy, Become, OnlyMoves, Pair, Step
    <3>2. CASE FinalizeCopied(w)
      BY <1>0, <3>2 DEF FinalizeCopied, Become, OnlyMoves, Pair, Step
    <3> QED BY <1>2, <3>1, <3>2
  <2>2. Verified' = Verified
    BY <1>2, <2>1, VerifiedMoves DEF FinalizeCopy, FinalizeCopied
  <2>3. UNCHANGED staged /\ \A b \in Archives : files'[Snap(b)] = files[Snap(b)]
    BY <1>2, <1>a, <1>b, TmpSnap DEF FinalizeCopy, FinalizeCopied
  <2> QED BY <2>2, <2>3 DEF StoreStep, Arriving, Contents
<1>3. CASE FinalizeStoreError(w)
  <2>1. OnlyMoves(w) /\ worker'[w].pc \notin VerifiedPcs
    BY <1>3 DEF Become, OnlyMoves, FinalizeStoreError, Finish, Idle
  <2>2. <<u, a>> \in Verified /\ Verified' = Verified \ {<<u, a>>}
    BY <1>3, <1>a, <2>1, VerifiedLeaves DEF Pair, FinalizeStoreError
  <2>3. \A b \in Archives : files'[Snap(b)] = files[Snap(b)]
    BY <1>3, <1>a, <1>b, TmpSnap DEF FinalizeStoreError, WithoutFiles
  <2>4. Contents' = Contents /\ Store!LosesOnly({})
    BY <1>3, <2>3 DEF Contents, Store!LosesOnly, FinalizeStoreError
  <2>5. Store!Decline(u, a)
    BY <2>2, <2>4 DEF Store!Decline, Store!Settled, Contents
  <2> QED BY <2>5 DEF StoreStep, Store!Next
<1>4. CASE FinalizeDelete(w) /\ ~UNCHANGED files
  <2>1. Verified' = Verified
    <3>1. OnlyMoves(w) /\ worker'[w].pc \in {"final_delete", "final_files"}
      BY <1>4, DeleteMoves
    <3> QED BY <1>4, <3>1, VerifiedStays DEF FinalizeDelete
  <2>2. PICK gone : files' = WithoutFiles(gone)
    BY <1>4 DEF FinalizeDelete
  <2> DEFINE lost == {b \in Archives : Snap(b) \in gone}
  <2>3. Contents' = [b \in Archives |-> IF b \in lost THEN <<>> ELSE Contents[b]]
    BY <1>b, <2>2 DEF Contents, WithoutFiles, NoFile
  <2>4. Store!Remove(lost)
    BY <1>4, <2>1, <2>3 DEF Store!Remove, Contents, FinalizeDelete
  <2> QED BY <2>4 DEF StoreStep, Store!Next
<1>5. CASE \/ FinalizePrune(w) \/ FinalizeFiles(w) \/ FinalizeUpsert(w) \/ FinalizeReconcile(w)
           \/ FinalizeSave(w) \/ (FinalizeDelete(w) /\ UNCHANGED files)
  <2>1. OnlyMoves(w) /\ worker'[w].pc \notin VerifiedPcs
    <3>1. CASE FinalizeFiles(w)
      <4>1. PICK listing : worker' = [worker EXCEPT ![w] = [@ EXCEPT !.pc = "final_upsert", !.listing = listing]]
        BY <3>1 DEF FinalizeFiles, Become
      <4> QED BY <1>0, <4>1 DEF OnlyMoves, SessionState
    <3>2. CASE FinalizeUpsert(w)
      BY <1>0, <3>2 DEF FinalizeUpsert, Advance, Become, OnlyMoves, SessionState
    <3>3. CASE FinalizeReconcile(w)
      BY <3>3 DEF FinalizeReconcile, Become, OnlyMoves, Step
    <3>4. CASE FinalizeSave(w)
      BY <3>4 DEF FinalizeSave, Finish, Become, OnlyMoves, Idle
    <3>5. CASE FinalizePrune(w)
      <4>1. CASE Advance(w, "final_files")
        BY <1>0, <4>1 DEF Advance, Become, OnlyMoves, SessionState
      <4>2. CASE Become(w, [worker[w] EXCEPT !.pc = "final_delete", !.listing = Listed, !.doomed = Surplus])
        BY <1>0, <4>2 DEF Become, OnlyMoves, SessionState
      <4> QED BY <3>5, <4>1, <4>2 DEF FinalizePrune
    <3>6. CASE FinalizeDelete(w)
      BY <3>6, DeleteMoves
    <3> QED BY <1>5, <3>1, <3>2, <3>3, <3>4, <3>5, <3>6
  <2> QED BY <1>5, <2>1, VerifiedStays, Unseen
          DEF FinalizePrune, FinalizeDelete, FinalizeFiles, FinalizeUpsert, FinalizeReconcile, FinalizeSave
<1> QED BY <1>1, <1>2, <1>3, <1>4, <1>5

\* The cleanup loop loses data, an administrator removes snapshots, a restart forgets what is verified.
LEMMA OthersRefine ==
  ASSUME IInv,
         (\E u \in Uploads : Expire(u)) \/ Cleanup \/ Administer \/ Restart
  PROVE  StoreStep
<1> USE DEF IInv, TypeOK
<1>1. CASE (\E u \in Uploads : Expire(u)) \/ CleanupSelect \/ CleanupDelete \/ DeleteList \/ DeleteReconcile
  <2>1. UNCHANGED <<staged, files, worker>>
    BY <1>1 DEF Expire, CleanupSelect, CleanupDelete, DeleteList, DeleteReconcile
  <2>2. Verified' = Verified
    BY <2>1 DEF Verified
  <2> QED BY <2>1, <2>2, Unseen
<1>2. CASE CleanupRemove
  <2>0. PICK gone : staged' = [u \in Uploads |-> IF u \in gone THEN NoFile ELSE staged[u]]
    BY <1>2 DEF CleanupRemove
  <2> DEFINE lost == gone \cap Uploads
  <2>1. staged' = [u \in Uploads |-> IF u \in lost THEN NoFile ELSE staged[u]]
    BY <2>0
  <2>3. Store!LosesOnly(lost)
    BY <2>1, LostData
  <2>4. UNCHANGED <<Verified, Contents>>
    BY <1>2 DEF CleanupRemove, Verified, Contents
  <2> QED BY <2>3, <2>4 DEF StoreStep, Store!Next, Store!Lose, Contents
<1>3. ASSUME NEW a \in Archives, DeleteSnapshot(a)
      PROVE  StoreStep
  <2>1. Contents' = [b \in Archives |-> IF b \in {a} THEN <<>> ELSE Contents[b]]
    BY <1>3 DEF DeleteSnapshot, WithoutFiles, Contents, NoFile, Snap, Names
  <2>2. UNCHANGED <<Arriving, Verified>>
    BY <1>3 DEF DeleteSnapshot, Arriving, Verified
  <2>3. Store!Remove({a})
    BY <2>1, <2>2 DEF Store!Remove, Arriving, Contents
  <2> QED BY <2>3 DEF StoreStep, Store!Next
<1>4. CASE Restart
  <2>1. Verified' = {}
    BY <1>4 DEF Restart, Verified, Idle
  <2>2. UNCHANGED <<Arriving, Contents>>
    BY <1>4 DEF Restart, Arriving, Contents
  <2>3. Store!Restart
    BY <2>1, <2>2 DEF Store!Restart, Arriving, Contents
  <2> QED BY <2>3 DEF StoreStep, Store!Next
<1> QED BY <1>1, <1>2, <1>3, <1>4 DEF Cleanup, Administer

-----------------------------------------------------------------------------
(* Theorem *)

\* ingest.go: sessions, locks, copies of rows, errors and restarts together do what SnapshotStore
\* says: no snapshot without a verification, and no byte added between the two.
THEOREM StoreImplemented == Spec => ImplementsStore
<1>1. Init => Store!Init
  <2> SUFFICES ASSUME Init PROVE Store!Init
    OBVIOUS
  <2>1. Verified = {}
    BY DEF Init, Verified, Idle
  <2> QED BY <2>1 DEF Init, Store!Init, NoFile, Snap, Names
<1>2. IInv /\ [Next]_vars => [Store!Next]_(Store!vars)
  <2> SUFFICES ASSUME IInv, [Next]_vars PROVE StoreStep
    BY DEF StoreStep, Store!vars, Arriving, Contents
  <2>1. ASSUME NEW w \in Workers, Request(w) \/ Handle(w)
        PROVE  StoreStep
    <3>1. CASE Request(w)
      BY <3>1, StartRefines, AppendRefines, FinalizeRefines DEF Request
    <3>2. CASE Handle(w)
      BY <3>2, StartRefines, AppendRefines, FinalizeRefines, CommitRefines DEF Handle
    <3> QED BY <2>1, <3>1, <3>2
  <2>2. CASE UNCHANGED vars
    BY <2>2, Unseen DEF vars, Verified
  <2> QED BY <2>1, <2>2, OthersRefine DEF Next
<1> QED BY <1>1, <1>2, Invariance, PTL DEF Spec, ImplementsStore, Store!Spec

-----------------------------------------------------------------------------
(***************************************************************************)
(* Retention, the index and the order of blocks.  What an observer sees    *)
(* between two finalizes follows from what each program point of           *)
(* commitNewArchive has done and has still to do.                          *)
(***************************************************************************)

\* From the first byte in the backup root to retention there may be one file too many.
AddedPc    == {"final_copy", "final_rename", "final_prune", "final_delete"}
\* From the first deletion to the reconcile the index may lag behind.
UnlistedPc == {"final_delete", "final_files", "final_upsert", "final_reconcile"}
CommitPc   == AddedPc \cup UnlistedPc \cup {"final_save"}

Written(f) == f # NoFile

\* No two files were last written at the same time, so retention can tell which is newer.
OwnTimes ==
  /\ \A u \in Uploads : staged[u].mtime <= clock
  /\ \A n \in Names : files[n].mtime <= clock
  /\ \A u, v \in Uploads :
       Written(staged[u]) /\ Written(staged[v]) /\ staged[u].mtime = staged[v].mtime => u = v
  /\ \A m, n \in Names :
       Written(files[m]) /\ Written(files[n]) /\ files[m].mtime = files[n].mtime => m = n
  /\ \A u \in Uploads, n \in Names :
       Written(staged[u]) /\ Written(files[n]) => staged[u].mtime # files[n].mtime

\* What has been spent was there.
BoundsLeft ==
  /\ budget.crashes <= MaxCrashes
  /\ budget.failures <= MaxFailures
  /\ budget.deletes <= MaxDeletes
  /\ budget.settled <= Interruptions

\* While a copy is being written the directory shows it.
CopyListed == \A w \in Workers : At(w, "final_copy") => Tmp(worker[w].sess.archive) \in Listed

\* RetentionHolds, in the middle of a finalize too.
Pruned ==
  /\ IsFiniteSet(Listed)
  /\ Cardinality(Listed) <=
       KeepLast + (Interruptions - budget.settled) + (IF \E w \in Workers : worker[w].pc \in AddedPc THEN 1 ELSE 0)

\* What retention deletes is older than the KeepLast files it keeps, of which only an administrator
\* deletes, and nothing is stored meanwhile.
Kept(w) == worker[w].listing \ worker[w].doomed
DeletingOlder ==
  \A w \in Workers : At(w, "final_delete") =>
    /\ Listed \subseteq worker[w].listing
    /\ IsFiniteSet(Kept(w)) /\ Cardinality(Kept(w)) = KeepLast
    /\ \A m \in Kept(w) \cap Listed, n \in Doomed(w) : Newer(m, n)

\* The rows of the index, in the middle of a finalize too.
IndexLags ==
  Undisturbed =>
    /\ admin = Idle
    /\ \/ \E w \in Workers : worker[w].pc \in UnlistedPc
       \/ \A a \in index : Snap(a) \in Listed
    /\ \A w \in Workers : worker[w].pc \in {"final_upsert", "final_reconcile"} => worker[w].listing = Listed

\* What finalize is going to answer.
AnswerKept ==
  Undisturbed =>
    \A w \in Workers :
      /\ At(w, "final_prune") => Snap(worker[w].sess.archive) \in Listed
      /\ At(w, "final_delete") => Kept(w) \subseteq Listed
      /\ worker[w].pc \in UnlistedPc =>
           Snap(worker[w].sess.archive) \in Listed \/ Cardinality(Listed) >= KeepLast
      /\ At(w, "final_save") =>
           \/ Snap(worker[w].sess.storedAs) \in Listed
           \/ /\ worker[w].sess.storedAs = worker[w].sess.archive
              /\ Cardinality(Listed) >= KeepLast

\* On one file system nothing is copied.
NoTmp ==
  SameFilesystem =>
    /\ \A a \in Archives : Tmp(a) \notin Listed
    /\ \A w \in Workers : worker[w].pc \notin {"final_copy", "final_rename"}

\* The second inductive invariant, on top of IInv.
RInv == /\ StagedInOrder /\ OwnTimes /\ BoundsLeft /\ CopyListed /\ Pruned /\ DeletingOlder
        /\ IndexLags /\ AnswerKept /\ NoTmp

-----------------------------------------------------------------------------
(* What retention keeps *)

\* The files that are newer than file n.
NewerThan(n) == {m \in Listed : Newer(m, n)}

\* The number of newer files tells the files apart, and grows with the age.
LEMMA RankFacts ==
  ASSUME TypeOK, OwnTimes, IsFiniteSet(Listed)
  PROVE  /\ Cardinality(Listed) \in Nat
         /\ \A n \in Listed : IsFiniteSet(NewerThan(n)) /\ Cardinality(NewerThan(n)) \in 0..(Cardinality(Listed) - 1)
         /\ \A m, n \in Listed : Newer(m, n) => Cardinality(NewerThan(m)) < Cardinality(NewerThan(n))
         /\ \A m, n \in Listed : m # n => Newer(m, n) \/ Newer(n, m)
<1>0. \A n \in Listed : n \in Names /\ files[n].mtime \in Nat /\ Written(files[n])
  BY DEF TypeOK, Listed, File, Written
<1>1. Cardinality(Listed) \in Nat BY FS_CardinalityType
<1>2. ASSUME NEW n \in Listed
      PROVE  IsFiniteSet(NewerThan(n)) /\ Cardinality(NewerThan(n)) \in 0..(Cardinality(Listed) - 1)
  <2>1. NewerThan(n) \in SUBSET Listed /\ n \notin NewerThan(n) BY <1>0 DEF NewerThan, Newer
  <2>2. /\ IsFiniteSet(NewerThan(n)) /\ Cardinality(NewerThan(n)) <= Cardinality(Listed)
        /\ Cardinality(NewerThan(n)) # Cardinality(Listed)
    BY <2>1, FS_Subset
  <2>3. Cardinality(NewerThan(n)) \in Nat BY <2>2, FS_CardinalityType
  <2> QED BY <1>1, <2>2, <2>3
<1>3. ASSUME NEW m \in Listed, NEW n \in Listed, Newer(m, n)
      PROVE  Cardinality(NewerThan(m)) < Cardinality(NewerThan(n))
  <2>1. NewerThan(m) \in SUBSET NewerThan(n) /\ m \in NewerThan(n) /\ m \notin NewerThan(m)
    BY <1>0, <1>3 DEF NewerThan, Newer
  <2>2. /\ Cardinality(NewerThan(m)) <= Cardinality(NewerThan(n))
        /\ Cardinality(NewerThan(m)) # Cardinality(NewerThan(n))
    BY <1>2, <2>1, FS_Subset
  <2>3. Cardinality(NewerThan(m)) \in Nat /\ Cardinality(NewerThan(n)) \in Nat BY <1>2
  <2> QED BY <2>2, <2>3
<1>4. ASSUME NEW m \in Listed, NEW n \in Listed, m # n
      PROVE  Newer(m, n) \/ Newer(n, m)
  BY <1>0, <1>4 DEF OwnTimes, Newer
<1> QED BY <1>1, <1>2, <1>3, <1>4

\* retention.go: what is not surplus is the KeepLast newest files, all of them newer than any other.
LEMMA KeptFiles ==
  ASSUME TypeOK, OwnTimes, IsFiniteSet(Listed)
  PROVE  /\ IsFiniteSet(Listed \ Surplus)
         /\ Cardinality(Listed \ Surplus) \in Nat
         /\ Cardinality(Listed \ Surplus) <= KeepLast
         /\ Surplus # {} => Cardinality(Listed \ Surplus) = KeepLast
         /\ \A m \in Listed \ Surplus, n \in Surplus : Newer(m, n)
<1> DEFINE Stay == Listed \ Surplus
           R(n) == Cardinality(NewerThan(n))
           L    == Cardinality(Listed)
           rank == [n \in Listed |-> R(n)]
           front == [n \in Stay |-> R(n)]
<1>1. Surplus = {n \in Listed : R(n) >= KeepLast} BY DEF Surplus, NewerThan
<1>2. /\ L \in Nat
      /\ \A n \in Listed : R(n) \in 0..(L - 1)
      /\ \A m, n \in Listed : Newer(m, n) => R(m) < R(n)
      /\ \A m, n \in Listed : m # n => Newer(m, n) \/ Newer(n, m)
  BY RankFacts
<1>3. \A m, n \in Listed : R(m) = R(n) => m = n
  BY <1>2
<1>4. \A m \in Stay, n \in Surplus : Newer(m, n)
  <2> SUFFICES ASSUME NEW m \in Stay, NEW n \in Surplus PROVE Newer(m, n)
    OBVIOUS
  <2>1. m \in Listed /\ n \in Listed /\ R(n) >= KeepLast /\ ~(R(m) >= KeepLast) BY <1>1
  <2>2. m # n BY <2>1
  <2> QED BY <1>2, <2>1, <2>2, KeepLastAssumption
<1>5. \A n \in Stay : n \in Listed /\ R(n) \in 0..(KeepLast - 1)
  BY <1>1, <1>2, KeepLastAssumption
<1>6. IsFiniteSet(0..(KeepLast - 1)) /\ Cardinality(0..(KeepLast - 1)) = KeepLast
  BY FS_Interval, KeepLastAssumption
<1> HIDE DEF R, L, Stay
<1>7. front \in Injection(Stay, 0..(KeepLast - 1))
  BY <1>3, <1>5 DEF Injection, IsInjective
<1>8. IsFiniteSet(Stay) /\ Cardinality(Stay) <= KeepLast
  BY <1>6, <1>7, FS_Injection
<1>9. ASSUME Surplus # {} PROVE Cardinality(Stay) = KeepLast
  <2>1. PICK s \in Listed : R(s) >= KeepLast BY <1>1, <1>9
  <2>2. IsFiniteSet(0..(L - 1)) /\ Cardinality(0..(L - 1)) = L
    <3>1. L > 0 BY <1>2, <2>1
    <3> QED BY <1>2, <3>1, FS_Interval
  <2>3. rank \in Injection(Listed, 0..(L - 1))
    BY <1>2, <1>3 DEF Injection, IsInjective
  <2>4. rank \in Surjection(Listed, 0..(L - 1))
    BY <2>2, <2>3, FS_Injection DEF L
  <2>5. \A i \in 0..(L - 1) : \E n \in Listed : R(n) = i
    BY <2>4 DEF Surjection
  <2>6. \A i \in 0..(KeepLast - 1) : \E n \in Stay : front[n] = i
    <3> SUFFICES ASSUME NEW i \in 0..(KeepLast - 1) PROVE \E n \in Stay : front[n] = i
      OBVIOUS
    <3>1. i \in 0..(L - 1) /\ i < KeepLast BY <1>2, <2>1, KeepLastAssumption
    <3>2. PICK n \in Listed : R(n) = i BY <2>5, <3>1
    <3>3. n \in Stay BY <1>1, <3>1, <3>2, KeepLastAssumption DEF Stay
    <3> QED BY <3>2, <3>3
  <2>7. front \in Surjection(Stay, 0..(KeepLast - 1))
    BY <1>5, <2>6 DEF Surjection
  <2> QED BY <1>6, <1>7, <2>7, FS_Injection
<1>10. Cardinality(Stay) \in Nat BY <1>8, FS_CardinalityType
<1> QED BY <1>4, <1>8, <1>9, <1>10 DEF Stay

-----------------------------------------------------------------------------
(* Steps that the backup root does not notice *)

USE DEF AddedPc, UnlistedPc, CommitPc

\* A chunk may be written next at the end of archive.part.
OpensAtEnd(w) == At(w, "append_write") => Size(worker[w].upload) = worker[w].offset

\* Nothing is stored, removed or listed; at most rows leave the index and staged files go.
QuietStep ==
  /\ \A v \in Workers :
       \/ worker'[v] = worker[v]
       \/ worker[v].pc \notin CommitPc /\ worker'[v].pc \notin CommitPc /\ OpensAtEnd(v)'
  /\ StagedShrinks
  /\ index' \subseteq index
  /\ NoFailure \/ Failure \/ Spend("expiries")
  /\ UNCHANGED <<files, clock, admin>>

\* One handler moves outside commitNewArchive.
LEMMA QuietMove ==
  ASSUME worker \in [Workers -> WorkerState], NEW w \in Workers, NEW s, Become(w, s),
         worker[w].pc \notin CommitPc, s.pc \notin CommitPc \cup {"append_write"},
         StagedShrinks, index' \subseteq index, NoFailure \/ Failure, UNCHANGED <<files, clock, admin>>
  PROVE  QuietStep
<1>1. \A v \in Workers : worker'[v] = IF v = w THEN s ELSE worker[v]
  BY DEF Become
<1>2. OpensAtEnd(w)' BY <1>1 DEF OpensAtEnd, At
<1> QED BY <1>1, <1>2 DEF QuietStep

\* A removal that may fail removes nothing else.
LEMMA TriedShrinks ==
  ASSUME staged \in [Uploads -> File], NEW u, TryRemoveStaged(u)
  PROVE  StagedShrinks /\ (NoFailure \/ Failure)
BY DEF TryRemoveStaged, RemoveStaged

\* StartUpload, reconcileNamespace and discardSession.
LEMMA StartQuiet ==
  ASSUME TypeOK, NEW w \in Workers,
         \/ \E a \in Archives : StartFresh(w, a) \/ StartResume(w, a) \/ StartMissing(w, a)
         \/ StartSave(w) \/ StartDuplicate(w) \/ StartNoDuplicate(w) \/ StartReserve(w)
         \/ ReconcileList(w) \/ ReconcileApply(w) \/ DiscardRow(w) \/ DiscardStaged(w)
  PROVE  QuietStep
<1> USE DEF TypeOK, At
<1>1. CASE \E a \in Archives : StartFresh(w, a) \/ StartResume(w, a) \/ StartMissing(w, a)
  <2>1. PICK s : Become(w, s) /\ s.pc \in {"start_dup", "start_save", "start_list"}
    <3>1. CASE \E a \in Archives : StartFresh(w, a)
      <4>1. PICK a : Become(w, [pc |-> "start_dup", archive |-> a]) BY <3>1 DEF StartFresh
      <4> QED BY <4>1
    <3>2. CASE \E a \in Archives : StartResume(w, a) \/ StartMissing(w, a)
      <4>1. PICK u \in Uploads, pc \in {"start_save", "start_list"} : Become(w, Step(pc, u, Copy(u)))
        BY <3>2 DEF StartResume, StartMissing, KeyOf
      <4>2. Step(pc, u, Copy(u)).pc = pc BY DEF Step
      <4> QED BY <4>1, <4>2
    <3> QED BY <1>1, <3>1, <3>2
  <2>2. (NoFailure \/ Failure) /\ UNCHANGED <<stores, clock, admin>> /\ worker[w].pc = "idle"
    BY <1>1 DEF StartFresh, StartResume, StartMissing, FoundMissing, NoFailure
  <2> QED BY <2>1, <2>2, QuietMove
<1>2. CASE StartSave(w) \/ StartDuplicate(w) \/ StartReserve(w)
  <2>1. Become(w, Idle) /\ Idle.pc = "idle" BY <1>2 DEF StartSave, StartDuplicate, StartReserve, Finish, Idle
  <2>2. /\ NoFailure \/ Failure
        /\ UNCHANGED <<staged, files, index, clock, admin>>
        /\ worker[w].pc \in {"start_save", "start_dup", "start_reserve"}
    BY <1>2 DEF StartSave, StartDuplicate, StartReserve, NoFailure
  <2> QED BY <2>1, <2>2, QuietMove
<1>3. CASE StartNoDuplicate(w)
  <2>1. worker[w] \in [pc : StartPc, archive : Archives] BY <1>3, WorkerFields DEF StartNoDuplicate
  <2>2. PICK s : Become(w, s) /\ s.pc \in {"start_reserve", "idle"}
    BY <1>3, <2>1 DEF StartNoDuplicate, Finish, Advance, Idle
  <2> QED BY <1>3, <2>2, QuietMove DEF StartNoDuplicate
<1>4. CASE ReconcileList(w) \/ ReconcileApply(w) \/ DiscardRow(w)
  <2>0. worker[w] \in SessionState
    BY <1>4, WorkerFields DEF ReconcileList, ReconcileApply, DiscardRow
  <2> DEFINE Later == {"start_apply", "final_apply", "start_discard", "final_discard", "start_remove", "final_remove"}
  <2>1. PICK s : Become(w, s) /\ s.pc \in Later
    <3>1. CASE ReconcileList(w)
      <4>1. PICK listing : Become(w, [worker[w] EXCEPT !.pc = IF @ = "start_list" THEN "start_apply" ELSE "final_apply",
                                                       !.listing = listing])
        BY <3>1 DEF ReconcileList
      <4> DEFINE s == [worker[w] EXCEPT !.pc = IF @ = "start_list" THEN "start_apply" ELSE "final_apply",
                                        !.listing = listing]
      <4>2. s.pc \in Later BY <2>0 DEF SessionState
      <4> QED BY <4>1, <4>2
    <3>2. CASE ReconcileApply(w) \/ DiscardRow(w)
      BY <2>0, <3>2 DEF ReconcileApply, DiscardRow, Advance, SessionState
    <3> QED BY <1>4, <3>1, <3>2
  <2>2. /\ NoFailure \/ Failure
        /\ UNCHANGED <<staged, files, clock, admin>> /\ index' \subseteq index
        /\ worker[w].pc \in {"start_list", "final_list"} \cup Later
    BY <1>4 DEF ReconcileList, ReconcileApply, DiscardRow, ListedOrNothing, Reconciled
  <2> QED BY <2>1, <2>2, QuietMove
<1>5. CASE DiscardStaged(w)
  <2>1. PICK s : Become(w, s) /\ s.pc \in {"idle", "start_dup"}
    BY <1>5 DEF DiscardStaged, Finish, Idle
  <2>2. StagedShrinks /\ (NoFailure \/ Failure) BY <1>5, TriedShrinks DEF DiscardStaged
  <2> QED BY <1>5, <2>1, <2>2, QuietMove DEF DiscardStaged
<1> QED BY <1>1, <1>2, <1>3, <1>4, <1>5

\* AppendChunk, but for the write, and FinalizeUpload up to the duplicate check.
LEMMA RequestQuiet ==
  ASSUME TypeOK, NEW w \in Workers,
         \/ \E u \in Uploads : AppendBegin(w, u) \/ FinalizeBegin(w, u) \/ FinalizeMissing(w, u)
         \/ AppendNothing(w) \/ AppendSave(w)
         \/ FinalizeRefuse(w) \/ FinalizeReset(w) \/ FinalizeVerify(w) \/ FinalizeNoDuplicate(w)
  PROVE  QuietStep
<1> USE DEF TypeOK, At
<1>1. ASSUME NEW u \in Uploads, AppendBegin(w, u) PROVE QuietStep
  <2> DEFINE s == [Step("append_write", u, Copy(u)) EXCEPT !.offset = Size(u)]
  <2>1. s.pc = "append_write" /\ s.upload = u /\ s.offset = Size(u) BY DEF Step
  <2>2. \A v \in Workers : worker'[v] = IF v = w THEN s ELSE worker[v] BY <1>1 DEF AppendBegin, Become
  <2> HIDE DEF s
  <2>3. UNCHANGED <<stores, clock, admin, budget>> /\ worker[w].pc = "idle" BY <1>1 DEF AppendBegin
  <2>4. OpensAtEnd(w)' BY <2>1, <2>2, <2>3 DEF OpensAtEnd, Size
  <2>5. worker'[w].pc = "append_write" BY <2>1, <2>2
  <2> QED BY <2>2, <2>3, <2>4, <2>5 DEF QuietStep, NoFailure
<1>2. CASE \E u \in Uploads : FinalizeBegin(w, u) \/ FinalizeMissing(w, u)
  <2>1. PICK s : Become(w, s) /\ s.pc \in {"final_verify", "final_list"}
    BY <1>2 DEF FinalizeBegin, FinalizeMissing, Step
  <2>2. (NoFailure \/ Failure) /\ UNCHANGED <<stores, clock, admin>> /\ worker[w].pc = "idle"
    BY <1>2 DEF FinalizeBegin, FinalizeMissing, FoundMissing, NoFailure
  <2> QED BY <2>1, <2>2, QuietMove
<1>3. CASE AppendNothing(w) \/ AppendSave(w)
  <2>1. PICK s : Become(w, s) /\ s.pc \in {"idle", "append_save"}
    BY <1>3 DEF AppendNothing, AppendEnd, AppendSave, Finish, Idle, Step
  <2> QED BY <1>3, <2>1, QuietMove DEF AppendNothing, AppendSave, NoFailure
<1>4. CASE FinalizeRefuse(w) \/ FinalizeReset(w)
  <2>1. Become(w, Idle) /\ Idle.pc = "idle" BY <1>4 DEF FinalizeRefuse, FinalizeReset, Finish, Idle
  <2>2. /\ StagedShrinks /\ (NoFailure \/ Failure)
        /\ UNCHANGED <<files, index, clock, admin>> /\ worker[w].pc = "final_verify"
    BY <1>4 DEF FinalizeRefuse, FinalizeReset, RemoveStaged
  <2> QED BY <2>1, <2>2, QuietMove
<1>5. CASE FinalizeVerify(w)
  <2>1. PICK s : Become(w, s) /\ s.pc = "final_dup" BY <1>5 DEF FinalizeVerify, Step
  <2> QED BY <1>5, <2>1, QuietMove DEF FinalizeVerify, NoFailure
<1>6. CASE FinalizeNoDuplicate(w)
  <2>1. worker[w] \in SessionState BY <1>6, WorkerFields DEF FinalizeNoDuplicate
  <2>2. PICK s : Become(w, s) /\ s.pc \in {"final_store", "idle"}
    BY <1>6, <2>1 DEF FinalizeNoDuplicate, Finish, Advance, Idle, SessionState
  <2> QED BY <1>6, <2>2, QuietMove DEF FinalizeNoDuplicate
<1> QED BY <1>1, <1>2, <1>3, <1>4, <1>5, <1>6

\* Time, the cleanup loop and steps that change nothing.
LEMMA OthersQuiet ==
  ASSUME TypeOK, (\E u \in Uploads : Expire(u)) \/ Cleanup \/ UNCHANGED vars
  PROVE  QuietStep
BY DEF TypeOK, Expire, Cleanup, CleanupSelect, CleanupDelete, CleanupRemove, vars, QuietStep, NoFailure

\* What the rest of the argument is about.
CommitStep(w) ==
  \/ FinalizeDuplicate(w) \/ FinalizeStore(w) \/ FinalizeCopy(w) \/ FinalizeCopied(w) \/ FinalizeRename(w)
  \/ FinalizeStoreError(w) \/ FinalizePrune(w) \/ FinalizeDelete(w) \/ FinalizeFiles(w)
  \/ FinalizeUpsert(w) \/ FinalizeReconcile(w) \/ FinalizeSave(w)

LEMMA StepKinds ==
  ASSUME TypeOK, [Next]_vars
  PROVE  \/ QuietStep
         \/ \E w \in Workers, n \in 1..Blocks, damaged \in BOOLEAN : AppendBlocks(w, n, damaged)
         \/ \E w \in Workers : CommitStep(w)
         \/ Administer \/ Restart
<1>1. ASSUME NEW w \in Workers, Request(w) \/ Handle(w)
      PROVE  \/ QuietStep
             \/ \E n \in 1..Blocks, damaged \in BOOLEAN : AppendBlocks(w, n, damaged)
             \/ CommitStep(w)
  BY <1>1, StartQuiet, RequestQuiet DEF Request, Handle, AppendWrite, CommitStep
<1> QED BY <1>1, OthersQuiet DEF Next

-----------------------------------------------------------------------------
(* Steps that fail are counted *)

\* What retention has not yet made up for.
Pending == Interruptions - budget.settled

LEMMA Spent ==
  ASSUME TypeOK, BoundsLeft, \/ NoFailure \/ Failure \/ CatchUp \/ Spend("damaged") \/ Spend("expiries")
                             \/ Disturb("crashes") \/ Disturb("deletes")
  PROVE  /\ BoundsLeft'
         /\ Pending \in Nat /\ Pending' \in Nat
         /\ ~CatchUp \/ NoFailure \/ Failure => Pending' >= Pending
         /\ Undisturbed' => Undisturbed
         /\ Failure \/ Disturb("crashes") => Pending' = Pending + 1 /\ ~Undisturbed'
         /\ Disturb("deletes") => ~Undisturbed'
<1> USE BoundsAssumption DEF TypeOK, BoundsLeft, Interruptions, Undisturbed, Failure, NoFailure, CatchUp,
                             Disturb, Spend, Pending
<1>1. CASE NoFailure BY <1>1
<1>2. CASE Failure \/ Disturb("crashes") BY <1>2
<1>3. CASE Spend("damaged") \/ Spend("expiries") BY <1>3
<1>4. CASE Disturb("deletes") BY <1>4
<1>5. CASE CatchUp BY <1>5
<1> QED BY <1>1, <1>2, <1>3, <1>4, <1>5

-----------------------------------------------------------------------------
(* Steps of commitNewArchive, and the write of AppendChunk *)

\* Where a handler goes, and what it takes along.
LEMMA CommitMoves ==
  ASSUME TypeOK, NEW w \in Workers, CommitStep(w)
  PROVE  /\ OnlyMoves(w) /\ HoldsNamespace(w) /\ worker[w] \in SessionState
         /\ FinalizeDuplicate(w) => /\ At(w, "final_dup") /\ At(w, "final_save")'
                                    /\ worker'[w].sess.storedAs \in index
         /\ FinalizeStore(w) \/ FinalizeRename(w) => At(w, "final_prune")' /\ worker'[w].sess = worker[w].sess
         /\ FinalizeCopy(w) => At(w, "final_copy")' /\ worker'[w].sess = worker[w].sess
         /\ FinalizeCopied(w) => At(w, "final_copy") /\ At(w, "final_rename")'
         /\ FinalizeRename(w) => At(w, "final_rename")
         /\ FinalizeStoreError(w) => At(w, "idle")'
         /\ FinalizePrune(w) => /\ At(w, "final_prune") /\ worker'[w].sess = worker[w].sess
                                /\ \/ At(w, "final_files")' /\ ((Surplus = {} /\ CatchUp) \/ Failure)
                                   \/ /\ At(w, "final_delete")' /\ NoFailure
                                      /\ worker'[w].listing = Listed
                                      /\ worker'[w].doomed = Surplus /\ Surplus # {}
         /\ FinalizeDelete(w) => /\ At(w, "final_delete") /\ worker'[w].sess = worker[w].sess
                                 /\ At(w, "final_files")' \/ worker'[w] = worker[w]
         /\ FinalizeFiles(w) => /\ At(w, "final_files") /\ At(w, "final_upsert")'
                                /\ worker'[w].sess = worker[w].sess
                                /\ (worker'[w].listing = Listed /\ NoFailure) \/ Failure
         /\ FinalizeUpsert(w) => /\ At(w, "final_upsert") /\ At(w, "final_reconcile")'
                                 /\ worker'[w].sess = worker[w].sess
                                 /\ worker'[w].listing = worker[w].listing
         /\ FinalizeReconcile(w) => /\ At(w, "final_reconcile") /\ At(w, "final_save")'
                                    /\ worker'[w].sess.archive = worker[w].sess.archive
                                    /\ worker'[w].sess.storedAs = worker[w].sess.archive
         /\ FinalizeSave(w) => At(w, "final_save") /\ At(w, "idle")'
<1> USE DEF TypeOK, At
<1>0. worker[w] \in SessionState /\ HoldsNamespace(w)
  BY WorkerFields DEF CommitStep, FinalizeDuplicate, FinalizeStore, FinalizeCopy, FinalizeCopied, FinalizeRename,
     FinalizeStoreError, FinalizePrune, FinalizeDelete, FinalizeFiles, FinalizeUpsert, FinalizeReconcile,
     FinalizeSave, HoldsNamespace
<1>1. worker[w].sess \in Session /\ worker \in [Workers -> WorkerState] BY <1>0 DEF SessionState
<1>2. \A s : Become(w, s) => OnlyMoves(w) /\ worker'[w] = s BY DEF Become, OnlyMoves
<1>3. \A pc : Advance(w, pc) => /\ OnlyMoves(w) /\ worker'[w].pc = pc
                                /\ worker'[w].sess = worker[w].sess /\ worker'[w].listing = worker[w].listing
  <2> SUFFICES ASSUME NEW pc, Advance(w, pc)
               PROVE  /\ OnlyMoves(w) /\ worker'[w].pc = pc
                      /\ worker'[w].sess = worker[w].sess /\ worker'[w].listing = worker[w].listing
    OBVIOUS
  <2> QED BY <1>0 DEF Advance, Become, OnlyMoves, SessionState
<1>4. Finish(w) => OnlyMoves(w) /\ worker'[w].pc = "idle" BY <1>2 DEF Finish, Idle
<1>5. FinalizeDuplicate(w) => /\ OnlyMoves(w) /\ worker[w].pc = "final_dup" /\ worker'[w].pc = "final_save"
                              /\ worker'[w].sess.storedAs \in index
  <2> SUFFICES ASSUME FinalizeDuplicate(w)
               PROVE  /\ OnlyMoves(w) /\ worker[w].pc = "final_dup" /\ worker'[w].pc = "final_save"
                      /\ worker'[w].sess.storedAs \in index
    OBVIOUS
  <2>1. PICK b \in index : Become(w, Step("final_save", worker[w].upload, Completed(worker[w].sess, b)))
    BY DEF FinalizeDuplicate, Duplicates
  <2>2. Completed(worker[w].sess, b).storedAs = b BY <1>1 DEF Completed, Session
  <2> QED BY <1>2, <2>1, <2>2 DEF FinalizeDuplicate, Step
<1>6. FinalizeStore(w) \/ FinalizeRename(w) =>
        OnlyMoves(w) /\ worker'[w].pc = "final_prune" /\ worker'[w].sess = worker[w].sess
  BY <1>3 DEF FinalizeStore, FinalizeRename
<1>7. FinalizeCopy(w) => OnlyMoves(w) /\ worker'[w].pc = "final_copy" /\ worker'[w].sess = worker[w].sess
  <2>1. FinalizeCopy(w) => Become(w, [Step("final_copy", worker[w].upload, worker[w].sess)
                                        EXCEPT !.source = staged[worker[w].upload].data])
    BY DEF FinalizeCopy
  <2>2. LET s == [Step("final_copy", worker[w].upload, worker[w].sess)
                    EXCEPT !.source = staged[worker[w].upload].data]
        IN  s.pc = "final_copy" /\ s.sess = worker[w].sess
    BY DEF Step
  <2> QED BY <1>2, <2>1, <2>2
<1>8. FinalizeCopied(w) => OnlyMoves(w) /\ worker[w].pc = "final_copy" /\ worker'[w].pc = "final_rename"
  BY <1>2 DEF FinalizeCopied, Step
<1>9. FinalizeStoreError(w) \/ FinalizeSave(w) => OnlyMoves(w) /\ worker'[w].pc = "idle"
  BY <1>4 DEF FinalizeStoreError, FinalizeSave
<1>10. ASSUME FinalizePrune(w)
       PROVE  /\ OnlyMoves(w) /\ worker[w].pc = "final_prune" /\ worker'[w].sess = worker[w].sess
              /\ \/ worker'[w].pc = "final_files" /\ ((Surplus = {} /\ CatchUp) \/ Failure)
                 \/ /\ worker'[w].pc = "final_delete" /\ NoFailure
                    /\ worker'[w].listing = Listed
                    /\ worker'[w].doomed = Surplus /\ Surplus # {}
  <2>1. CASE Become(w, [worker[w] EXCEPT !.pc = "final_delete", !.listing = Listed, !.doomed = Surplus])
               /\ Surplus # {} /\ NoFailure
    <3>1. OnlyMoves(w) /\ worker'[w] = [worker[w] EXCEPT !.pc = "final_delete", !.listing = Listed, !.doomed = Surplus]
      BY <1>2, <2>1
    <3>2. /\ worker'[w].pc = "final_delete" /\ worker'[w].sess = worker[w].sess
          /\ worker'[w].listing = Listed /\ worker'[w].doomed = Surplus
      BY <1>0, <3>1 DEF SessionState
    <3> QED BY <1>10, <2>1, <3>1, <3>2 DEF FinalizePrune
  <2>2. CASE Advance(w, "final_files") /\ ((Surplus = {} /\ CatchUp) \/ Failure)
    BY <1>3, <1>10, <2>2 DEF FinalizePrune
  <2> QED BY <1>10, <2>1, <2>2 DEF FinalizePrune
<1>15. ASSUME FinalizeDelete(w)
       PROVE  /\ OnlyMoves(w) /\ worker[w].pc = "final_delete" /\ worker'[w].sess = worker[w].sess
              /\ worker'[w].pc = "final_files" \/ worker'[w] = worker[w]
  <2>1. CASE EndPrune(w)
    BY <1>2, <1>15, <2>1 DEF FinalizeDelete, EndPrune, Step
  <2>2. CASE UNCHANGED worker
    BY <1>15, <2>2 DEF FinalizeDelete, OnlyMoves
  <2> QED BY <1>15, <2>1, <2>2 DEF FinalizeDelete
<1>11. FinalizeFiles(w) => /\ OnlyMoves(w) /\ worker[w].pc = "final_files" /\ worker'[w].pc = "final_upsert"
                           /\ worker'[w].sess = worker[w].sess
                           /\ (worker'[w].listing = Listed /\ NoFailure) \/ Failure
  <2> SUFFICES ASSUME FinalizeFiles(w)
               PROVE  /\ OnlyMoves(w) /\ worker[w].pc = "final_files" /\ worker'[w].pc = "final_upsert"
                      /\ worker'[w].sess = worker[w].sess
                      /\ (worker'[w].listing = Listed /\ NoFailure) \/ Failure
    OBVIOUS
  <2>1. PICK listing \in SUBSET Names :
          /\ ListedOrNothing(listing)
          /\ Become(w, [worker[w] EXCEPT !.pc = "final_upsert", !.listing = listing])
    BY DEF FinalizeFiles
  <2>2. OnlyMoves(w) /\ worker'[w] = [worker[w] EXCEPT !.pc = "final_upsert", !.listing = listing]
    BY <1>2, <2>1
  <2>3. /\ worker'[w].pc = "final_upsert" /\ worker'[w].sess = worker[w].sess /\ worker'[w].listing = listing
    BY <1>0, <2>2 DEF SessionState
  <2>4. (listing = Listed /\ NoFailure) \/ Failure BY <2>1 DEF ListedOrNothing
  <2>5. worker[w].pc = "final_files" BY DEF FinalizeFiles
  <2> QED BY <2>2, <2>3, <2>4, <2>5
<1>12. FinalizeUpsert(w) => /\ OnlyMoves(w) /\ worker[w].pc = "final_upsert" /\ worker'[w].pc = "final_reconcile"
                            /\ worker'[w].sess = worker[w].sess /\ worker'[w].listing = worker[w].listing
  BY <1>3 DEF FinalizeUpsert
<1>13. FinalizeReconcile(w) => /\ OnlyMoves(w) /\ worker[w].pc = "final_reconcile" /\ worker'[w].pc = "final_save"
                               /\ worker'[w].sess.archive = worker[w].sess.archive
                               /\ worker'[w].sess.storedAs = worker[w].sess.archive
  <2>1. LET s == Completed(worker[w].sess, worker[w].sess.archive)
        IN  s.archive = worker[w].sess.archive /\ s.storedAs = worker[w].sess.archive
    BY <1>1 DEF Completed, Session
  <2> QED BY <1>2, <2>1 DEF FinalizeReconcile, Step
<1>14. /\ FinalizeRename(w) => worker[w].pc = "final_rename"
       /\ FinalizeSave(w) => worker[w].pc = "final_save"
  BY DEF FinalizeRename, FinalizeSave
<1> QED BY <1>0, <1>5, <1>6, <1>7, <1>8, <1>9, <1>10, <1>11, <1>12, <1>13, <1>14, <1>15 DEF CommitStep

\* Nobody else is in commitNewArchive.
LEMMA CommitAlone ==
  ASSUME IInv, NEW w \in Workers, CommitStep(w), NEW v \in Workers, v # w
  PROVE  worker'[v] = worker[v] /\ worker[v].pc \notin FinalNsPc
BY CommitMoves DEF IInv, NamespaceLockExclusive, HoldsNamespace, OnlyMoves

\* The write ends an AppendChunk or goes on to its save.
LEMMA AppendMoves ==
  ASSUME NEW w \in Workers, NEW n, NEW damaged, AppendBlocks(w, n, damaged), TypeOK
  PROVE  OnlyMoves(w) /\ worker[w].pc = "append_write" /\ worker'[w].pc \in {"append_save", "idle"}
BY DEF AppendBlocks, AppendEnd, Finish, Become, Idle, Step, OnlyMoves, At, TypeOK

\* What is listed after a step of commitNewArchive.
LEMMA CommitFiles ==
  ASSUME IInv, NEW w \in Workers, NEW a, a = worker[w].sess.archive, CommitStep(w)
  PROVE  /\ a \in Archives /\ Snap(a) \in Names /\ Tmp(a) \in Names
         /\ FinalizeStore(w) => Listed' = Listed \cup {Snap(a)}
         /\ FinalizeCopy(w) \/ FinalizeCopied(w) => Listed' = Listed \cup {Tmp(a)}
         /\ FinalizeRename(w) => Tmp(a) \in Listed /\ Listed' = (Listed \ {Tmp(a)}) \cup {Snap(a)}
         /\ FinalizeStoreError(w) => Listed' \subseteq Listed /\ (UNCHANGED files \/ Failure)
         /\ FinalizeDelete(w) =>
              \E gone \in SUBSET Doomed(w) :
                /\ Listed' = Listed \ gone /\ files' = WithoutFiles(gone)
                /\ (gone = Doomed(w) /\ CatchUp) \/ Failure \/ (worker'[w] = worker[w] /\ NoFailure)
         /\ (FinalizeDuplicate(w) \/ FinalizePrune(w) \/ FinalizeFiles(w) \/ FinalizeUpsert(w)
                \/ FinalizeReconcile(w) \/ FinalizeSave(w)) => UNCHANGED files
<1>0. worker[w] \in SessionState BY CommitMoves DEF IInv
<1>1. /\ a \in Archives /\ Snap(a) \in Names /\ Tmp(a) \in Names /\ Tmp(a) # Snap(a)
      /\ files \in [Names -> File]
  BY <1>0, TmpSnap DEF SessionState, Session, IInv, TypeOK
<1>2. ASSUME NEW f, f.data = Declared PROVE f # NoFile
  BY <1>2, DeclaredBlocks, BlocksAssumption DEF NoFile
<1>3. ASSUME FinalizeStore(w) PROVE Listed' = Listed \cup {Snap(a)}
  <2>1. PICK f : f # NoFile /\ files' = [files EXCEPT ![Snap(a)] = f] BY <1>3 DEF FinalizeStore
  <2> QED BY <1>1, <2>1 DEF Listed
<1>4. ASSUME FinalizeCopy(w) \/ FinalizeCopied(w)
      PROVE  Listed' = Listed \cup {Tmp(a)}
  <2>1. PICK f : f.mtime = clock + 1 /\ files' = [files EXCEPT ![Tmp(a)] = f]
    BY <1>4 DEF FinalizeCopy, FinalizeCopied
  <2>2. f # NoFile BY <2>1 DEF NoFile, IInv, TypeOK
  <2> QED BY <1>1, <2>1, <2>2 DEF Listed
<1>5. ASSUME FinalizeRename(w) PROVE Tmp(a) \in Listed /\ Listed' = (Listed \ {Tmp(a)}) \cup {Snap(a)}
  <2>1. files[Tmp(a)] # NoFile
    BY <1>2, <1>5 DEF FinalizeRename, IInv, CopyVerified
  <2>2. files' = [files EXCEPT ![Snap(a)] = files[Tmp(a)], ![Tmp(a)] = NoFile] BY <1>5 DEF FinalizeRename
  <2> QED BY <1>1, <2>1, <2>2 DEF Listed
<1>6. \A gone : files' = WithoutFiles(gone) => Listed' = Listed \ gone
  BY DEF WithoutFiles, Listed
<1>7. ASSUME FinalizeStoreError(w) PROVE Listed' \subseteq Listed /\ (UNCHANGED files \/ Failure)
  <2>1. CASE UNCHANGED files BY <2>1 DEF Listed
  <2>2. CASE (\E gone \in SUBSET {Tmp(worker[w].sess.archive)} : files' = WithoutFiles(gone)) /\ Failure
    BY <1>6, <2>2
  <2> QED BY <1>7, <2>1, <2>2 DEF FinalizeStoreError
<1>8. ASSUME FinalizeDelete(w)
      PROVE  \E gone \in SUBSET Doomed(w) :
               /\ Listed' = Listed \ gone /\ files' = WithoutFiles(gone)
               /\ (gone = Doomed(w) /\ CatchUp) \/ Failure \/ (worker'[w] = worker[w] /\ NoFailure)
  <2>1. CASE UNCHANGED files
    <3>1. files' = WithoutFiles({}) /\ Listed' = Listed BY <1>1, <2>1 DEF WithoutFiles, Listed
    <3>2. CASE Doomed(w) = {} /\ CatchUp BY <3>1, <3>2
    <3>3. CASE Failure BY <3>1, <3>3
    <3>4. ASSUME NEW n \in Doomed(w), files' = WithoutFiles({n}) PROVE FALSE
      <4>1. n \in Names /\ files[n] # NoFile BY DEF Doomed, Listed
      <4> QED BY <2>1, <3>4, <4>1 DEF WithoutFiles
    <3> QED BY <1>8, <3>2, <3>3, <3>4 DEF FinalizeDelete
  <2>2. ASSUME NEW n \in Doomed(w), files' = WithoutFiles({n}),
               IF Doomed(w) = {n} THEN EndPrune(w) /\ CatchUp ELSE UNCHANGED worker /\ NoFailure
        PROVE  \E gone \in SUBSET Doomed(w) :
                 /\ Listed' = Listed \ gone /\ files' = WithoutFiles(gone)
                 /\ (gone = Doomed(w) /\ CatchUp) \/ Failure \/ (worker'[w] = worker[w] /\ NoFailure)
    <3>1. Listed' = Listed \ {n} BY <1>6, <2>2
    <3>2. CASE Doomed(w) = {n} BY <2>2, <3>1, <3>2
    <3>3. CASE Doomed(w) # {n} BY <2>2, <3>1, <3>3
    <3> QED BY <3>2, <3>3
  <2> QED BY <1>8, <2>1, <2>2 DEF FinalizeDelete
<1>9. ASSUME FinalizeDuplicate(w) \/ FinalizePrune(w) \/ FinalizeFiles(w) \/ FinalizeUpsert(w)
               \/ FinalizeReconcile(w) \/ FinalizeSave(w)
      PROVE  UNCHANGED files
  BY <1>9 DEF FinalizeDuplicate, FinalizePrune, FinalizeFiles, FinalizeUpsert, FinalizeReconcile, FinalizeSave
<1> QED BY <1>1, <1>3, <1>4, <1>5, <1>7, <1>8, <1>9

-----------------------------------------------------------------------------
(* The order of blocks *)

\* Files that stay or go keep the order.
LEMMA OrderKept ==
  ASSUME TypeOK, StagedInOrder, StagedShrinks,
         \A v \in Workers : At(v, "append_write")' =>
           (worker'[v] = worker[v] /\ worker[v].upload \in Uploads) \/ OpensAtEnd(v)'
  PROVE  StagedInOrder'
<1>1. \A u \in Uploads : \/ staged'[u].data = staged[u].data
                         \/ staged'[u].data = <<>>
  BY DEF NoFile
<1>2. Len(<<>>) = 0 /\ \A i \in 1..0 : FALSE BY EmptySeq
<1>3. \A u \in Uploads : Size(u)' = Size(u) \/ Size(u)' = 0 BY <1>1, <1>2 DEF Size
<1>4. ASSUME NEW v \in Workers, At(v, "append_write")'
      PROVE  Size(worker[v].upload)' \in {0, worker'[v].offset}
  <2>1. CASE worker'[v] = worker[v] /\ worker[v].upload \in Uploads
    <3>1. Size(worker[v].upload) \in {0, worker[v].offset} BY <1>4, <2>1 DEF StagedInOrder, At
    <3>2. Size(worker[v].upload)' = Size(worker'[v].upload) \/ Size(worker[v].upload)' = 0
      BY <1>1, <1>2, <2>1 DEF Size
    <3> QED BY <2>1, <3>1, <3>2
  <2>2. CASE OpensAtEnd(v)' BY <1>4, <2>2 DEF OpensAtEnd
  <2> QED BY <1>4, <2>1, <2>2
<1>5. ASSUME NEW u \in Uploads, NEW i \in 1..Size(u)'
      PROVE  staged'[u].data[i] \in {0} \cup i..Blocks
  <2>1. staged'[u].data = staged[u].data BY <1>1, <1>2, <1>5 DEF Size
  <2>2. i \in 1..Size(u) BY <1>5, <2>1 DEF Size
  <2> QED BY <2>1, <2>2 DEF StagedInOrder
<1> QED BY <1>4, <1>5 DEF StagedInOrder

LEMMA OrderStep ==
  ASSUME IInv, StagedInOrder, [Next]_vars
  PROVE  StagedInOrder'
<1> USE DEF IInv
<1>0. \A v \in Workers : worker[v].pc \in SessionPc => worker[v].upload \in Uploads
  BY WorkerFields DEF TypeOK, SessionState
<1>1. CASE QuietStep
  BY <1>0, <1>1, OrderKept DEF QuietStep, At
<1>2. ASSUME NEW w \in Workers, NEW n \in 1..Blocks, NEW damaged \in BOOLEAN, AppendBlocks(w, n, damaged)
      PROVE  StagedInOrder'
  <2>1. OnlyMoves(w) /\ worker[w].pc = "append_write" /\ worker'[w].pc # "append_write"
    BY <1>2, AppendMoves
  <2>2. PICK up \in Uploads, offset \in 0..Blocks : up = worker[w].upload /\ offset = worker[w].offset
    BY <2>1, WorkerFields DEF TypeOK, SessionState
  <2> DEFINE chunk == Chunk(offset, n, damaged)
             old   == staged[up].data
  <2>3. offset + n <= Blocks /\ staged' = [staged EXCEPT ![up] = [data |-> old \o chunk, mtime |-> clock + 1]]
    BY <1>2, <2>2 DEF AppendBlocks
  <2>4. chunk \in Seq(BlockValue) /\ Len(chunk) = n /\ \A i \in 1..n : chunk[i] \in {0} \cup {offset + i}
    BY <2>2, <2>3, BlocksAssumption DEF Chunk, BlockValue
  <2> HIDE DEF chunk
  <2>5. old \in Seq(BlockValue) /\ Len(old) \in Nat /\ Len(old) <= offset
    <3>1. old \in Seq(BlockValue) BY DEF TypeOK, File
    <3>2. Len(old) <= offset BY <2>1, <2>2 DEF StagedBounded, At, Size
    <3> QED BY <3>1, <3>2, LenProperties
  <2>6. /\ Len(old \o chunk) = Len(old) + n
        /\ \A i \in 1..(Len(old) + n) : (old \o chunk)[i] = IF i <= Len(old) THEN old[i] ELSE chunk[i - Len(old)]
    BY <2>4, <2>5, ConcatProperties
  <2>7. \A i \in 1..Len(old) : old[i] \in {0} \cup i..Blocks BY <2>2 DEF StagedInOrder, Size
  <2> HIDE DEF old
  <2>8. \A i \in 1..(Len(old) + n) : (old \o chunk)[i] \in {0} \cup i..Blocks
    <3> SUFFICES ASSUME NEW i \in 1..(Len(old) + n) PROVE (old \o chunk)[i] \in {0} \cup i..Blocks
      OBVIOUS
    <3>1. CASE i <= Len(old) BY <2>5, <2>6, <2>7, <3>1
    <3>2. CASE i > Len(old)
      <4>1. i - Len(old) \in 1..n /\ (old \o chunk)[i] = chunk[i - Len(old)] BY <2>5, <2>6, <3>2
      <4>2. chunk[i - Len(old)] \in {0} \cup {offset + (i - Len(old))} BY <2>4, <4>1
      <4>3. offset + (i - Len(old)) \in i..Blocks
        <5>1. PICK m \in Nat : m = Len(old) BY <2>5
        <5>2. m <= offset /\ offset + n <= Blocks /\ i - m <= n /\ i \in Int /\ offset \in Int /\ n \in Int /\ Blocks \in Int
          BY <2>2, <2>3, <2>5, <4>1, <5>1, BlocksAssumption
        <5> QED BY <5>1, <5>2
      <4> QED BY <4>1, <4>2, <4>3
    <3>3. i \in Int /\ Len(old) \in Int BY <2>5, BlocksAssumption
    <3>4. i <= Len(old) \/ i > Len(old) BY <3>3
    <3> QED BY <3>1, <3>2, <3>4
  <2>9. staged'[up].data = old \o chunk /\ \A u \in Uploads \ {up} : staged'[u] = staged[u]
    BY <2>3 DEF TypeOK
  <2>10. \A u \in Uploads : \A i \in 1..Size(u)' : staged'[u].data[i] \in {0} \cup i..Blocks
    <3>1. CASE \A u \in Uploads \ {up} : \A i \in 1..Size(u)' : staged'[u].data[i] \in {0} \cup i..Blocks
      BY <2>6, <2>8, <2>9, <3>1 DEF Size
    <3>2. \A u \in Uploads \ {up} : \A i \in 1..Size(u)' : staged'[u].data[i] \in {0} \cup i..Blocks
      BY <2>9 DEF Size, StagedInOrder
    <3> QED BY <3>1, <3>2
  <2>11. \A v \in Workers : At(v, "append_write")' =>
           /\ At(v, "append_write") /\ worker'[v] = worker[v]
           /\ worker[v].upload \in Uploads \ {up}
    BY <1>0, <2>1, <2>2 DEF OnlyMoves, At, UploadLockExclusive, HoldsUpload
  <2> QED BY <2>9, <2>10, <2>11 DEF StagedInOrder, Size
<1>3. ASSUME NEW w \in Workers, CommitStep(w)
      PROVE  StagedInOrder'
  <2>1. OnlyMoves(w) /\ worker'[w].pc # "append_write" BY <1>3, CommitMoves DEF At, CommitStep
  <2>2. StagedShrinks
    BY <1>3, TriedShrinks
       DEF TypeOK, CommitStep, FinalizeDuplicate, FinalizeStore, FinalizeCopy, FinalizeCopied, FinalizeRename,
           FinalizeStoreError, FinalizePrune, FinalizeDelete, FinalizeFiles, FinalizeUpsert, FinalizeReconcile,
           FinalizeSave, RemoveStaged
  <2> QED BY <1>0, <2>1, <2>2, OrderKept DEF OnlyMoves, At
<1>4. CASE Administer \/ Restart
  <2>1. UNCHANGED staged /\ \A v \in Workers : worker'[v] = worker[v] \/ worker'[v].pc = "idle"
    <3>1. CASE Administer BY <3>1 DEF Administer, DeleteSnapshot, DeleteList, DeleteReconcile
    <3>2. CASE Restart
      <4>1. \A v \in Workers : worker'[v] = Idle BY <3>2 DEF Restart
      <4>2. Idle.pc = "idle" BY DEF Idle
      <4> QED BY <3>2, <4>1, <4>2 DEF Restart
    <3> QED BY <1>4, <3>1, <3>2
  <2> QED BY <1>0, <2>1, OrderKept DEF At
<1> QED BY <1>1, <1>2, <1>3, <1>4, StepKinds

-----------------------------------------------------------------------------
(* Modification times *)

\* Files that stay or go keep their times.
LEMMA TimesKept ==
  ASSUME TypeOK, OwnTimes, StagedShrinks, FilesShrink, clock' \in Nat, clock' >= clock
  PROVE  OwnTimes'
<1>1. \A u \in Uploads : /\ Written(staged'[u]) => staged'[u] = staged[u] /\ Written(staged[u])
                         /\ staged'[u].mtime \in Nat /\ staged'[u].mtime <= clock'
  BY DEF OwnTimes, Written, TypeOK, File, NoFile
<1>2. \A n \in Names : /\ Written(files'[n]) => files'[n] = files[n] /\ Written(files[n])
                       /\ files'[n].mtime \in Nat /\ files'[n].mtime <= clock'
  BY DEF OwnTimes, Written, TypeOK, File, NoFile
<1> QED BY <1>1, <1>2 DEF OwnTimes

LEMMA TimesStep ==
  ASSUME IInv, OwnTimes, [Next]_vars
  PROVE  OwnTimes'
<1> USE DEF IInv
<1>0. /\ clock \in Nat
      /\ \A u \in Uploads : staged[u] \in File /\ staged[u].mtime \in Nat
      /\ \A n \in Names : files[n] \in File /\ files[n].mtime \in Nat
  BY DEF TypeOK, File
<1>1. CASE QuietStep BY <1>0, <1>1, TimesKept DEF QuietStep
<1>2. ASSUME NEW w \in Workers, NEW n \in 1..Blocks, NEW damaged \in BOOLEAN, AppendBlocks(w, n, damaged)
      PROVE  OwnTimes'
  <2>1. PICK up, f : /\ staged' = [staged EXCEPT ![up] = f] /\ f.mtime = clock + 1
                     /\ clock' = clock + 1 /\ UNCHANGED files
    <3>1. PICK data : staged' = [staged EXCEPT ![worker[w].upload] = [data |-> data, mtime |-> clock + 1]]
      BY <1>2 DEF AppendBlocks
    <3>2. [data |-> data, mtime |-> clock + 1].mtime = clock + 1 OBVIOUS
    <3>3. clock' = clock + 1 /\ UNCHANGED files BY <1>2 DEF AppendBlocks
    <3> QED BY <3>1, <3>2, <3>3
  <2>2. \A u \in Uploads : staged'[u] = staged[u] \/ (u = up /\ staged'[u].mtime = clock + 1)
    BY <2>1 DEF TypeOK
  <2> QED BY <1>0, <2>1, <2>2 DEF OwnTimes
<1>3. ASSUME NEW w \in Workers, CommitStep(w)
      PROVE  OwnTimes'
  <2>0. worker[w] \in SessionState BY <1>3, CommitMoves
  <2>1. PICK a \in Archives, u \in Uploads : a = worker[w].sess.archive /\ u = worker[w].upload
    BY <2>0 DEF SessionState, Session
  <2>2. Snap(a) \in Names /\ Tmp(a) \in Names /\ Tmp(a) # Snap(a) BY TmpSnap
  <2>3. CASE FinalizeStore(w)
    <3>1. /\ staged' = [staged EXCEPT ![u] = NoFile] /\ files' = [files EXCEPT ![Snap(a)] = staged[u]]
          /\ clock' = clock /\ Written(staged[u])
      BY <2>1, <2>3 DEF FinalizeStore, RemoveStaged, Written
    <3>2. \A v \in Uploads : v # u => staged'[v] = staged[v] BY <3>1 DEF TypeOK
    <3>3. staged'[u] = NoFile BY <3>1 DEF TypeOK
    <3>4. files'[Snap(a)] = staged[u] /\ \A n \in Names : n # Snap(a) => files'[n] = files[n]
      BY <2>2, <3>1 DEF TypeOK
    <3>5. NoFile.mtime = 0 /\ ~Written(NoFile) BY DEF NoFile, Written
    <3> HIDE DEF Written
    <3>6. /\ \A v \in Uploads : staged'[v].mtime <= clock' /\ (Written(staged'[v]) => v # u /\ staged'[v] = staged[v])
          /\ \A n \in Names : files'[n].mtime <= clock'
      BY <1>0, <3>1, <3>2, <3>3, <3>4, <3>5 DEF OwnTimes
    <3>7. \A m, n \in Names :
            Written(files'[m]) /\ Written(files'[n]) /\ files'[m].mtime = files'[n].mtime => m = n
      BY <3>1, <3>4 DEF OwnTimes
    <3>8. \A v \in Uploads, n \in Names :
            Written(staged'[v]) /\ Written(files'[n]) => staged'[v].mtime # files'[n].mtime
      BY <3>1, <3>4, <3>6 DEF OwnTimes
    <3>9. \A x, y \in Uploads :
            Written(staged'[x]) /\ Written(staged'[y]) /\ staged'[x].mtime = staged'[y].mtime => x = y
      BY <3>6 DEF OwnTimes
    <3> QED BY <3>6, <3>7, <3>8, <3>9 DEF OwnTimes, Written
  <2>4. CASE FinalizeCopy(w) \/ FinalizeCopied(w)
    <3>1. PICK f : /\ files' = [files EXCEPT ![Tmp(a)] = f] /\ f.mtime = clock + 1
                   /\ clock' = clock + 1 /\ UNCHANGED staged
      BY <2>1, <2>4 DEF FinalizeCopy, FinalizeCopied
    <3>2. \A n \in Names : files'[n] = files[n] \/ (n = Tmp(a) /\ files'[n].mtime = clock + 1)
      BY <3>1 DEF TypeOK
    <3> QED BY <1>0, <3>1, <3>2 DEF OwnTimes
  <2>5. CASE FinalizeRename(w)
    <3>1. /\ files' = [files EXCEPT ![Snap(a)] = files[Tmp(a)], ![Tmp(a)] = NoFile]
          /\ StagedShrinks /\ clock' = clock
      BY <2>1, <2>5, TriedShrinks DEF FinalizeRename, TypeOK
    <3>2. /\ files'[Snap(a)] = files[Tmp(a)] /\ files'[Tmp(a)] = NoFile
          /\ \A n \in Names : n \notin {Snap(a), Tmp(a)} => files'[n] = files[n]
      BY <2>2, <3>1 DEF TypeOK
    <3>3. NoFile.mtime = 0 /\ ~Written(NoFile) BY DEF NoFile, Written
    <3>4. \A v \in Uploads : staged'[v] = staged[v] \/ staged'[v] = NoFile BY <3>1
    <3> HIDE DEF Written
    <3>5. /\ \A v \in Uploads : staged'[v].mtime <= clock' /\ (Written(staged'[v]) => staged'[v] = staged[v])
          /\ \A n \in Names : files'[n].mtime <= clock'
      <4>1. \A v \in Uploads : staged'[v].mtime <= clock' BY <1>0, <3>1, <3>3, <3>4 DEF OwnTimes
      <4>2. \A v \in Uploads : Written(staged'[v]) => staged'[v] = staged[v] BY <3>3, <3>4
      <4>3. \A n \in Names : files[n].mtime <= clock BY DEF OwnTimes
      <4>4. \A n \in Names : files'[n] \in {NoFile, files[Tmp(a)], files[n]} BY <3>2
      <4>5. clock \in Nat /\ clock' = clock /\ Tmp(a) \in Names /\ NoFile.mtime = 0 BY <1>0, <2>2, <3>1, <3>3
      <4>6. \A n \in Names : files'[n].mtime <= clock'
        <5> SUFFICES ASSUME NEW n \in Names PROVE files'[n].mtime <= clock'
          OBVIOUS
        <5>1. \/ files'[n].mtime = 0
              \/ files'[n].mtime = files[Tmp(a)].mtime
              \/ files'[n].mtime = files[n].mtime
          BY <4>4, <4>5
        <5> QED BY ONLY <4>3, <4>5, <5>1
      <4> QED BY <4>1, <4>2, <4>6
    <3>6. \A m, n \in Names :
            Written(files'[m]) /\ Written(files'[n]) /\ files'[m].mtime = files'[n].mtime => m = n
      BY <2>2, <3>2, <3>3 DEF OwnTimes
    <3>7. \A v \in Uploads, n \in Names :
            Written(staged'[v]) /\ Written(files'[n]) => staged'[v].mtime # files'[n].mtime
      BY <2>2, <3>2, <3>3, <3>5 DEF OwnTimes
    <3>8. \A x, y \in Uploads :
            Written(staged'[x]) /\ Written(staged'[y]) /\ staged'[x].mtime = staged'[y].mtime => x = y
      BY <3>5 DEF OwnTimes
    <3> QED BY <3>5, <3>6, <3>7, <3>8 DEF OwnTimes, Written
  <2>6. CASE FinalizeDuplicate(w) \/ FinalizeStoreError(w) \/ FinalizePrune(w) \/ FinalizeDelete(w)
               \/ FinalizeFiles(w) \/ FinalizeUpsert(w) \/ FinalizeReconcile(w) \/ FinalizeSave(w)
    <3>1. /\ UNCHANGED clock /\ StagedShrinks
          /\ UNCHANGED files \/ \E gone : files' = WithoutFiles(gone)
      BY <2>6, TriedShrinks
         DEF TypeOK, FinalizeDuplicate, FinalizeStoreError, FinalizePrune, FinalizeDelete, FinalizeFiles,
             FinalizeUpsert, FinalizeReconcile, FinalizeSave
    <3>2. FilesShrink BY <3>1 DEF WithoutFiles
    <3> QED BY <1>0, <3>1, <3>2, TimesKept
  <2> QED BY <1>3, <2>3, <2>4, <2>5, <2>6 DEF CommitStep
<1>4. CASE Administer \/ Restart
  <2>1. UNCHANGED <<staged, clock>> /\ FilesShrink
    BY <1>4 DEF Administer, DeleteSnapshot, DeleteList, DeleteReconcile, Restart, WithoutFiles
  <2> QED BY <1>0, <2>1, TimesKept
<1> QED BY <1>1, <1>2, <1>3, <1>4, StepKinds

-----------------------------------------------------------------------------
(* The number of files *)

\* Nothing that was spent comes back, a step that fails is counted, and only retention makes up.
Counted == \/ NoFailure \/ Failure \/ Spend("damaged") \/ Spend("expiries")
           \/ Disturb("crashes") \/ Disturb("deletes")

LEMMA BoundsStep ==
  ASSUME TypeOK, BoundsLeft, [Next]_vars
  PROVE  /\ BoundsLeft'
         /\ Pending \in Nat /\ Pending' \in Nat
         /\ Counted => Pending' >= Pending
         /\ QuietStep \/ Administer \/ Restart => Counted
         /\ \A w \in Workers, n \in 1..Blocks, damaged \in BOOLEAN : AppendBlocks(w, n, damaged) => Counted
         /\ \A w \in Workers : CommitStep(w) =>
              Counted \/ (CatchUp /\ (FinalizePrune(w) \/ FinalizeDelete(w)))
         /\ Failure \/ Restart => Pending' = Pending + 1
         /\ Undisturbed' => /\ Undisturbed /\ ~Failure /\ ~Restart
                            /\ \A a \in Archives : ~DeleteSnapshot(a)
<1>5. QuietStep => Counted BY DEF QuietStep, Counted
<1>6. \A w \in Workers, n \in 1..Blocks, damaged \in BOOLEAN : AppendBlocks(w, n, damaged) => Counted
  BY DEF AppendBlocks, NoFailure, Counted
<1>7. ASSUME NEW w \in Workers, CommitStep(w)
      PROVE  Counted \/ (CatchUp /\ (FinalizePrune(w) \/ FinalizeDelete(w)))
  <2>1. CASE FinalizePrune(w) \/ FinalizeDelete(w)
    BY <2>1 DEF FinalizePrune, FinalizeDelete, Counted
  <2>2. CASE ~FinalizePrune(w) /\ ~FinalizeDelete(w)
    BY <1>7, <2>2 DEF CommitStep, FinalizeDuplicate, FinalizeStore, FinalizeCopy, FinalizeCopied, FinalizeRename,
       FinalizeStoreError, FinalizeFiles, FinalizeUpsert, FinalizeReconcile, FinalizeSave,
       TryRemoveStaged, ListedOrNothing, NoFailure, Counted
  <2> QED BY <2>1, <2>2
<1>8. Administer => Counted
  BY DEF Administer, DeleteSnapshot, DeleteList, DeleteReconcile, ListedOrNothing, Counted
<1>9. Restart => Counted BY DEF Restart, Counted
<1>0. Counted \/ CatchUp
  BY <1>5, <1>6, <1>7, <1>8, <1>9, StepKinds
<1>1. Restart => Disturb("crashes") BY DEF Restart
<1>2. \A a \in Archives : DeleteSnapshot(a) => Disturb("deletes") BY DEF DeleteSnapshot
<1>3. Counted => Pending' >= Pending
  BY BoundsAssumption
     DEF Counted, NoFailure, Failure, Disturb, Spend, Pending, Interruptions, TypeOK, BoundsLeft
<1>4. \/ NoFailure \/ Failure \/ CatchUp \/ Spend("damaged") \/ Spend("expiries")
      \/ Disturb("crashes") \/ Disturb("deletes")
  BY <1>0 DEF Counted
<1> QED BY <1>1, <1>2, <1>3, <1>4, <1>5, <1>6, <1>7, <1>8, <1>9, Spent

\* A set of files that shrinks, or gains one.
LEMMA CountedFiles ==
  ASSUME NEW S, IsFiniteSet(S), NEW T, NEW n
  PROVE  /\ Cardinality(S) \in Nat
         /\ T \subseteq S => /\ IsFiniteSet(T) /\ Cardinality(T) \in Nat
                             /\ Cardinality(T) <= Cardinality(S)
         /\ T \subseteq S \cup {n} => /\ IsFiniteSet(T) /\ Cardinality(T) \in Nat
                                      /\ Cardinality(T) <= Cardinality(S) + 1
<1>1. Cardinality(S) \in Nat BY FS_CardinalityType
<1>2. IsFiniteSet(S \cup {n}) /\ Cardinality(S \cup {n}) <= Cardinality(S) + 1
  BY <1>1, FS_AddElement
<1>3. Cardinality(S \cup {n}) \in Nat BY <1>2, FS_CardinalityType
<1>4. ASSUME T \subseteq S
      PROVE  IsFiniteSet(T) /\ Cardinality(T) \in Nat /\ Cardinality(T) <= Cardinality(S)
  BY <1>4, FS_Subset, FS_CardinalityType
<1>5. ASSUME T \subseteq S \cup {n}
      PROVE  IsFiniteSet(T) /\ Cardinality(T) \in Nat /\ Cardinality(T) <= Cardinality(S \cup {n})
  BY <1>2, <1>5, FS_Subset, FS_CardinalityType
<1> QED BY <1>1, <1>2, <1>3, <1>4, <1>5

\* Some handler has put a file in the backup root and not yet asked retention.
Adding == \E w \in Workers : worker[w].pc \in AddedPc

\* Only an administrator could remove the copy, and deletes complete snapshots only.
LEMMA CopyStep ==
  ASSUME IInv, CopyListed, [Next]_vars
  PROVE  CopyListed'
<1> USE DEF IInv
<1>0. \A v \in Workers : At(v, "final_copy") => worker[v].sess.archive \in Archives
  BY WorkerFields DEF At, TypeOK, SessionState, Session
<1>1. ASSUME \A v \in Workers : At(v, "final_copy")' => worker'[v] = worker[v],
             \A a \in Archives : files'[Tmp(a)] = files[Tmp(a)]
      PROVE  CopyListed'
  BY <1>0, <1>1 DEF CopyListed, At, Listed
<1>2. CASE QuietStep BY <1>1, <1>2 DEF QuietStep, At
<1>3. ASSUME NEW w \in Workers, NEW n \in 1..Blocks, NEW damaged \in BOOLEAN, AppendBlocks(w, n, damaged)
      PROVE  CopyListed'
  <2>1. UNCHANGED files BY <1>3 DEF AppendBlocks
  <2> QED BY <1>1, <1>3, <2>1, AppendMoves DEF OnlyMoves, At
<1>4. CASE Administer \/ Restart
  <2>1. \A a \in Archives : files'[Tmp(a)] = files[Tmp(a)]
    BY <1>4, TmpSnap DEF Administer, DeleteSnapshot, DeleteList, DeleteReconcile, Restart, WithoutFiles
  <2>2. \A v \in Workers : At(v, "final_copy")' => worker'[v] = worker[v]
    <3>1. CASE Administer BY <3>1 DEF Administer, DeleteSnapshot, DeleteList, DeleteReconcile
    <3>2. CASE Restart
      <4>1. \A v \in Workers : worker'[v].pc = "idle" BY <3>2 DEF Restart, Idle
      <4> QED BY <4>1 DEF At
    <3> QED BY <1>4, <3>1, <3>2
  <2> QED BY <1>1, <2>1, <2>2
<1>5. ASSUME NEW w \in Workers, CommitStep(w)
      PROVE  CopyListed'
  <2>0. \A v \in Workers : v # w => ~At(v, "final_copy")' BY <1>5, CommitAlone DEF At
  <2>1. CASE FinalizeCopy(w)
    <3>1. worker'[w].sess = worker[w].sess BY <1>5, <2>1, CommitMoves
    <3>2. Tmp(worker[w].sess.archive) \in Listed' BY <1>5, <2>1, CommitFiles
    <3> QED BY <2>0, <3>1, <3>2 DEF CopyListed, Listed
  <2>2. CASE ~FinalizeCopy(w)
    <3>1. ~At(w, "final_copy")' BY <1>5, <2>2, CommitMoves DEF CommitStep, At
    <3> QED BY <2>0, <3>1 DEF CopyListed
  <2> QED BY <2>1, <2>2
<1> QED BY <1>2, <1>3, <1>4, <1>5, StepKinds

\* How many files there may be, d of them still to be pruned.
AtMost(d) == Cardinality(Listed) <= KeepLast + Pending + d

LEMMA PrunedFacts ==
  ASSUME TypeOK, BoundsLeft, Pruned, [Next]_vars
  PROVE  /\ IsFiniteSet(Listed) /\ Cardinality(Listed) \in Nat
         /\ AtMost(1)
         /\ ~Adding => AtMost(0)
         /\ Pending \in Nat /\ Pending' \in Nat /\ KeepLast \in Nat
         /\ Failure \/ Restart => Pending' = Pending + 1
<1>1. IsFiniteSet(Listed) /\ Cardinality(Listed) \in Nat
  BY FS_CardinalityType DEF Pruned
<1>2. Pending \in Nat /\ Pending' \in Nat /\ (Failure \/ Restart => Pending' = Pending + 1)
  BY BoundsStep
<1>3. KeepLast \in Nat BY KeepLastAssumption
<1>4. Cardinality(Listed) <= KeepLast + Pending + (IF Adding THEN 1 ELSE 0)
  BY DEF Pruned, Adding, Pending
<1> QED BY <1>1, <1>2, <1>3, <1>4 DEF AtMost

\* Retention is asked after each store, and takes all but KeepLast unless it fails.
LEMMA PrunedStep ==
  ASSUME IInv, OwnTimes, BoundsLeft, CopyListed, Pruned, DeletingOlder, [Next]_vars
  PROVE  Pruned'
<1> DEFINE Fewer == IsFiniteSet(Listed') /\ AtMost(1)' /\ (Adding' \/ AtMost(0)')
<1>0. /\ IsFiniteSet(Listed) /\ Cardinality(Listed) \in Nat
      /\ Pending \in Nat /\ Pending' \in Nat /\ KeepLast \in Nat
  BY PrunedFacts DEF IInv
<1>1. SUFFICES Fewer
  <2>1. IsFiniteSet(Listed') => Cardinality(Listed') \in Nat BY FS_CardinalityType
  <2>2. CASE Adding' BY <1>0, <2>1, <2>2 DEF Pruned, Adding, AtMost, Pending
  <2>3. CASE ~Adding' BY <1>0, <2>1, <2>3 DEF Pruned, Adding, AtMost, Pending
  <2> QED BY <2>2, <2>3
\* Nothing is added, and no handler leaves the steps before retention.
<1>2. ASSUME Listed' \subseteq Listed, Adding => Adding' \/ Failure \/ Restart, Pending' >= Pending
      PROVE  Fewer
  <2>1. IsFiniteSet(Listed') /\ Cardinality(Listed') \in Nat /\ Cardinality(Listed') <= Cardinality(Listed)
    BY <1>0, <1>2, CountedFiles
  <2>2. AtMost(1)
    BY PrunedFacts DEF IInv
  <2>3. AtMost(1)' BY <1>0, <1>2, <2>1, <2>2 DEF AtMost
  <2>4. AtMost(0) => AtMost(0)' BY <1>0, <1>2, <2>1 DEF AtMost
  <2>5. Pending' = Pending + 1 => AtMost(0)' BY <1>0, <2>1, <2>2 DEF AtMost
  <2>6. ~Adding => AtMost(0) BY PrunedFacts DEF IInv
  <2>7. Failure \/ Restart => Pending' = Pending + 1 BY PrunedFacts DEF IInv
  <2> QED BY <1>2, <2>1, <2>3, <2>4, <2>5, <2>6, <2>7
\* One file is added, by a handler that enters these steps.
<1>3. ASSUME NEW n, Listed' \subseteq Listed \cup {n}, ~Adding, Adding', Pending' >= Pending
       PROVE  Fewer
  <2>1. IsFiniteSet(Listed') /\ Cardinality(Listed') \in Nat /\ Cardinality(Listed') <= Cardinality(Listed) + 1
    BY <1>0, <1>3, CountedFiles
  <2>2. AtMost(0) BY <1>3, PrunedFacts DEF IInv
  <2>3. AtMost(1)' BY <1>0, <1>3, <2>1, <2>2 DEF AtMost
  <2> QED BY <1>3, <2>1, <2>3
\* Retention has taken all but the files it keeps.
<1>a. ASSUME NEW T, IsFiniteSet(T), Cardinality(T) <= KeepLast, Listed' \subseteq T
      PROVE  Fewer
  <2>1. /\ IsFiniteSet(Listed') /\ Cardinality(Listed') \in Nat /\ Cardinality(T) \in Nat
        /\ Cardinality(Listed') <= Cardinality(T)
    BY <1>a, CountedFiles
  <2>2. AtMost(0)' /\ AtMost(1)' BY <1>0, <1>a, <2>1 DEF AtMost
  <2> QED BY <2>1, <2>2
<1>4. CASE QuietStep
  <2>1. Listed' = Listed BY <1>4 DEF QuietStep, Listed
  <2>2. Adding => Adding' BY <1>4 DEF QuietStep, Adding
  <2>3. Pending' >= Pending BY <1>4, BoundsStep DEF IInv
  <2> QED BY <1>2, <2>1, <2>2, <2>3
<1>5. ASSUME NEW w \in Workers, NEW n \in 1..Blocks, NEW damaged \in BOOLEAN, AppendBlocks(w, n, damaged)
      PROVE  Fewer
  <2>1. Listed' = Listed BY <1>5 DEF AppendBlocks, Listed
  <2>2. Adding => Adding' BY <1>5, AppendMoves DEF OnlyMoves, Adding, IInv
  <2>3. Pending' >= Pending BY <1>5, BoundsStep DEF IInv
  <2> QED BY <1>2, <2>1, <2>2, <2>3
<1>6. CASE Administer \/ Restart
  <2>1. Listed' \subseteq Listed
    BY <1>6 DEF Administer, DeleteSnapshot, DeleteList, DeleteReconcile, Restart, WithoutFiles, Listed
  <2>2. Adding => Adding' \/ Restart
    BY <1>6 DEF Administer, DeleteSnapshot, DeleteList, DeleteReconcile, Adding
  <2>3. Pending' >= Pending BY <1>6, BoundsStep DEF IInv
  <2> QED BY <1>2, <2>1, <2>2, <2>3
<1>7. ASSUME NEW w \in Workers, CommitStep(w)
      PROVE  Fewer
  <2>0. PICK a : a = worker[w].sess.archive OBVIOUS
  <2>a. ~FinalizePrune(w) /\ ~FinalizeDelete(w) => Pending' >= Pending BY <1>7, BoundsStep DEF IInv
  <2>b. NoFailure \/ Failure => Pending' >= Pending BY BoundsStep DEF IInv, Counted
  <2>c. worker[w].pc \notin {"final_prune", "final_delete"} => ~FinalizePrune(w) /\ ~FinalizeDelete(w)
    BY DEF FinalizePrune, FinalizeDelete, At
  <2>1. /\ Adding <=> worker[w].pc \in AddedPc
        /\ Adding' <=> worker'[w].pc \in AddedPc
    BY <1>7, CommitAlone DEF Adding
  <2>2. CASE FinalizeStore(w)
    <3>1. ~Adding /\ Adding'
      BY <1>7, <2>1, <2>2, CommitMoves DEF IInv, At, FinalizeStore
    <3>2. Listed' \subseteq Listed \cup {Snap(a)} BY <1>7, <2>0, <2>2, CommitFiles
    <3>3. Pending' >= Pending BY <2>2, <2>a, <2>c DEF FinalizeStore, At
    <3> QED BY <1>3, <3>1, <3>2, <3>3
  <2>3. CASE FinalizeCopy(w)
    <3>1. ~Adding /\ Adding'
      BY <1>7, <2>1, <2>3, CommitMoves DEF IInv, At, FinalizeCopy
    <3>2. Listed' \subseteq Listed \cup {Tmp(a)} BY <1>7, <2>0, <2>3, CommitFiles
    <3>3. Pending' >= Pending BY <2>3, <2>a, <2>c DEF FinalizeCopy, At
    <3> QED BY <1>3, <3>1, <3>2, <3>3
  <2>4. CASE FinalizeCopied(w)
    <3>1. Adding /\ Adding' BY <1>7, <2>1, <2>4, CommitMoves DEF IInv, At
    <3>2. Listed' \subseteq Listed
      <4>1. At(w, "final_copy") BY <1>7, <2>4, CommitMoves DEF IInv
      <4>2. Tmp(a) \in Listed BY <2>0, <4>1 DEF CopyListed
      <4> QED BY <1>7, <2>0, <2>4, <4>2, CommitFiles
    <3>3. Pending' >= Pending BY <2>4, <2>a, <2>c DEF FinalizeCopied, At
    <3> QED BY <1>2, <3>1, <3>2, <3>3
  <2>5. CASE FinalizeRename(w)
    <3>1. Adding /\ Adding' BY <1>7, <2>1, <2>5, CommitMoves DEF IInv, At
    <3>2. Tmp(a) \in Listed /\ Listed' = (Listed \ {Tmp(a)}) \cup {Snap(a)} BY <1>7, <2>0, <2>5, CommitFiles
    <3>3. IsFiniteSet(Listed \ {Tmp(a)}) /\ Cardinality(Listed \ {Tmp(a)}) = Cardinality(Listed) - 1
      BY <1>0, <3>2, FS_RemoveElement
    <3>4. /\ IsFiniteSet(Listed') /\ Cardinality(Listed') \in Nat
          /\ Cardinality(Listed') <= Cardinality(Listed \ {Tmp(a)}) + 1
      BY <3>2, <3>3, CountedFiles
    <3>5. AtMost(1) BY PrunedFacts DEF IInv
    <3>7. Pending' >= Pending BY <2>5, <2>a, <2>c DEF FinalizeRename, At
    <3>6. AtMost(1)' BY <1>0, <3>3, <3>4, <3>5, <3>7 DEF AtMost
    <3> QED BY <3>1, <3>4, <3>6
  <2>6. CASE FinalizeStoreError(w)
    <3>1. Listed' \subseteq Listed BY <1>7, <2>0, <2>6, CommitFiles
    <3>2. Adding => Failure BY <2>1, <2>6 DEF FinalizeStoreError, At
    <3>3. Pending' >= Pending BY <2>6, <2>a, <2>c DEF FinalizeStoreError, At
    <3> QED BY <1>2, <3>1, <3>2, <3>3
  <2>7. CASE FinalizePrune(w)
    <3>1. UNCHANGED files BY <1>7, <2>0, <2>7, CommitFiles
    <3>2. Listed' = Listed BY <3>1 DEF Listed
    <3>3. CASE Surplus = {}
      <4>1. Listed \ Surplus = Listed BY <3>3
      <4>2. Cardinality(Listed) <= KeepLast BY <1>0, <4>1, KeptFiles DEF IInv
      <4> QED BY <1>0, <1>a, <3>2, <4>2
    <3>4. CASE Failure BY <1>2, <2>b, <3>2, <3>4
    <3>5. CASE At(w, "final_delete")' /\ NoFailure
      <4>1. Adding' BY <2>1, <3>5 DEF At
      <4> QED BY <1>2, <2>b, <3>2, <3>5, <4>1
    <3> QED BY <1>7, <2>7, <3>3, <3>4, <3>5, CommitMoves DEF IInv
  <2>9. CASE FinalizeDelete(w)
    <3>1. PICK gone \in SUBSET Doomed(w) :
            /\ Listed' = Listed \ gone
            /\ (gone = Doomed(w) /\ CatchUp) \/ Failure \/ (worker'[w] = worker[w] /\ NoFailure)
      BY <1>7, <2>0, <2>9, CommitFiles
    <3>2. At(w, "final_delete") BY <1>7, <2>9, CommitMoves DEF IInv
    <3>3. CASE gone = Doomed(w)
      <4>1. /\ Listed \subseteq worker[w].listing
            /\ IsFiniteSet(Kept(w)) /\ Cardinality(Kept(w)) = KeepLast
        BY <3>2 DEF DeletingOlder
      <4>2. Listed' \subseteq Kept(w) BY <3>1, <3>3, <4>1 DEF Doomed, Kept
      <4>3. Cardinality(Kept(w)) <= KeepLast BY <1>0, <4>1
      <4> QED BY <1>a, <4>1, <4>2, <4>3
    <3>4. CASE Failure BY <1>2, <2>b, <3>1, <3>4
    <3>5. CASE worker'[w] = worker[w] /\ NoFailure BY <1>2, <2>1, <2>b, <3>1, <3>5
    <3> QED BY <3>1, <3>3, <3>4, <3>5
  <2>8. CASE FinalizeDuplicate(w) \/ FinalizeFiles(w) \/ FinalizeUpsert(w) \/ FinalizeReconcile(w) \/ FinalizeSave(w)
    <3>1. UNCHANGED files BY <1>7, <2>0, <2>8, CommitFiles
    <3>2. Listed' = Listed BY <3>1 DEF Listed
    <3>3. ~Adding BY <1>7, <2>1, <2>8, CommitMoves DEF IInv, At
    <3>4. worker[w].pc \notin {"final_prune", "final_delete"} BY <1>7, <2>8, CommitMoves DEF IInv, At
    <3>5. Pending' >= Pending BY <2>a, <2>c, <3>4
    <3> QED BY <1>2, <3>2, <3>3, <3>5
  <2> QED BY <1>7, <2>2, <2>3, <2>4, <2>5, <2>6, <2>7, <2>8, <2>9 DEF CommitStep
<1> QED BY <1>4, <1>5, <1>6, <1>7, StepKinds DEF IInv

\* What retention has chosen stays older than what it keeps: in the meantime nothing is stored.
LEMMA DeletingStep ==
  ASSUME IInv, OwnTimes, Pruned, DeletingOlder, [Next]_vars
  PROVE  DeletingOlder'
<1> USE DEF IInv
\* Files go, and no handler begins to delete.
<1>1. ASSUME \A m \in Listed' : m \in Listed /\ files'[m] = files[m],
             \A v \in Workers : At(v, "final_delete")' => worker'[v] = worker[v]
      PROVE  DeletingOlder'
  <2> SUFFICES ASSUME NEW v \in Workers, At(v, "final_delete")'
               PROVE  /\ Listed' \subseteq worker'[v].listing
                      /\ IsFiniteSet(Kept(v)') /\ Cardinality(Kept(v)') = KeepLast
                      /\ \A m \in Kept(v)' \cap Listed', n \in Doomed(v)' : Newer(m, n)'
    BY DEF DeletingOlder
  <2>1. worker'[v] = worker[v] /\ At(v, "final_delete") BY <1>1 DEF At
  <2>2. /\ Listed \subseteq worker[v].listing
        /\ IsFiniteSet(Kept(v)) /\ Cardinality(Kept(v)) = KeepLast
        /\ \A m \in Kept(v) \cap Listed, n \in Doomed(v) : Newer(m, n)
    BY <2>1 DEF DeletingOlder
  <2>3. Kept(v)' = Kept(v) /\ Doomed(v)' \subseteq Doomed(v) /\ Doomed(v)' \subseteq Listed'
    BY <1>1, <2>1 DEF Kept, Doomed
  <2>4. \A m \in Kept(v)' \cap Listed', n \in Doomed(v)' : Newer(m, n)'
    BY <1>1, <2>2, <2>3 DEF Newer
  <2> QED BY <1>1, <2>1, <2>2, <2>3, <2>4
<1>2. UNCHANGED files => \A m \in Listed' : m \in Listed /\ files'[m] = files[m]
  BY DEF Listed
<1>3. \A gone : files' = WithoutFiles(gone) => \A m \in Listed' : m \in Listed /\ files'[m] = files[m]
  BY DEF Listed, WithoutFiles
<1>4. CASE QuietStep BY <1>1, <1>2, <1>4 DEF QuietStep, At
<1>5. ASSUME NEW w \in Workers, NEW n \in 1..Blocks, NEW damaged \in BOOLEAN, AppendBlocks(w, n, damaged)
      PROVE  DeletingOlder'
  <2>1. UNCHANGED files BY <1>5 DEF AppendBlocks
  <2> QED BY <1>1, <1>2, <1>5, <2>1, AppendMoves DEF OnlyMoves, At
<1>6. CASE Administer \/ Restart
  <2>1. UNCHANGED files \/ \E gone : files' = WithoutFiles(gone)
    BY <1>6 DEF Administer, DeleteSnapshot, DeleteList, DeleteReconcile, Restart
  <2>2. \A v \in Workers : At(v, "final_delete")' => worker'[v] = worker[v]
    <3>1. CASE Administer BY <3>1 DEF Administer, DeleteSnapshot, DeleteList, DeleteReconcile
    <3>2. CASE Restart
      <4>1. \A v \in Workers : worker'[v].pc = "idle" BY <3>2 DEF Restart, Idle
      <4> QED BY <4>1 DEF At
    <3> QED BY <1>6, <3>1, <3>2
  <2> QED BY <1>1, <1>2, <1>3, <2>1, <2>2
<1>7. ASSUME NEW w \in Workers, CommitStep(w)
      PROVE  DeletingOlder'
  <2>0. PICK a : a = worker[w].sess.archive OBVIOUS
  <2>1. \A v \in Workers : v # w => ~At(v, "final_delete")' BY <1>7, CommitAlone DEF At
  <2>2. CASE ~At(w, "final_delete")' BY <2>1, <2>2 DEF DeletingOlder
  <2>3. CASE FinalizeDelete(w) /\ worker'[w] = worker[w]
    <3>1. \E gone : files' = WithoutFiles(gone) BY <1>7, <2>0, <2>3, CommitFiles
    <3> QED BY <1>1, <1>3, <2>1, <2>3, <3>1
  <2>4. CASE FinalizePrune(w) /\ At(w, "final_delete")'
    <3>1. worker'[w].listing = Listed /\ worker'[w].doomed = Surplus /\ Surplus # {}
      BY <1>7, <2>4, CommitMoves DEF At
    <3>2. UNCHANGED files BY <1>7, <2>0, <2>4, CommitFiles
    <3>3. Listed' = Listed /\ \A m, n : Newer(m, n)' <=> Newer(m, n) BY <3>2 DEF Listed, Newer
    <3>4. Kept(w)' = Listed \ Surplus /\ Doomed(w)' \subseteq Surplus BY <3>1 DEF Kept, Doomed
    <3>5. /\ IsFiniteSet(Listed \ Surplus) /\ Cardinality(Listed \ Surplus) = KeepLast
          /\ \A m \in Listed \ Surplus, n \in Surplus : Newer(m, n)
      BY <3>1, KeptFiles DEF Pruned
    <3>6. \A v \in Workers : At(v, "final_delete")' => v = w BY <2>1
    <3>7. /\ Listed' \subseteq worker'[w].listing
          /\ IsFiniteSet(Kept(w)') /\ Cardinality(Kept(w)') = KeepLast
          /\ \A m \in Kept(w)' \cap Listed', n \in Doomed(w)' : Newer(m, n)'
      BY <3>1, <3>3, <3>4, <3>5
    <3> QED BY <3>6, <3>7 DEF DeletingOlder
  <2> QED BY <1>7, <2>2, <2>3, <2>4, CommitMoves DEF CommitStep, At
<1> QED BY <1>4, <1>5, <1>6, <1>7, StepKinds

-----------------------------------------------------------------------------
(* The index and the answers of an undisturbed Station *)

\* No handler of commitNewArchive moves, and nothing is stored, removed or listed.
Unnoticed ==
  /\ \A v \in Workers :
       worker'[v] = worker[v] \/ (worker[v].pc \notin CommitPc /\ worker'[v].pc \notin CommitPc)
  /\ index' \subseteq index
  /\ UNCHANGED <<files, admin>>

\* With no deletion and no restart the administrator has nothing to do.
LEMMA UndisturbedStep ==
  ASSUME IInv, BoundsLeft, IndexLags, [Next]_vars, Undisturbed'
  PROVE  Undisturbed /\ ~Failure /\ (Unnoticed \/ \E w \in Workers : CommitStep(w))
<1>1. Undisturbed /\ ~Failure /\ ~Restart /\ \A a \in Archives : ~DeleteSnapshot(a)
  BY BoundsStep DEF IInv
<1>2. admin.pc = "idle" BY <1>1 DEF IndexLags, Idle
<1>3. ~Administer BY <1>1, <1>2 DEF Administer, DeleteList, DeleteReconcile
<1>4. QuietStep => Unnoticed BY DEF QuietStep, Unnoticed
<1>5. ASSUME NEW w \in Workers, NEW n \in 1..Blocks, NEW damaged \in BOOLEAN, AppendBlocks(w, n, damaged)
      PROVE  Unnoticed
  <2>1. UNCHANGED <<files, index, admin>> BY <1>5 DEF AppendBlocks
  <2>2. OnlyMoves(w) /\ worker[w].pc = "append_write" /\ worker'[w].pc \in {"append_save", "idle"}
    BY <1>5, AppendMoves DEF IInv
  <2> QED BY <2>1, <2>2 DEF OnlyMoves, Unnoticed
<1> QED BY <1>1, <1>3, <1>4, <1>5, StepKinds DEF IInv

\* Only the upsert and the reconcile change the index.
LEMMA CommitIndex ==
  ASSUME NEW w \in Workers, CommitStep(w)
  PROVE  /\ UNCHANGED admin
         /\ FinalizeUpsert(w) \/ FinalizeReconcile(w) \/ UNCHANGED index
         /\ FinalizeReconcile(w) => index' = Reconciled(worker[w].listing) \/ Failure
BY DEF CommitStep, FinalizeDuplicate, FinalizeStore, FinalizeCopy, FinalizeCopied, FinalizeRename,
   FinalizeStoreError, FinalizePrune, FinalizeDelete, FinalizeFiles, FinalizeUpsert, FinalizeReconcile,
   FinalizeSave

LEMMA IndexStep ==
  ASSUME IInv, BoundsLeft, IndexLags, [Next]_vars
  PROVE  IndexLags'
<1> SUFFICES ASSUME Undisturbed'
             PROVE  /\ admin' = Idle
                    /\ \/ \E w \in Workers : worker'[w].pc \in UnlistedPc
                       \/ \A a \in index' : Snap(a) \in Listed'
                    /\ \A w \in Workers :
                         worker'[w].pc \in {"final_upsert", "final_reconcile"} => worker'[w].listing = Listed'
  BY DEF IndexLags
<1>0. Undisturbed /\ ~Failure BY UndisturbedStep
<1>1. /\ admin = Idle
      /\ \/ \E w \in Workers : worker[w].pc \in UnlistedPc
         \/ \A a \in index : Snap(a) \in Listed
      /\ \A w \in Workers : worker[w].pc \in {"final_upsert", "final_reconcile"} => worker[w].listing = Listed
  BY <1>0 DEF IndexLags
<1>2. CASE Unnoticed
  <2>1. Listed' = Listed BY <1>2 DEF Unnoticed, Listed
  <2> QED BY <1>1, <1>2, <2>1 DEF Unnoticed
<1>3. ASSUME NEW w \in Workers, CommitStep(w)
      PROVE  /\ admin' = Idle
             /\ \/ \E v \in Workers : worker'[v].pc \in UnlistedPc
                \/ \A a \in index' : Snap(a) \in Listed'
             /\ \A v \in Workers :
                  worker'[v].pc \in {"final_upsert", "final_reconcile"} => worker'[v].listing = Listed'
  <2>0. PICK a : a = worker[w].sess.archive OBVIOUS
  <2>1. \A v \in Workers : v # w => worker[v].pc \notin FinalNsPc /\ worker'[v].pc \notin FinalNsPc
    BY <1>3, CommitAlone
  <2>2. admin' = Idle BY <1>1, <1>3, CommitIndex
  <2>3. CASE \/ FinalizeStore(w) \/ FinalizeCopy(w) \/ FinalizeCopied(w) \/ FinalizeRename(w)
             \/ FinalizeDuplicate(w) \/ FinalizeStoreError(w) \/ FinalizeSave(w)
    <3>1. worker[w].pc \notin UnlistedPc /\ worker'[w].pc \notin UnlistedPc
      BY <1>3, <2>3, CommitMoves DEF IInv, At, FinalizeStore, FinalizeCopy, FinalizeStoreError
    <3>2. UNCHANGED index
      BY <1>3, <2>3, CommitMoves, CommitIndex DEF IInv, At, FinalizeUpsert, FinalizeReconcile
    <3>3. \A b \in Archives : Snap(b) \in Listed => Snap(b) \in Listed'
      <4>1. CASE FinalizeRename(w)
        <5>1. a \in Archives /\ Listed' = (Listed \ {Tmp(a)}) \cup {Snap(a)}
          BY <1>3, <2>0, <4>1, CommitFiles
        <5> QED BY <5>1, TmpSnap
      <4>2. CASE FinalizeStore(w) \/ FinalizeCopy(w) \/ FinalizeCopied(w)
        BY <1>3, <2>0, <4>2, CommitFiles
      <4>3. CASE FinalizeDuplicate(w) \/ FinalizeStoreError(w) \/ FinalizeSave(w)
        <5>1. UNCHANGED files BY <1>0, <1>3, <2>0, <4>3, CommitFiles
        <5> QED BY <5>1 DEF Listed
      <4> QED BY <2>3, <4>1, <4>2, <4>3
    <3>4. index \subseteq Archives BY DEF IInv, TypeOK
    <3>5. \A b \in index' : Snap(b) \in Listed'
      BY <1>1, <2>1, <3>1, <3>2, <3>3, <3>4
    <3> QED BY <2>1, <2>2, <3>1, <3>5
  <2>4. CASE FinalizePrune(w) \/ FinalizeDelete(w)
    <3>1. worker'[w].pc \in {"final_delete", "final_files"} BY <1>3, <2>4, CommitMoves DEF IInv, At
    <3> QED BY <2>1, <2>2, <3>1
  <2>5. CASE FinalizeFiles(w)
    <3>1. worker'[w].pc = "final_upsert" /\ worker'[w].listing = Listed
      BY <1>0, <1>3, <2>5, CommitMoves DEF IInv, At
    <3>2. UNCHANGED files BY <1>3, <2>0, <2>5, CommitFiles
    <3>3. Listed' = Listed BY <3>2 DEF Listed
    <3> QED BY <2>1, <2>2, <3>1, <3>3
  <2>6. CASE FinalizeUpsert(w)
    <3>1. /\ worker[w].pc = "final_upsert" /\ worker'[w].pc = "final_reconcile"
          /\ worker'[w].listing = worker[w].listing
      BY <1>3, <2>6, CommitMoves DEF IInv, At
    <3>2. UNCHANGED files BY <1>3, <2>0, <2>6, CommitFiles
    <3>3. Listed' = Listed BY <3>2 DEF Listed
    <3> QED BY <1>1, <2>1, <2>2, <3>1, <3>3
  <2>7. CASE FinalizeReconcile(w)
    <3>1. worker[w].pc = "final_reconcile" /\ worker'[w].pc = "final_save"
      BY <1>3, <2>7, CommitMoves DEF IInv, At
    <3>2. UNCHANGED files BY <1>3, <2>0, <2>7, CommitFiles
    <3>3. Listed' = Listed BY <3>2 DEF Listed
    <3>4. index' = Reconciled(Listed) BY <1>0, <1>1, <1>3, <2>7, <3>1, CommitIndex
    <3> QED BY <2>1, <2>2, <3>1, <3>3, <3>4 DEF Reconciled
  <2> QED BY <1>3, <2>3, <2>4, <2>5, <2>6, <2>7 DEF CommitStep
<1> QED BY <1>2, <1>3, UndisturbedStep

\* What AnswerKept says of one handler.
AnswerOf(w) ==
  /\ At(w, "final_prune") => Snap(worker[w].sess.archive) \in Listed
  /\ At(w, "final_delete") => Kept(w) \subseteq Listed
  /\ worker[w].pc \in UnlistedPc =>
       Snap(worker[w].sess.archive) \in Listed \/ Cardinality(Listed) >= KeepLast
  /\ At(w, "final_save") =>
       \/ Snap(worker[w].sess.storedAs) \in Listed
       \/ /\ worker[w].sess.storedAs = worker[w].sess.archive
          /\ Cardinality(Listed) >= KeepLast

LEMMA AnswerStep ==
  ASSUME IInv, OwnTimes, BoundsLeft, Pruned, DeletingOlder, IndexLags, AnswerKept, [Next]_vars
  PROVE  AnswerKept'
<1> SUFFICES ASSUME Undisturbed', NEW v \in Workers PROVE AnswerOf(v)'
  BY DEF AnswerKept, AnswerOf
<1>0. Undisturbed /\ ~Failure BY UndisturbedStep
<1>1. \A w \in Workers : AnswerOf(w) BY <1>0 DEF AnswerKept, AnswerOf
<1>2. CASE Unnoticed
  <2>1. Listed' = Listed BY <1>2 DEF Unnoticed, Listed
  <2>2. CASE worker'[v] = worker[v] BY <1>1, <2>1, <2>2 DEF AnswerOf, At, Kept
  <2>3. CASE worker'[v].pc \notin CommitPc BY <2>3 DEF AnswerOf, At
  <2> QED BY <1>2, <2>2, <2>3 DEF Unnoticed
<1>3. ASSUME NEW w \in Workers, CommitStep(w)
      PROVE  AnswerOf(v)'
  <2>0. PICK a : a = worker[w].sess.archive OBVIOUS
  <2>1. CASE v # w
    <3>1. worker'[v].pc \notin FinalNsPc BY <1>3, <2>1, CommitAlone
    <3> QED BY <3>1 DEF AnswerOf, At
  <2> SUFFICES ASSUME v = w PROVE AnswerOf(w)' BY <2>1
  <2>2. CASE FinalizeDuplicate(w)
    <3>1. worker[w].pc = "final_dup" /\ worker'[w].pc = "final_save" /\ worker'[w].sess.storedAs \in index
      BY <1>3, <2>2, CommitMoves DEF IInv, At
    <3>2. \A u \in Workers : worker[u].pc \notin UnlistedPc BY <1>3, <3>1, CommitAlone
    <3>3. Snap(worker'[w].sess.storedAs) \in Listed BY <1>0, <3>1, <3>2 DEF IndexLags
    <3>4. UNCHANGED files BY <1>3, <2>0, <2>2, CommitFiles
    <3>5. Listed' = Listed BY <3>4 DEF Listed
    <3> QED BY <3>1, <3>3, <3>5 DEF AnswerOf, At
  <2>3. CASE FinalizeStore(w) \/ FinalizeRename(w)
    <3>1. worker'[w].pc = "final_prune" /\ worker'[w].sess = worker[w].sess
      BY <1>3, <2>3, CommitMoves DEF IInv, At
    <3>2. Snap(a) \in Listed' BY <1>3, <2>0, <2>3, CommitFiles
    <3> QED BY <2>0, <3>1, <3>2 DEF AnswerOf, At
  <2>4. CASE FinalizeCopy(w) \/ FinalizeCopied(w) \/ FinalizeStoreError(w) \/ FinalizeSave(w)
    <3>1. worker'[w].pc \in {"final_copy", "final_rename", "idle"}
      BY <1>3, <2>4, CommitMoves DEF IInv, At
    <3> QED BY <3>1 DEF AnswerOf, At
  <2>5. CASE FinalizePrune(w)
    <3>1. /\ worker[w].pc = "final_prune" /\ worker'[w].sess = worker[w].sess
          /\ worker'[w].pc = "final_delete" => worker'[w].listing = Listed
          /\ worker'[w].pc \in {"final_files", "final_delete"}
      BY <1>3, <2>5, CommitMoves DEF IInv, At
    <3>2. UNCHANGED files BY <1>3, <2>0, <2>5, CommitFiles
    <3>3. Listed' = Listed BY <3>2 DEF Listed
    <3>4. Snap(a) \in Listed BY <1>1, <2>0, <3>1 DEF AnswerOf, At
    <3> QED BY <2>0, <3>1, <3>3, <3>4 DEF AnswerOf, At, Kept
  <2>8. CASE FinalizeDelete(w)
    <3>1. /\ At(w, "final_delete")
          /\ worker'[w].pc = "final_files" \/ worker'[w] = worker[w]
      BY <1>3, <2>8, CommitMoves DEF IInv, At
    <3>2. PICK gone \in SUBSET Doomed(w) : Listed' = Listed \ gone BY <1>3, <2>0, <2>8, CommitFiles
    <3>3. Kept(w) \subseteq Listed' BY <1>1, <3>1, <3>2 DEF AnswerOf, Kept, Doomed
    <3>4. Cardinality(Kept(w)) = KeepLast BY <3>1 DEF DeletingOlder
    <3>5. IsFiniteSet(Listed') BY <3>2, FS_Subset DEF Pruned
    <3>6. Cardinality(Kept(w)) <= Cardinality(Listed') /\ Cardinality(Listed') \in Nat
      BY <3>3, <3>5, FS_Subset, FS_CardinalityType
    <3>7. Cardinality(Listed') >= KeepLast BY <3>4, <3>6, KeepLastAssumption
    <3>8. CASE worker'[w].pc = "final_files" BY <3>7, <3>8 DEF AnswerOf, At
    <3>9. CASE worker'[w] = worker[w] BY <3>1, <3>3, <3>7, <3>9 DEF AnswerOf, At, Kept
    <3> QED BY <3>1, <3>8, <3>9
  <2>6. CASE FinalizeFiles(w) \/ FinalizeUpsert(w)
    <3>1. /\ worker[w].pc \in UnlistedPc /\ worker'[w].pc \in UnlistedPc \ {"final_delete"}
          /\ worker'[w].sess = worker[w].sess
      BY <1>3, <2>6, CommitMoves DEF IInv, At
    <3>2. UNCHANGED files BY <1>3, <2>0, <2>6, CommitFiles
    <3>3. Listed' = Listed BY <3>2 DEF Listed
    <3> QED BY <1>1, <3>1, <3>3 DEF AnswerOf, At
  <2>7. CASE FinalizeReconcile(w)
    <3>1. /\ worker[w].pc \in UnlistedPc /\ worker'[w].pc = "final_save"
          /\ worker'[w].sess.archive = a /\ worker'[w].sess.storedAs = a
      BY <1>3, <2>0, <2>7, CommitMoves DEF IInv, At
    <3>2. UNCHANGED files BY <1>3, <2>0, <2>7, CommitFiles
    <3>3. Listed' = Listed BY <3>2 DEF Listed
    <3> QED BY <1>1, <2>0, <3>1, <3>3 DEF AnswerOf, At
  <2> QED BY <1>3, <2>2, <2>3, <2>4, <2>5, <2>6, <2>7, <2>8 DEF CommitStep
<1> QED BY <1>2, <1>3, UndisturbedStep

LEMMA NoTmpStep ==
  ASSUME IInv, NoTmp, [Next]_vars
  PROVE  NoTmp'
<1> SUFFICES ASSUME SameFilesystem
             PROVE  /\ \A a \in Archives : Tmp(a) \notin Listed'
                    /\ \A v \in Workers : worker'[v].pc \notin {"final_copy", "final_rename"}
  BY DEF NoTmp
<1>0. /\ \A a \in Archives : Tmp(a) \notin Listed
      /\ \A v \in Workers : worker[v].pc \notin {"final_copy", "final_rename"}
  BY DEF NoTmp
<1>1. CASE QuietStep
  <2>1. Listed' = Listed BY <1>1 DEF QuietStep, Listed
  <2> QED BY <1>0, <1>1, <2>1 DEF QuietStep
<1>2. ASSUME NEW w \in Workers, NEW n \in 1..Blocks, NEW damaged \in BOOLEAN, AppendBlocks(w, n, damaged)
      PROVE  /\ \A a \in Archives : Tmp(a) \notin Listed'
             /\ \A v \in Workers : worker'[v].pc \notin {"final_copy", "final_rename"}
  <2>1. Listed' = Listed BY <1>2 DEF AppendBlocks, Listed
  <2> QED BY <1>0, <1>2, <2>1, AppendMoves DEF OnlyMoves, IInv
<1>3. CASE Administer \/ Restart
  <2>1. Listed' \subseteq Listed
    BY <1>3 DEF Administer, DeleteSnapshot, DeleteList, DeleteReconcile, Restart, WithoutFiles, Listed
  <2>2. \A v \in Workers : worker'[v] = worker[v] \/ worker'[v].pc = "idle"
    <3>1. CASE Administer BY <3>1 DEF Administer, DeleteSnapshot, DeleteList, DeleteReconcile
    <3>2. CASE Restart BY <3>2 DEF Restart, Idle
    <3> QED BY <1>3, <3>1, <3>2
  <2> QED BY <1>0, <2>1, <2>2
<1>4. ASSUME NEW w \in Workers, CommitStep(w)
      PROVE  /\ \A a \in Archives : Tmp(a) \notin Listed'
             /\ \A v \in Workers : worker'[v].pc \notin {"final_copy", "final_rename"}
  <2>0. PICK a : a = worker[w].sess.archive OBVIOUS
  <2>1. ~FinalizeCopy(w) /\ ~FinalizeCopied(w) /\ ~FinalizeRename(w)
    BY <1>0 DEF FinalizeCopy, FinalizeCopied, FinalizeRename, At
  <2>2. worker'[w].pc \notin {"final_copy", "final_rename"}
    BY <1>4, <2>1, CommitMoves DEF IInv, At, CommitStep
  <2>3. \A v \in Workers : v # w => worker'[v] = worker[v] BY <1>4, CommitAlone
  <2>4. a \in Archives /\ Listed' \subseteq Listed \cup {Snap(a)}
    <3>1. CASE FinalizeStore(w) BY <1>4, <2>0, <3>1, CommitFiles
    <3>2. CASE FinalizeStoreError(w) \/ FinalizeDelete(w) BY <1>4, <2>0, <3>2, CommitFiles
    <3>3. CASE FinalizeDuplicate(w) \/ FinalizePrune(w) \/ FinalizeFiles(w) \/ FinalizeUpsert(w)
                 \/ FinalizeReconcile(w) \/ FinalizeSave(w)
      <4>1. a \in Archives /\ UNCHANGED files BY <1>4, <2>0, <3>3, CommitFiles
      <4> QED BY <4>1 DEF Listed
    <3> QED BY <1>4, <2>1, <3>1, <3>2, <3>3 DEF CommitStep
  <2> QED BY <1>0, <2>2, <2>3, <2>4, TmpSnap
<1> QED BY <1>1, <1>2, <1>3, <1>4, StepKinds DEF IInv

-----------------------------------------------------------------------------
(* Theorems *)

LEMMA InitRetains == Init => RInv
<1> SUFFICES ASSUME Init PROVE RInv
  OBVIOUS
<1> USE DEF Init
<1>1. \A w \in Workers : worker[w].pc = "idle" BY DEF Idle
<1>2. Listed = {} BY DEF Listed
<1>3. /\ \A u \in Uploads : staged[u] = NoFile /\ staged[u].mtime = 0 /\ Size(u) = 0
      /\ \A n \in Names : files[n] = NoFile /\ files[n].mtime = 0
      /\ clock = 0
  BY DEF NoFile, Size
<1>4. StagedInOrder /\ OwnTimes BY <1>1, <1>3 DEF StagedInOrder, OwnTimes, Written, At
<1>5. BoundsLeft BY BoundsAssumption DEF BoundsLeft, Interruptions
<1>6. Pruned
  <2>1. Cardinality({}) = 0 /\ IsFiniteSet({}) BY FS_EmptySet
  <2>2. Interruptions = 0 /\ budget.settled = 0 BY BoundsAssumption DEF Interruptions
  <2>3. ~\E w \in Workers : worker[w].pc \in AddedPc BY <1>1
  <2> QED BY <1>2, <2>1, <2>2, <2>3, KeepLastAssumption DEF Pruned
<1>7. CopyListed /\ NoTmp /\ DeletingOlder BY <1>1, <1>2 DEF CopyListed, NoTmp, DeletingOlder, At
<1>8. IndexLags BY <1>1 DEF IndexLags
<1>9. AnswerKept BY <1>1 DEF AnswerKept, At
<1> QED BY <1>4, <1>5, <1>6, <1>7, <1>8, <1>9 DEF RInv

\* The second inductive invariant.
THEOREM RInvariance == Spec => []RInv
<1>1. Init => RInv BY InitRetains
<1>2. IInv /\ RInv /\ [Next]_vars => RInv'
  BY OrderStep, TimesStep, BoundsStep, CopyStep, PrunedStep, DeletingStep, IndexStep, AnswerStep,
     NoTmpStep DEF RInv, IInv
<1> QED BY <1>1, <1>2, Invariance, PTL DEF Spec

\* AppendChunk: whichever handlers were given a chunk for the same offset, and whatever was removed
\* under them, no block of archive.part is behind its place.
THEOREM StagedAlwaysInOrder == Spec => []StagedInOrder
BY RInvariance, PTL DEF RInv

\* retention.go: with no finalize under way the namespace holds at most KeepLast files, and at most
\* one more for each restart or failing call since retention last went through.
THEOREM RetentionAlwaysHolds == Spec => []RetentionHolds
<1>1. IInv /\ RInv => RetentionHolds
  <2> SUFFICES ASSUME IInv, RInv, NamespaceFree
               PROVE  Cardinality(Listed) <= KeepLast + (Interruptions - budget.settled)
    BY DEF RetentionHolds
  <2>1. ~\E w \in Workers : worker[w].pc \in AddedPc
    BY DEF NamespaceFree, HoldsNamespace
  <2>2. Cardinality(Listed) <= KeepLast + (Interruptions - budget.settled) + 0 BY <2>1 DEF RInv, Pruned
  <2>3. Cardinality(Listed) \in Nat BY FS_CardinalityType DEF RInv, Pruned
  <2>4. Interruptions \in Int /\ budget.settled \in Int
    BY BoundsAssumption DEF RInv, IInv, TypeOK, Interruptions
  <2> QED BY <2>2, <2>3, <2>4, KeepLastAssumption
<1> QED BY <1>1, Invariance, RInvariance, PTL

\* snapshot_index: between two finalizes of an undisturbed Station every row has its file.
THEOREM IndexedAlwaysStored == Spec => []IndexedIsStored
<1>1. RInv => IndexedIsStored
  BY DEF RInv, IndexLags, IndexedIsStored, NamespaceQuiet, NamespaceFree, HoldsNamespace
<1> QED BY <1>1, RInvariance, PTL

\* What retention has relied on is what it keeps: one handler deletes at a time.
LEMMA WithdrawnKept ==
  ASSUME IInv, NEW w \in Workers, At(w, "final_delete")
  PROVE  Withdrawn = Kept(w) \ Listed
<1>1. \A v \in Workers : At(v, "final_delete") <=> v = w
  BY DEF IInv, NamespaceLockExclusive, HoldsNamespace, At
<1>2. {v \in Workers : At(v, "final_delete")} = {w} BY <1>1
<1> QED BY <1>2 DEF Withdrawn, Kept

\* A snapshot that goes was deleted by an administrator, or was older than KeepLast files of which
\* only an administrator has deleted any.
THEOREM OnlySupersededAlwaysGo == Spec => OnlySupersededGo
<1>1. IInv /\ RInv /\ [Next]_vars =>
        [\A a \in Archives :
           (Snap(a) \in Listed /\ Snap(a) \notin Listed') =>
             \/ admin = Idle /\ admin' # Idle
             \/ LET newer == {n \in Names : files'[n].mtime > files[Snap(a)].mtime}
                IN Cardinality(newer \cup Withdrawn) >= KeepLast]_vars
  <2> SUFFICES ASSUME IInv, RInv, [Next]_vars, NEW a \in Archives, Snap(a) \in Listed, Snap(a) \notin Listed'
               PROVE  \/ admin = Idle /\ admin' # Idle
                      \/ LET newer == {n \in Names : files'[n].mtime > files[Snap(a)].mtime}
                         IN Cardinality(newer \cup Withdrawn) >= KeepLast
    OBVIOUS
  <2>1. ~QuietStep BY DEF QuietStep, Listed
  <2>2. ASSUME NEW w \in Workers, NEW n \in 1..Blocks, NEW damaged \in BOOLEAN, AppendBlocks(w, n, damaged)
        PROVE  FALSE
    BY <2>2 DEF AppendBlocks, Listed
  <2>3. CASE Administer \/ Restart
    <3>1. ~Restart /\ ~DeleteList /\ ~DeleteReconcile BY DEF Restart, DeleteList, DeleteReconcile, Listed
    <3>2. PICK b \in Archives : DeleteSnapshot(b) BY <2>3, <3>1 DEF Administer
    <3>3. admin' # Idle BY <3>2 DEF DeleteSnapshot, Idle
    <3> QED BY <3>2, <3>3 DEF DeleteSnapshot
  <2>4. ASSUME NEW w \in Workers, CommitStep(w)
        PROVE  LET newer == {n \in Names : files'[n].mtime > files[Snap(a)].mtime}
               IN Cardinality(newer \cup Withdrawn) >= KeepLast
    <3> DEFINE Above == {n \in Names : files'[n].mtime > files[Snap(a)].mtime}
               Left  == Above \cup Withdrawn
    <3>0. PICK b : b = worker[w].sess.archive OBVIOUS
    <3>1. CASE FinalizeStore(w) \/ FinalizeCopy(w) \/ FinalizeCopied(w)
      BY <2>4, <3>0, <3>1, CommitFiles
    <3>2. CASE FinalizeRename(w)
      <4>1. b \in Archives /\ Listed' = (Listed \ {Tmp(b)}) \cup {Snap(b)} BY <2>4, <3>0, <3>2, CommitFiles
      <4> QED BY <4>1, TmpSnap
    <3>3. CASE FinalizeStoreError(w)
      <4>1. b \in Archives BY <2>4, <3>0, CommitFiles
      <4>2. Snap(a) # Tmp(b) /\ Snap(a) \in Names BY <4>1, TmpSnap
      <4>3. files'[Snap(a)] = files[Snap(a)] BY <3>0, <3>3, <4>2 DEF FinalizeStoreError, WithoutFiles
      <4> QED BY <4>2, <4>3 DEF Listed
    <3>4. CASE \/ FinalizeDuplicate(w) \/ FinalizePrune(w) \/ FinalizeFiles(w) \/ FinalizeUpsert(w)
               \/ FinalizeReconcile(w) \/ FinalizeSave(w)
      <4>1. UNCHANGED files BY <2>4, <3>0, <3>4, CommitFiles
      <4> QED BY <4>1 DEF Listed
    <3>5. CASE FinalizeDelete(w)
      <4>1. PICK gone \in SUBSET Doomed(w) : Listed' = Listed \ gone /\ files' = WithoutFiles(gone)
        BY <2>4, <3>0, <3>5, CommitFiles
      <4>2. Snap(a) \in Doomed(w) /\ At(w, "final_delete") BY <2>4, <3>5, <4>1, CommitMoves DEF IInv
      <4>3. /\ IsFiniteSet(Kept(w)) /\ Cardinality(Kept(w)) = KeepLast
            /\ \A m \in Kept(w) \cap Listed : files[m].mtime > files[Snap(a)].mtime
        BY <4>2 DEF RInv, DeletingOlder, Newer
      <4>4. \A m \in Names : files'[m] = IF m \in gone THEN NoFile ELSE files[m] BY <4>1 DEF WithoutFiles
      <4>5. Kept(w) \cap Listed \subseteq Above
        BY <4>1, <4>3, <4>4 DEF Listed, Kept, Doomed
      <4>6. Withdrawn = Kept(w) \ Listed BY <4>2, WithdrawnKept
      <4>7. Above \subseteq Listed
        <5> SUFFICES ASSUME NEW n \in Above PROVE files[n] # NoFile BY DEF Listed
        <5>1. files'[n].mtime > files[Snap(a)].mtime OBVIOUS
        <5>2. files[Snap(a)].mtime \in Nat BY TmpSnap DEF IInv, TypeOK, File
        <5>3. files'[n] # NoFile BY <5>1, <5>2 DEF NoFile
        <5> QED BY <4>4, <5>3
      <4> HIDE DEF Above
      <4>8. IsFiniteSet(Above) /\ IsFiniteSet(Withdrawn)
        BY <4>3, <4>6, <4>7, FS_Subset DEF RInv, Pruned
      <4>9. IsFiniteSet(Left) /\ Kept(w) \subseteq Left BY <4>5, <4>6, <4>8, FS_Union
      <4> HIDE DEF Left
      <4>10. Cardinality(Kept(w)) <= Cardinality(Left) /\ Cardinality(Left) \in Nat
        BY <4>9, FS_Subset, FS_CardinalityType
      <4>11. Cardinality(Left) >= KeepLast BY <4>3, <4>10, KeepLastAssumption
      <4> QED BY <4>11 DEF Left, Above
    <3> QED BY <2>4, <3>1, <3>2, <3>3, <3>4, <3>5 DEF CommitStep
  <2> QED BY <2>1, <2>2, <2>3, <2>4, StepKinds DEF IInv
<1> QED BY <1>1, Invariance, RInvariance, PTL DEF Spec, OnlySupersededGo

\* On one file system the files that stay are snapshots: there is no ".tmp".
THEOREM SupersededBySnapshots ==
  Spec => [](SameFilesystem => Listed \subseteq {Snap(a) : a \in Archives})
<1>1. RInv => (SameFilesystem => Listed \subseteq {Snap(a) : a \in Archives})
  BY DEF RInv, NoTmp, Listed, Names, Snap, Tmp
<1> QED BY <1>1, RInvariance, PTL

\* FinalizeUpload: in an undisturbed Station the snapshot an "ok" names is on disk, unless KeepLast
\* others were newer than this upload's own.
THEOREM FinalizedAlwaysStored == Spec => FinalizedIsStored
<1>1. RInv => [\A w \in Workers :
                 (Undisturbed /\ At(w, "final_save") /\ sessions' # sessions) =>
                   LET s == worker[w].sess
                   IN \/ Snap(s.storedAs) \in Listed
                      \/ s.storedAs = s.archive /\ Cardinality(Listed) >= KeepLast]_vars
  BY DEF RInv, AnswerKept
<1> QED BY <1>1, RInvariance, PTL DEF FinalizedIsStored
=============================================================================
