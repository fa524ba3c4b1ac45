-------------------------- MODULE JobRunnerProofs --------------------------
(***************************************************************************)
(* Theorems about JobRunner, for any jobs, contents and bounds.            *)
(*                                                                         *)
(* A job's worker acts on several parts of the state at different moments: *)
(* what it measured when the archive was built, what the job state points  *)
(* at, what lies in the spool, what is at Station.  That these still fit   *)
(* when it goes on rests on the cycle lock: JobInv says, per job, what its *)
(* worker may rely on, and Structure who may be at work at all.  A step    *)
(* of one job leaves every other job's part alone (JobFrame).              *)
(* An operation ends because each worker keeps to its Course.              *)
(***************************************************************************)
EXTENDS JobRunner, TLAPS

\* Only a cycle, and a forced send of one job, have workers.
Structure ==
  /\ op.kind # "none" /\ op.kind # "cycle" => op.job \in Jobs
  /\ \A j \in Jobs : ~At(j, "idle") => op.kind = "cycle" \/ (op.kind \in {"force", "clear"} /\ op.job = j)
  /\ op.kind \in {"none", "recover", "preview"} => \A j \in Jobs : At(j, "idle")

\* Bounds are only spent, and only CancelOperation cancels.
Budgets ==
  /\ budget.faults <= MaxFaults
  /\ budget.cancels <= MaxCancels
  /\ NoCancels => ~op.cancelled

Sending(j)   == work[j].pc \in {"uploading", "failed", "uploaded", "sent"}
Preparing(j) == work[j].pc \in {"build", "review", "point"}

\* What a worker sends stays staged, and what it has sent is at Station.
SentIsStored(j) ==
  /\ Sending(j) => state[j].staged
  /\ work[j].pc \in {"uploaded", "sent"} => state[j].fp \in stored[j]

\* The approval that an upload has looked up is still remembered.
AllowedIsApproved(j) == At(j, "uploading") /\ work[j].allow => j \in approvals

\* A new archive is there from Build until the state points at it.
NewIsPresent(j) ==
  /\ Preparing(j) => work[j].fp # None
  /\ work[j].pc \in {"review", "point"} => NewName(j) \in spool

\* What may be sent without the operator has looked normal, or the operator has sent it.
Due(j) ==
  \/ Present(j) /\ (~state[j].mir \/ state[j].category = "approval" \/ work[j].pc \in {"force", "queued"})
  \/ state[j].staged /\ Sending(j)
DueIsPassed(j) ==
  NoFaults /\ NoCancels =>
    /\ Due(j) => state[j].fp \in passed[j]
    /\ At(j, "point") /\ ~work[j].hold => work[j].fp \in passed[j]
    /\ stored[j] \subseteq passed[j]
    /\ \A c : <<j, c>> \in late => c \in passed[j]

JobLastIsStored(j) == state[j].last # None => state[j].last \in stored[j]

JobInv(j) == /\ SentIsStored(j)
             /\ AllowedIsApproved(j)
             /\ NewIsPresent(j)
             /\ DueIsPassed(j)
             /\ JobLastIsStored(j)

IInv == Structure /\ Budgets /\ \A j \in Jobs : JobInv(j)

-----------------------------------------------------------------------------
(* Types *)

LEMMA SpendType ==
  ASSUME TypeOK, NEW b \in {"changes", "actions", "cancels", "crashes", "faults"}, Spend(b)
  PROVE  /\ budget' \in [changes : Nat, actions : Nat, cancels : Nat, crashes : Nat, faults : Nat]
         /\ budget'.faults <= budget.faults /\ budget'.cancels <= budget.cancels
         /\ b = "faults" => budget'.faults < budget.faults
         /\ b = "cancels" => budget'.cancels < budget.cancels
BY DEF TypeOK, Spend

StateOK == /\ state \in [Jobs -> JobState]
           /\ \A j \in Jobs : state[j].staged => state[j].fp # None

LEMMA SaveType ==
  ASSUME TypeOK, NEW j \in Jobs, NEW s \in JobState, s.staged => s.fp # None, Save(j, s)
  PROVE  StateOK'
BY DEF TypeOK, StateOK, Save

LEMMA FaultSpent ==
  ASSUME TypeOK, IInv, Spend("faults")
  PROVE  ~NoFaults'
BY SpendType, BoundsAssumption DEF IInv, Budgets, NoFaults, TypeOK

LEMMA SaveLastType ==
  ASSUME TypeOK, IInv, NEW j \in Jobs, NEW s \in JobState, s.staged => s.fp # None, SaveLast(j, s)
  PROVE  /\ StateOK'
         /\ budget' \in [changes : Nat, actions : Nat, cancels : Nat, crashes : Nat, faults : Nat]
         /\ Save(j, s) \/ (UNCHANGED state /\ ~NoFaults')
<1>1. CASE Save(j, s) /\ UNCHANGED budget BY <1>1, SaveType DEF TypeOK
<1>2. CASE Spend("faults") /\ UNCHANGED state
  BY <1>2, FaultSpent, SpendType DEF TypeOK, StateOK
<1> QED BY <1>1, <1>2 DEF SaveLast

\* What Scout gives up is what Station has been sent and may store.
LEMMA GiveUpAdds ==
  ASSUME TypeOK, IInv, NEW js \in SUBSET Jobs, GiveUp(js)
  PROVE  /\ late' \subseteq Jobs \X Contents
         /\ late \subseteq late'
         /\ \A k \in Jobs : \A c : <<k, c>> \in late' \ late =>
              k \in js /\ At(k, "uploading") /\ Allowed(k) /\ state[k].staged /\ c = state[k].fp
<1>1. ASSUME NEW u \in Unanswered(js)
      PROVE  \E k \in js : u = <<k, state[k].fp>> /\ At(k, "uploading") /\ Allowed(k)
                             /\ state[k].staged /\ state[k].fp \in Contents
  <2>1. PICK k \in js : u = <<k, state[k].fp>> /\ At(k, "uploading") /\ Allowed(k) BY DEF Unanswered
  <2>2. state[k].staged BY <2>1 DEF IInv, JobInv, SentIsStored, Sending, At
  <2>3. state[k].fp \in Contents BY <2>2 DEF TypeOK, JobState
  <2> QED BY <2>1, <2>2, <2>3
<1>2. late' = late \cup {u \in Unanswered(js) : u[2] \notin stored[u[1]]} BY DEF GiveUp
<1>3. late \subseteq Jobs \X Contents BY DEF TypeOK
<1>4. \A u \in Unanswered(js) : u \in Jobs \X Contents BY <1>1
<1>5. ASSUME NEW k \in Jobs, NEW c, <<k, c>> \in late' \ late
      PROVE  k \in js /\ At(k, "uploading") /\ Allowed(k) /\ state[k].staged /\ c = state[k].fp
  <2>1. <<k, c>> \in Unanswered(js) BY <1>2, <1>5
  <2> QED BY <1>1, <2>1
<1> QED BY <1>2, <1>3, <1>4, <1>5

LEMMA GoType ==
  ASSUME TypeOK, NEW j \in Jobs, NEW pc \in Pcs, Go(j, pc)
  PROVE  work' \in [Jobs -> Work]
<1>1. work \in [Jobs -> Work] BY DEF TypeOK
<1>2. [work[j] EXCEPT !.pc = pc] \in Work BY <1>1 DEF Work
<1>3. work' = [work EXCEPT ![j] = [work[j] EXCEPT !.pc = pc]] BY DEF Go
<1> QED BY <1>1, <1>2, <1>3

LEMMA DoneType ==
  ASSUME TypeOK, NEW j \in Jobs, Done(j)
  PROVE  work' \in [Jobs -> Work]
BY DEF TypeOK, Done, NoWork, Work, Pcs

\* The job states that preparing an archive starts from.
LEMMA LoadedType ==
  ASSUME TypeOK, NEW j \in Jobs
  PROVE  /\ Loaded(j) \in JobState
         /\ Loaded(j).staged => Loaded(j).fp # None
         /\ Scanned(j) \in JobState
         /\ Scanned(j).staged => Scanned(j).fp # None
<1>0. state[j] \in JobState /\ (state[j].staged => state[j].fp # None)
  BY DEF TypeOK
<1>1. Loaded(j) \in JobState /\ (Loaded(j).staged => Loaded(j).fp # None)
  BY <1>0 DEF Loaded, JobState
<1>2. clearPendingArchive(Loaded(j)) \in JobState /\ ~clearPendingArchive(Loaded(j)).staged
  BY <1>1 DEF clearPendingArchive, discardPendingArchiveFile, JobState
<1>3. PICK s \in JobState : /\ s.staged => s.fp # None
                            /\ Scanned(j) = IF s.mir /\ s.category \in {"unusual", "approval"} THEN s
                                            ELSE [s EXCEPT !.category = ""]
  BY <1>1, <1>2 DEF Scanned
<1>4. [s EXCEPT !.category = ""] \in JobState BY DEF JobState, Categories
<1>5. /\ [s EXCEPT !.category = ""].staged = s.staged
      /\ [s EXCEPT !.category = ""].fp = s.fp
  BY DEF JobState
<1> QED BY <1>1, <1>3, <1>4, <1>5

LEMMA ClearedType ==
  ASSUME TypeOK, NEW j \in Jobs,
         NEW s, s = [clearPendingArchive(state[j]) EXCEPT !.mir = FALSE,
                                                          !.category = IF op.kind = "clear" THEN "" ELSE @]
  PROVE  s \in JobState /\ ~s.staged /\ s.last = state[j].last
<1>1. state[j] \in JobState BY DEF TypeOK
<1> QED BY <1>1 DEF clearPendingArchive, discardPendingArchiveFile, JobState, Categories

LEMMA PrepareType ==
  ASSUME TypeOK, IInv, NEW j \in Jobs, prepareArchiveLocked(j)
  PROVE  TypeOK'
<1>0. state[j] \in JobState /\ work[j] \in Work /\ files[j] \in Contents \cup {None}
  BY DEF TypeOK
<1>1. ASSUME UploadNow(j) PROVE TypeOK'
  <2>1. work' \in [Jobs -> Work] BY <1>1, GoType DEF UploadNow, Pcs
  <2> QED BY <1>1, <2>1 DEF UploadNow, TypeOK, outer, station
<1>2. ASSUME Wait(j) PROVE TypeOK'
  <2>1. work' \in [Jobs -> Work] BY <1>2, DoneType DEF Wait
  <2>2. StateOK' BY <1>2, LoadedType, SaveType DEF Wait
  <2> QED BY <1>2, <2>1, <2>2 DEF Wait, TypeOK, StateOK, outer, station
<1>3. ASSUME Scan(j), Skip(j) PROVE TypeOK'
  <2>1. work' \in [Jobs -> Work] BY <1>3, GoType DEF Skip, Pcs
  <2>2. StateOK' BY <1>3, LoadedType, SaveType DEF Scan
  <2>3. spool' \subseteq spool BY <1>3 DEF Skip
  <2> QED BY <1>3, <2>1, <2>2, <2>3 DEF Scan, TypeOK, StateOK, outer, station
<1>4. ASSUME Scan(j), UNCHANGED spool,
             IF StaysHeld(j) THEN Done(j)
             ELSE work' = [work EXCEPT ![j].pc = "build", ![j].fp = files[j]]
      PROVE  TypeOK'
  <2>1. work' \in [Jobs -> Work]
    <3>1. CASE Done(j) BY <3>1, DoneType
    <3>2. CASE work' = [work EXCEPT ![j].pc = "build", ![j].fp = files[j]]
      <4>1. [work[j] EXCEPT !.pc = "build", !.fp = files[j]] \in Work BY <1>0 DEF Work, Pcs
      <4> QED BY <3>2, <4>1 DEF TypeOK
    <3> QED BY <1>4, <3>1, <3>2
  <2>2. StateOK' BY <1>4, LoadedType, SaveType DEF Scan
  <2> QED BY <1>4, <2>1, <2>2 DEF Scan, TypeOK, StateOK, outer, station
<1>a. ASSUME ClearPending(j) PROVE TypeOK'
  <2>1. work' \in [Jobs -> Work] BY <1>a, GoType, DoneType DEF ClearPending, Pcs
  <2>2. budget' \in [changes : Nat, actions : Nat, cancels : Nat, crashes : Nat, faults : Nat]
    BY <1>a, SpendType DEF ClearPending, TypeOK
  <2>3. anomalies' = anomalies \/ anomalies' = [anomalies EXCEPT ![j].pending = None]
    BY <1>a DEF ClearPending
  <2>a. [anomalies[j] EXCEPT !.pending = None] \in [history : SUBSET Contents, pending : Contents \cup {None}]
    BY DEF TypeOK
  <2>4. anomalies' \in [Jobs -> [history : SUBSET Contents, pending : Contents \cup {None}]]
    BY <2>3, <2>a DEF TypeOK
  <2> QED BY <1>a, <2>1, <2>2, <2>4 DEF ClearPending, TypeOK, outer, station
<1>b. ASSUME SaveCleared(j) PROVE TypeOK'
  <2>1. work' \in [Jobs -> Work] BY <1>b, DoneType DEF SaveCleared
  <2>2. PICK s : s = [clearPendingArchive(state[j]) EXCEPT !.mir = FALSE,
                                                           !.category = IF op.kind = "clear" THEN "" ELSE @]
    OBVIOUS
  <2>3. s \in JobState /\ ~s.staged BY <2>2, ClearedType
  <2>4. SaveLast(j, s) BY <1>b, <2>2 DEF SaveCleared
  <2>5. /\ StateOK'
        /\ budget' \in [changes : Nat, actions : Nat, cancels : Nat, crashes : Nat, faults : Nat]
    BY <2>3, <2>4, SaveLastType
  <2> QED BY <1>b, <2>1, <2>5 DEF SaveCleared, TypeOK, StateOK, outer, station
<1>5. ASSUME Build(j) PROVE TypeOK'
  <2>1. work' \in [Jobs -> Work] BY <1>5, GoType DEF Build, Pcs
  <2>2. work[j].fp \in Contents BY <1>0, <1>5 DEF Build, IInv, JobInv, NewIsPresent, Preparing, At, Work
  <2>3. NewName(j) \in Jobs \X Contents \X {0, 1}
    <3>1. 1 - state[j].time \in {0, 1} BY <1>0 DEF JobState
    <3> QED BY <2>2, <3>1 DEF NewName
  <2> QED BY <1>5, <2>1, <2>3 DEF Build, TypeOK, outer, station
<1>6. ASSUME BuildFails(j) PROVE TypeOK'
  <2>1. work' \in [Jobs -> Work] BY <1>6, DoneType DEF BuildFails
  <2>2. [state[j] EXCEPT !.category = "other"] \in JobState
    BY <1>0 DEF JobState, Categories
  <2>3. [state[j] EXCEPT !.category = "other"].staged => [state[j] EXCEPT !.category = "other"].fp # None
    BY <1>0 DEF JobState, TypeOK
  <2>4. StateOK' BY <1>6, <2>2, <2>3, SaveType DEF BuildFails
  <2>5. budget' \in [changes : Nat, actions : Nat, cancels : Nat, crashes : Nat, faults : Nat]
    BY <1>6, SpendType DEF BuildFails
  <2> QED BY <1>6, <2>1, <2>4, <2>5 DEF BuildFails, TypeOK, StateOK, outer, station
<1>7. ASSUME Review(j) PROVE TypeOK'
  <2>0. work[j].fp \in Contents BY <1>0, <1>7 DEF Review, IInv, JobInv, NewIsPresent, Preparing, At, Work
  <2>1. Hold(j) \in BOOLEAN BY DEF Hold
  <2>2. work' \in [Jobs -> Work]
    <3>1. [work[j] EXCEPT !.pc = "point", !.hold = Hold(j)] \in Work
      BY <1>0, <2>1 DEF Work, Pcs
    <3>2. CASE work' = [work EXCEPT ![j].pc = "point", ![j].hold = Hold(j)]
      BY <3>1, <3>2 DEF TypeOK
    <3>3. CASE Go(j, "point") BY <3>3, GoType DEF Pcs
    <3> QED BY <1>7, <3>2, <3>3 DEF Review
  <2>3. anomalies' \in [Jobs -> [history : SUBSET Contents, pending : Contents \cup {None}]]
    BY <1>7, <2>0 DEF Review, TypeOK, Observed
  <2>4. passed' \in [Jobs -> SUBSET Contents]
    BY <1>7, <2>0 DEF Review, TypeOK, station
  <2>5. budget' \in [changes : Nat, actions : Nat, cancels : Nat, crashes : Nat, faults : Nat]
    BY <1>7, SpendType DEF Review, TypeOK, station
  <2> QED BY <1>7, <2>2, <2>3, <2>4, <2>5 DEF Review, TypeOK, outer, station
<1>8. ASSUME Point(j) PROVE TypeOK'
  <2>0. work[j].fp \in Contents BY <1>0, <1>8 DEF Point, IInv, JobInv, NewIsPresent, Preparing, At, Work
  <2> DEFINE s == [state[j] EXCEPT !.staged = TRUE, !.approved = FALSE, !.fp = work[j].fp, !.time = 1 - @,
                       !.retry = FALSE, !.mir = work[j].hold,
                       !.category = IF work[j].hold THEN "unusual" ELSE ""]
  <2>1. work' \in [Jobs -> Work] BY <1>8, DoneType, GoType DEF Point, Pcs
  <2>t. 1 - state[j].time \in {0, 1} BY <1>0 DEF JobState
  <2>2. s \in JobState BY <1>0, <2>0, <2>t DEF JobState, Categories, Work
  <2>3. s.fp # None BY <1>0, <2>0, ContentsAssumption DEF JobState
  <2>4. StateOK' BY <1>8, <2>2, <2>3, SaveType DEF Point
  <2> QED BY <1>8, <2>1, <2>4 DEF Point, TypeOK, StateOK, outer, station
<1> QED BY <1>1, <1>2, <1>3, <1>4, <1>5, <1>6, <1>7, <1>8, <1>a, <1>b DEF prepareArchiveLocked, Scan

\* The ends of an upload.
LEMMA EndType ==
  ASSUME TypeOK, NEW j \in Jobs
  PROVE  /\ clearPendingArchive(state[j]) \in JobState /\ ~clearPendingArchive(state[j]).staged
         /\ \A retry, mir \in BOOLEAN, category \in Categories :
              LET s == [state[j] EXCEPT !.category = category, !.retry = retry, !.mir = mir]
              IN  /\ s \in JobState
                  /\ s.staged => s.fp # None
                  /\ discardPendingArchiveFile(s) \in JobState
                  /\ ~discardPendingArchiveFile(s).staged
<1>0. state[j] \in JobState /\ (state[j].staged => state[j].fp # None) BY DEF TypeOK
<1>1. clearPendingArchive(state[j]) \in JobState /\ ~clearPendingArchive(state[j]).staged
  BY <1>0 DEF clearPendingArchive, discardPendingArchiveFile, JobState
<1>2. ASSUME NEW retry \in BOOLEAN, NEW mir \in BOOLEAN, NEW category \in Categories,
             NEW s, s = [state[j] EXCEPT !.category = category, !.retry = retry, !.mir = mir]
      PROVE  /\ s \in JobState
             /\ s.staged => s.fp # None
             /\ discardPendingArchiveFile(s) \in JobState
             /\ ~discardPendingArchiveFile(s).staged
  <2>1. s \in JobState /\ (s.staged => s.fp # None) BY <1>0, <1>2 DEF JobState
  <2> QED BY <2>1 DEF discardPendingArchiveFile, JobState
<1> QED BY <1>1, <1>2

LEMMA UploadType ==
  ASSUME TypeOK, IInv, NEW j \in Jobs, uploadPendingArchive(j) \/ CancelWork(j)
  PROVE  TypeOK'
<1>0. /\ state[j] \in JobState /\ work[j] \in Work
      /\ state[j].staged => state[j].fp \in Contents
  BY DEF TypeOK, JobState
<1>a. {"", "other", "approval"} \subseteq Categories /\ {TRUE, FALSE} \subseteq BOOLEAN BY DEF Categories
<1>1. ASSUME UploadStart(j) PROVE TypeOK'
  <2>1. CASE Present(j)
    <3> DEFINE allow == (state[j].approved \/ settings.auto) /\ j \in approvals
    <3>1. [work[j] EXCEPT !.pc = "uploading", !.allow = allow] \in Work
      BY <1>0 DEF Work, Pcs
    <3>2. work' \in [Jobs -> Work] BY <1>1, <2>1, <3>1 DEF UploadStart, TypeOK, station
    <3>3. [state[j] EXCEPT !.mir = FALSE, !.retry = FALSE] \in JobState
      BY <1>0 DEF JobState
    <3>4. [state[j] EXCEPT !.mir = FALSE, !.retry = FALSE].staged =>
             [state[j] EXCEPT !.mir = FALSE, !.retry = FALSE].fp # None
      BY <1>0, ContentsAssumption DEF JobState
    <3>5. StateOK' BY <1>1, <2>1, <3>3, <3>4, SaveType DEF UploadStart
    <3> QED BY <1>1, <3>2, <3>5 DEF UploadStart, TypeOK, StateOK, outer, station
  <2>2. CASE ~Present(j)
    <3>1. work' \in [Jobs -> Work] BY <1>1, <2>2, DoneType DEF UploadStart
    <3>2. StateOK' BY <1>0, <1>1, <2>2, EndType, SaveType, ContentsAssumption DEF UploadStart
    <3> QED BY <1>1, <3>1, <3>2 DEF UploadStart, TypeOK, StateOK, outer, station
  <2> QED BY <2>1, <2>2
<1>2. ASSUME Stored(j) PROVE TypeOK'
  <2>1. work' \in [Jobs -> Work] BY <1>2, GoType DEF Stored, Pcs
  <2>2. state[j].fp \in Contents BY <1>0, <1>2 DEF Stored, IInv, JobInv, SentIsStored, Sending, At
  <2>3. stored' \in [Jobs -> SUBSET Contents] BY <1>2, <2>2 DEF Stored, StoredAs, TypeOK
  <2>4. late' \subseteq late BY <1>2 DEF Stored, StoredAs
  <2> QED BY <1>2, <2>1, <2>3, <2>4 DEF Stored, TypeOK, outer
<1>3. ASSUME Succeed(j) PROVE TypeOK'
  <2>1. work' \in [Jobs -> Work] BY <1>3, GoType DEF Succeed, Pcs
  <2>2. spool' \subseteq spool BY <1>3 DEF Succeed
  <2> QED BY <1>3, <2>1, <2>2 DEF Succeed, TypeOK, outer, station
<1>8. ASSUME SaveSent(j) PROVE TypeOK'
  <2>1. work' \in [Jobs -> Work] BY <1>8, GoType DEF SaveSent, Pcs
  <2>2. PICK s : s = [clearPendingArchive(state[j]) EXCEPT !.last = state[j].fp, !.mir = FALSE, !.category = ""]
    OBVIOUS
  <2>3. clearPendingArchive(state[j]) \in JobState /\ ~clearPendingArchive(state[j]).staged BY EndType
  <2>4. s \in JobState /\ ~s.staged BY <1>0, <2>2, <2>3 DEF JobState, Categories
  <2>5. SaveLast(j, s) BY <1>8, <2>2 DEF SaveSent
  <2>6. /\ StateOK'
        /\ budget' \in [changes : Nat, actions : Nat, cancels : Nat, crashes : Nat, faults : Nat]
    BY <2>4, <2>5, SaveLastType
  <2> QED BY <1>8, <2>1, <2>6 DEF SaveSent, TypeOK, StateOK, outer, station
<1>4. ASSUME FailRetryable(j) PROVE TypeOK'
  <2>1. work' \in [Jobs -> Work] BY <1>4, GoType DEF FailRetryable, Pcs
  <2>2. spool' \subseteq spool BY <1>4 DEF FailRetryable
  <2>3. {j} \in SUBSET Jobs OBVIOUS
  <2>4. late' \subseteq Jobs \X Contents BY <1>4, <2>3, GiveUpAdds DEF FailRetryable
  <2> QED BY <1>4, <2>1, <2>2, <2>4 DEF FailRetryable, TypeOK, outer
<1>9. ASSUME SaveFailed(j) PROVE TypeOK'
  <2>1. work' \in [Jobs -> Work] BY <1>9, DoneType DEF SaveFailed
  <2>2. PICK s : s = [state[j] EXCEPT !.category = "other", !.retry = TRUE, !.mir = FALSE] OBVIOUS
  <2>3. PICK t : t = IF settings.keep THEN s ELSE discardPendingArchiveFile(s) OBVIOUS
  <2>4. t \in JobState /\ (t.staged => t.fp # None) BY <1>a, <2>2, <2>3, EndType
  <2>5. SaveLast(j, t) BY <1>9, <2>2, <2>3 DEF SaveFailed
  <2>6. /\ StateOK'
        /\ budget' \in [changes : Nat, actions : Nat, cancels : Nat, crashes : Nat, faults : Nat]
    BY <2>4, <2>5, SaveLastType
  <2> QED BY <1>9, <2>1, <2>6 DEF SaveFailed, TypeOK, StateOK, outer, station
<1>5. ASSUME NEW category \in {"approval", "other"}, Held(j, category) PROVE TypeOK'
  <2>1. work' \in [Jobs -> Work] BY <1>5, DoneType DEF Held
  <2>2. StateOK' BY <1>5, <1>a, EndType, SaveType DEF Held
  <2> QED BY <1>5, <2>1, <2>2 DEF Held, TypeOK, StateOK, outer, station
<1>6. ASSUME Accept(j) PROVE TypeOK'
  <2>1. work' \in [Jobs -> Work] BY <1>6, DoneType DEF Accept
  <2>2. Accepted(anomalies[j]) \in [history : SUBSET Contents, pending : Contents \cup {None}]
    BY DEF Accepted, TypeOK
  <2>3. anomalies' \in [Jobs -> [history : SUBSET Contents, pending : Contents \cup {None}]]
    BY <1>6, <2>2 DEF Accept, TypeOK, station
  <2>4. budget' \in [changes : Nat, actions : Nat, cancels : Nat, crashes : Nat, faults : Nat]
    BY <1>6, SpendType DEF Accept, TypeOK, station
  <2> QED BY <1>6, <2>1, <2>3, <2>4 DEF Accept, TypeOK, outer, station
<1>7. ASSUME CancelWork(j) PROVE TypeOK'
  <2> DEFINE s == [state[j] EXCEPT !.retry = FALSE, !.mir = FALSE, !.category = ""]
  <2>1. work' \in [Jobs -> Work] BY <1>7, DoneType DEF CancelWork
  <2>2. s \in JobState BY <1>0 DEF JobState, Categories
  <2>3. s.staged => s.fp # None BY <1>0, ContentsAssumption DEF JobState
  <2>4. StateOK' BY <1>7, <2>2, <2>3, SaveType DEF CancelWork
  <2>5. spool' \subseteq spool BY <1>7 DEF CancelWork
  <2>6. {j} \in SUBSET Jobs OBVIOUS
  <2>7. late' \subseteq Jobs \X Contents BY <1>7, <2>6, GiveUpAdds DEF CancelWork
  <2> QED BY <1>7, <2>1, <2>4, <2>5, <2>7 DEF CancelWork, TypeOK, StateOK, outer
<1> QED BY <1>1, <1>2, <1>3, <1>4, <1>5, <1>6, <1>7, <1>8, <1>9 DEF uploadPendingArchive, AskApproval, Refuse

LEMMA OperatorType ==
  ASSUME TypeOK, NEW j \in Jobs,
         \/ SendStaged(j) \/ SendNew(j) \/ ForceSend(j) \/ Recover(j) \/ ClearStagedBackup(j)
         \/ RemoveLargeUploadApproval(j) \/ DeleteJob(j) \/ SaveJob(j) \/ Change(j) \/ RetryDue(j) \/ StoredLate(j)
  PROVE  TypeOK'
<1>0. /\ state[j] \in JobState /\ work[j] \in Work
      /\ state[j].staged => state[j].fp \in Contents
      /\ state[j].staged => state[j].fp # None
  BY DEF TypeOK, JobState
<1> DEFINE Budget == [changes : Nat, actions : Nat, cancels : Nat, crashes : Nat, faults : Nat]
<1>b. budget \in Budget BY DEF TypeOK
<1>c. \A s \in JobState : (s.staged => s.fp # None) /\ Save(j, s) => StateOK' BY SaveType
<1>1. ASSUME SendStaged(j) PROVE TypeOK'
  <2>1. work' \in [Jobs -> Work] BY <1>1, DoneType, GoType DEF SendStaged, Pcs
  <2>2. [state[j] EXCEPT !.approved = TRUE, !.mir = FALSE, !.retry = FALSE] \in JobState
    BY <1>0 DEF JobState
  <2>3. [state[j] EXCEPT !.mir = TRUE] \in JobState BY <1>0 DEF JobState
  <2>4. [state[j] EXCEPT !.mir = FALSE, !.retry = FALSE] \in JobState BY <1>0 DEF JobState
  <2>5. /\ [state[j] EXCEPT !.approved = TRUE, !.mir = FALSE, !.retry = FALSE].fp = state[j].fp
        /\ [state[j] EXCEPT !.mir = TRUE].fp = state[j].fp
        /\ [state[j] EXCEPT !.mir = FALSE, !.retry = FALSE].fp = state[j].fp
    BY <1>0 DEF JobState
  <2>6. state[j].fp # None BY <1>0, <1>1 DEF SendStaged, Present
  <2>7. StateOK' BY <1>1, <1>c, <2>2, <2>3, <2>4, <2>5, <2>6 DEF SendStaged
  <2>8. budget' \in Budget BY <1>1, <1>b, SpendType DEF SendStaged
  <2>9. approvals' \subseteq Jobs BY <1>1 DEF SendStaged, TypeOK, station
  <2> QED BY <1>1, <2>1, <2>7, <2>8, <2>9 DEF SendStaged, TypeOK, StateOK, station
<1>2. ASSUME SendNew(j) PROVE TypeOK'
  <2>1. work' \in [Jobs -> Work] BY <1>2, GoType DEF SendNew, Pcs
  <2> QED BY <1>2, <2>1 DEF SendNew, TypeOK, outer, station
<1>3. ASSUME ForceSend(j) PROVE TypeOK'
  <2>1. [work[j] EXCEPT !.pc = "force"] \in Work BY <1>0 DEF Work, Pcs
  <2>2. work' \in [Jobs -> Work] BY <1>3, <2>1 DEF ForceSend, TypeOK, station
  <2> DEFINE s == IF state[j].mir THEN [state[j] EXCEPT !.mir = FALSE, !.retry = FALSE] ELSE state[j]
  <2>3. s \in JobState /\ s.fp = state[j].fp /\ s.staged = state[j].staged BY <1>0 DEF JobState
  <2>4. StateOK' BY <1>0, <1>3, <1>c, <2>3 DEF ForceSend
  <2>5. budget' \in Budget BY <1>3, SpendType DEF ForceSend
  <2>6. passed' \in [Jobs -> SUBSET Contents] BY <1>0, <1>3 DEF ForceSend, Present, TypeOK
  <2>7. op' \in [kind : Kinds, job : Jobs \cup {None}, cancelled : BOOLEAN]
    BY <1>3 DEF ForceSend, NoOp, Kinds
  <2> QED BY <1>3, <2>2, <2>4, <2>5, <2>6, <2>7 DEF ForceSend, TypeOK, StateOK, station
<1>4. ASSUME Recover(j) PROVE TypeOK'
  <2>1. PICK kind \in {"recover", "preview"} :
          /\ op' = [NoOp EXCEPT !.kind = kind, !.job = j]
          /\ Save(j, IF kind = "recover" THEN [state[j] EXCEPT !.category = ""] ELSE state[j])
    BY <1>4 DEF Recover
  <2>2. [state[j] EXCEPT !.category = ""] \in JobState /\ [state[j] EXCEPT !.category = ""].fp = state[j].fp
        /\ [state[j] EXCEPT !.category = ""].staged = state[j].staged
    BY <1>0 DEF JobState, Categories
  <2>3. StateOK' BY <1>0, <1>c, <2>1, <2>2
  <2>4. budget' \in Budget BY <1>4, SpendType DEF Recover
  <2>5. op' \in [kind : Kinds, job : Jobs \cup {None}, cancelled : BOOLEAN]
    BY <2>1 DEF NoOp, Kinds
  <2> QED BY <1>4, <2>3, <2>4, <2>5 DEF Recover, TypeOK, StateOK, station
<1>5. ASSUME ClearStagedBackup(j) PROVE TypeOK'
  <2>1. [work[j] EXCEPT !.pc = "clear"] \in Work BY <1>0 DEF Work, Pcs
  <2>2. work' \in [Jobs -> Work] BY <1>5, <2>1 DEF ClearStagedBackup, TypeOK
  <2>3. spool' \subseteq spool BY <1>5 DEF ClearStagedBackup
  <2>4. op' \in [kind : Kinds, job : Jobs \cup {None}, cancelled : BOOLEAN]
    BY <1>5 DEF ClearStagedBackup, NoOp, Kinds
  <2>5. budget' \in Budget BY <1>5, SpendType DEF ClearStagedBackup
  <2> QED BY <1>5, <2>2, <2>3, <2>4, <2>5 DEF ClearStagedBackup, TypeOK, station
<1>6. ASSUME RemoveLargeUploadApproval(j) PROVE TypeOK'
  <2>1. /\ [state[j] EXCEPT !.approved = FALSE] \in JobState
        /\ [state[j] EXCEPT !.approved = FALSE].fp = state[j].fp
        /\ [state[j] EXCEPT !.approved = FALSE].staged = state[j].staged
    BY <1>0 DEF JobState
  <2>2. StateOK' BY <1>0, <1>6, <1>c, <2>1 DEF RemoveLargeUploadApproval
  <2>3. budget' \in Budget BY <1>6, SpendType DEF RemoveLargeUploadApproval
  <2>4. approvals' \subseteq Jobs BY <1>6 DEF RemoveLargeUploadApproval, TypeOK, station
  <2> QED BY <1>6, <2>2, <2>3, <2>4 DEF RemoveLargeUploadApproval, TypeOK, StateOK, station
<1>7. ASSUME DeleteJob(j) PROVE TypeOK'
  <2>1. Zero \in JobState /\ ~Zero.staged BY DEF Zero, JobState, Categories
  <2>2. StateOK' BY <1>7, <1>c, <2>1 DEF DeleteJob
  <2>3. budget' \in Budget BY <1>7, SpendType DEF DeleteJob
  <2>4. anomalies' \in [Jobs -> [history : SUBSET Contents, pending : Contents \cup {None}]]
    BY <1>7 DEF DeleteJob, TypeOK, station
  <2>5. configured' \subseteq Jobs BY <1>7 DEF DeleteJob, TypeOK, station
  <2> QED BY <1>7, <2>2, <2>3, <2>4, <2>5 DEF DeleteJob, TypeOK, StateOK, station
<1>8. ASSUME SaveJob(j) PROVE TypeOK'
  <2>1. budget' \in Budget BY <1>8, SpendType DEF SaveJob
  <2> QED BY <1>8, <2>1 DEF SaveJob, TypeOK, station
<1>9. ASSUME Change(j) PROVE TypeOK'
  <2>1. budget' \in Budget BY <1>9, SpendType DEF Change
  <2>2. files' \in [Jobs -> Contents \cup {None}] BY <1>9 DEF Change, TypeOK, station
  <2> QED BY <1>9, <2>1, <2>2 DEF Change, TypeOK, station
<1>10. ASSUME RetryDue(j) PROVE TypeOK'
  <2>1. /\ [state[j] EXCEPT !.retry = FALSE] \in JobState
        /\ [state[j] EXCEPT !.retry = FALSE].fp = state[j].fp
        /\ [state[j] EXCEPT !.retry = FALSE].staged = state[j].staged
    BY <1>0 DEF JobState
  <2>2. StateOK' BY <1>0, <1>10, <1>c, <2>1 DEF RetryDue
  <2> QED BY <1>10, <2>2 DEF RetryDue, TypeOK, StateOK, outer, station
<1>11. ASSUME StoredLate(j) PROVE TypeOK'
  <2>1. PICK c \in Contents : StoredAs(j, c) BY <1>11 DEF StoredLate
  <2>2. stored' \in [Jobs -> SUBSET Contents] /\ late' \subseteq late BY <2>1 DEF StoredAs, TypeOK
  <2> QED BY <1>11, <2>2 DEF StoredLate, TypeOK, outer
<1> QED BY <1>1, <1>2, <1>3, <1>4, <1>5, <1>6, <1>7, <1>8, <1>9, <1>10, <1>11

LEMMA ProcessType ==
  ASSUME TypeOK, IInv,
         \/ RunCycle \/ FinishOperation \/ UpdateSettings \/ CancelOperation \/ Crash \/ Lose
  PROVE  TypeOK'
<1> DEFINE Budget == [changes : Nat, actions : Nat, cancels : Nat, crashes : Nat, faults : Nat]
<1>b. budget \in Budget BY DEF TypeOK
<1>o. NoOp \in [kind : Kinds, job : Jobs \cup {None}, cancelled : BOOLEAN] BY DEF NoOp, Kinds
<1>w. NoWork \in Work BY DEF NoWork, Work, Pcs
<1>1. ASSUME RunCycle PROVE TypeOK'
  <2>1. [NoWork EXCEPT !.pc = "prepare"] \in Work BY DEF NoWork, Work, Pcs
  <2>2. work' \in [Jobs -> Work] BY <1>1, <1>w, <2>1 DEF RunCycle
  <2>3. op' \in [kind : Kinds, job : Jobs \cup {None}, cancelled : BOOLEAN]
    BY <1>1 DEF RunCycle, NoOp, Kinds
  <2> QED BY <1>1, <2>2, <2>3 DEF RunCycle, TypeOK, station
<1>2. ASSUME FinishCycle PROVE TypeOK'
  <2>1. spool' \subseteq spool BY <1>2 DEF FinishCycle
  <2>2. budget' \in Budget BY <1>2, <1>b, SpendType DEF FinishCycle
  <2> QED BY <1>2, <1>o, <2>1, <2>2 DEF FinishCycle, TypeOK, station
<1>3. ASSUME FinishJob \/ FinishPreview PROVE TypeOK'
  BY <1>3, <1>o DEF FinishJob, FinishPreview, TypeOK, station
<1>4. ASSUME FinishRecover PROVE TypeOK'
  <2>0. op.job \in Jobs BY <1>4 DEF FinishRecover, IInv, Structure
  <2>1. state[op.job] \in JobState /\ (state[op.job].staged => state[op.job].fp # None)
    BY <2>0 DEF TypeOK
  <2>2. ASSUME NEW category \in {"", "other"}, Save(op.job, [state[op.job] EXCEPT !.category = category])
        PROVE  StateOK'
    <3>1. PICK s : s = [state[op.job] EXCEPT !.category = category] OBVIOUS
    <3>2. s \in JobState /\ (s.staged => s.fp # None) BY <2>1, <3>1 DEF JobState, Categories
    <3> QED BY <2>0, <2>2, <3>1, <3>2 DEF TypeOK, StateOK, Save
  <2>3. StateOK' BY <1>4, <2>2 DEF FinishRecover
  <2>4. budget' \in Budget BY <1>4, <1>b, SpendType DEF FinishRecover
  <2>f. files' = files \/ \E c \in Contents : files' = [files EXCEPT ![op.job] = c]
    <3>1. stored[op.job] \subseteq Contents BY <2>0 DEF TypeOK
    <3> QED BY <1>4, <3>1 DEF FinishRecover
  <2>5. files' \in [Jobs -> Contents \cup {None}] BY <2>f DEF TypeOK
  <2> QED BY <1>4, <1>o, <2>3, <2>4, <2>5 DEF FinishRecover, TypeOK, StateOK, station
<1>5. ASSUME UpdateSettings PROVE TypeOK'
  <2>1. budget' \in Budget BY <1>5, SpendType DEF UpdateSettings
  <2> QED BY <1>5, <2>1 DEF UpdateSettings, TypeOK, station
<1>6. ASSUME CancelOperation PROVE TypeOK'
  <2>1. budget' \in Budget BY <1>6, SpendType DEF CancelOperation
  <2> QED BY <1>6, <2>1 DEF CancelOperation, TypeOK, station
<1>7. ASSUME Crash PROVE TypeOK'
  <2>1. budget' \in Budget BY <1>7, SpendType DEF Crash
  <2>2. late' \subseteq Jobs \X Contents BY <1>7, GiveUpAdds DEF Crash
  <2> QED BY <1>7, <1>o, <1>w, <2>1, <2>2 DEF Crash, TypeOK
<1>8. ASSUME Lose PROVE TypeOK'
  <2>1. budget' \in Budget BY <1>8, SpendType DEF Lose
  <2> QED BY <1>8, <2>1 DEF Lose, TypeOK, station
<1> QED BY <1>1, <1>2, <1>3, <1>4, <1>5, <1>6, <1>7, <1>8 DEF FinishOperation

LEMMA TypeStep == TypeOK /\ IInv /\ [Next]_vars => TypeOK'
<1>1. ASSUME TypeOK, UNCHANGED vars PROVE TypeOK'
  BY <1>1 DEF vars, TypeOK
<1> QED BY <1>1, PrepareType, UploadType, OperatorType, ProcessType DEF Next, processJob
-----------------------------------------------------------------------------
(* Bounds and the cycle lock *)

LEMMA BudgetChanges ==
  ASSUME Next
  PROVE  /\ UNCHANGED budget \/ \E b \in {"changes", "actions", "cancels", "crashes", "faults"} : Spend(b)
         /\ op' = op \/ ~op'.cancelled \/ Spend("cancels")
<1>1. ASSUME NEW j \in Jobs, processJob(j)
      PROVE  op' = op /\ (UNCHANGED budget \/ Spend("faults"))
  <2>1. CASE SendStaged(j) \/ SendNew(j) \/ CancelWork(j)
    BY <2>1 DEF SendStaged, SendNew, CancelWork, outer
  <2>2. CASE prepareArchiveLocked(j)
    BY <2>2 DEF prepareArchiveLocked, UploadNow, Wait, Scan, ClearPending, SaveCleared, SaveLast, Build,
                BuildFails, Review, Point, outer
  <2>3. CASE uploadPendingArchive(j)
    BY <2>3 DEF uploadPendingArchive, UploadStart, Stored, Succeed, SaveSent, FailRetryable, SaveFailed,
                SaveLast, AskApproval, Refuse, Held, Accept, outer
  <2> QED BY <1>1, <2>1, <2>2, <2>3 DEF processJob
<1>2. ASSUME NEW j \in Jobs,
             \/ ForceSend(j) \/ Recover(j) \/ ClearStagedBackup(j) \/ RemoveLargeUploadApproval(j)
             \/ DeleteJob(j) \/ SaveJob(j) \/ Change(j) \/ RetryDue(j) \/ StoredLate(j)
      PROVE  /\ op' = op \/ ~op'.cancelled
             /\ UNCHANGED budget \/ Spend("actions") \/ Spend("faults") \/ Spend("changes")
  <2>1. \A kind, job : ~[NoOp EXCEPT !.kind = kind, !.job = job].cancelled BY DEF NoOp
  <2> QED BY <1>2, <2>1 DEF ForceSend, Recover, ClearStagedBackup, RemoveLargeUploadApproval, DeleteJob, SaveJob,
               Change, RetryDue, StoredLate, outer
<1>3. ASSUME RunCycle \/ FinishOperation \/ UpdateSettings \/ CancelOperation \/ Crash \/ Lose
      PROVE  /\ op' = op \/ ~op'.cancelled \/ Spend("cancels")
             /\ \/ UNCHANGED budget \/ Spend("changes") \/ Spend("actions") \/ Spend("cancels")
                \/ Spend("crashes") \/ Spend("faults")
  <2>1. ~NoOp.cancelled /\ \A kind : ~[NoOp EXCEPT !.kind = kind].cancelled BY DEF NoOp
  <2> QED BY <1>3, <2>1 DEF RunCycle, FinishOperation, FinishCycle, FinishJob, FinishRecover, FinishPreview,
               UpdateSettings, CancelOperation, Crash, Lose
<1> QED BY <1>1, <1>2, <1>3 DEF Next

LEMMA BudgetStep ==
  ASSUME TypeOK, Budgets, Next
  PROVE  /\ Budgets'
         /\ NoFaults' => NoFaults
         /\ NoCancels' => NoCancels
<1>0. MaxFaults \in Nat /\ MaxCancels \in Nat /\ budget.faults \in Nat /\ budget.cancels \in Nat
  BY BoundsAssumption DEF TypeOK
<1>1. budget'.faults \in Nat /\ budget'.cancels \in Nat
      /\ budget'.faults <= budget.faults /\ budget'.cancels <= budget.cancels
  <2>1. CASE UNCHANGED budget BY <1>0, <2>1
  <2>2. ASSUME NEW b \in {"changes", "actions", "cancels", "crashes", "faults"}, Spend(b)
        PROVE  budget'.faults \in Nat /\ budget'.cancels \in Nat
               /\ budget'.faults <= budget.faults /\ budget'.cancels <= budget.cancels
    BY <2>2, SpendType
  <2> QED BY <2>1, <2>2, BudgetChanges
<1>2. op' = op \/ ~op'.cancelled \/ budget'.cancels < budget.cancels
  BY BudgetChanges, SpendType
<1> QED BY <1>0, <1>1, <1>2 DEF Budgets, NoFaults, NoCancels

\* A worker stays at work or becomes idle.
LEMMA WorkerGoesOn ==
  ASSUME TypeOK, NEW j \in Jobs, processJob(j)
  PROVE  /\ op' = op
         /\ ~At(j, "idle")
         /\ \A k \in Jobs : k # j => work'[k] = work[k]
<1>1. CASE SendStaged(j) \/ SendNew(j) \/ CancelWork(j)
  BY <1>1 DEF SendStaged, SendNew, CancelWork, At, Go, Done, TypeOK, outer
<1>2. CASE prepareArchiveLocked(j)
  <2>1. CASE UploadNow(j) \/ Wait(j) BY <2>1 DEF UploadNow, Wait, At, Go, Done, TypeOK, outer
  <2>2. CASE Scan(j) BY <2>2 DEF Scan, Skip, At, Go, Done, TypeOK, outer
  <2>5. CASE ClearPending(j) \/ SaveCleared(j)
    BY <2>5 DEF ClearPending, SaveCleared, At, Go, Done, TypeOK, outer
  <2>3. CASE Build(j) \/ BuildFails(j) BY <2>3 DEF Build, BuildFails, At, Go, Done, TypeOK, outer
  <2>4. CASE Review(j) \/ Point(j) BY <2>4 DEF Review, Point, At, Go, Done, TypeOK, outer
  <2> QED BY <1>2, <2>1, <2>2, <2>3, <2>4, <2>5 DEF prepareArchiveLocked
<1>3. CASE uploadPendingArchive(j)
  <2>1. CASE UploadStart(j) \/ Stored(j) BY <2>1 DEF UploadStart, Stored, At, Go, Done, TypeOK, outer
  <2>2. CASE Succeed(j) \/ FailRetryable(j) \/ Accept(j)
    BY <2>2 DEF Succeed, FailRetryable, Accept, At, Go, Done, TypeOK, outer
  <2>4. CASE SaveSent(j) \/ SaveFailed(j) BY <2>4 DEF SaveSent, SaveFailed, At, Go, Done, TypeOK, outer
  <2>3. CASE AskApproval(j) \/ Refuse(j) BY <2>3 DEF AskApproval, Refuse, Held, At, Go, Done, TypeOK, outer
  <2> QED BY <1>3, <2>1, <2>2, <2>3, <2>4 DEF uploadPendingArchive
<1> QED BY <1>1, <1>2, <1>3 DEF processJob

LEMMA StructureStep ==
  ASSUME TypeOK, Structure, Next
  PROVE  Structure'
<1>1. ASSUME NEW j \in Jobs, processJob(j) PROVE Structure'
  BY <1>1, WorkerGoesOn DEF Structure, At
<1>2. ASSUME op' = op, work' = work PROVE Structure'
  BY <1>2 DEF Structure, At
<1>3. ASSUME \A k \in Jobs : work'[k].pc = "idle", op'.kind \in {"none", "cycle"} \/ op'.job \in Jobs
      PROVE  Structure'
  BY <1>3 DEF Structure, At
<1>4. ASSUME NEW j \in Jobs, ForceSend(j) \/ ClearStagedBackup(j) PROVE Structure'
  <2>1. op'.kind \in {"force", "clear"} /\ op'.job = j BY <1>4 DEF ForceSend, ClearStagedBackup, NoOp
  <2>2. \A k \in Jobs : k # j => work'[k].pc = "idle"
    BY <1>4 DEF ForceSend, ClearStagedBackup, Structure, At, TypeOK
  <2> QED BY <2>1, <2>2 DEF Structure, At
<1>5. ASSUME NEW j \in Jobs, Recover(j) PROVE Structure'
  <2>1. op'.job = j BY <1>5 DEF Recover, NoOp
  <2>2. \A k \in Jobs : work'[k].pc = "idle" BY <1>5 DEF Recover, Structure, At
  <2> QED BY <1>3, <2>1, <2>2
<1>6. ASSUME RunCycle PROVE Structure'
  <2>1. op'.kind = "cycle" BY <1>6 DEF RunCycle, NoOp
  <2> QED BY <2>1 DEF Structure
<1>7. ASSUME FinishOperation \/ Crash PROVE Structure'
  <2>0. op' = NoOp
    <3>1. CASE FinishRecover \/ FinishPreview BY <3>1 DEF FinishRecover, FinishPreview
    <3>2. CASE FinishCycle \/ FinishJob \/ Crash BY <3>2 DEF FinishCycle, FinishJob, Crash
    <3> QED BY <1>7, <3>1, <3>2 DEF FinishOperation
  <2>1. op'.kind = "none" BY <2>0 DEF NoOp
  <2>2. \A k \in Jobs : work'[k].pc = "idle"
    <3>1. CASE Crash BY <3>1 DEF Crash, NoWork
    <3>2. CASE FinishCycle \/ FinishJob BY <3>2 DEF FinishCycle, FinishJob, At
    <3>3. CASE FinishRecover \/ FinishPreview BY <3>3 DEF FinishRecover, FinishPreview, Structure, At
    <3> QED BY <1>7, <3>1, <3>2, <3>3 DEF FinishOperation
  <2> QED BY <1>3, <2>1, <2>2
<1>8. ASSUME CancelOperation PROVE Structure'
  <2>1. op'.kind = op.kind /\ op'.job = op.job BY <1>8 DEF CancelOperation, TypeOK
  <2> QED BY <1>8, <2>1 DEF CancelOperation, Structure, At
<1>9. ASSUME NEW j \in Jobs,
             \/ RemoveLargeUploadApproval(j) \/ DeleteJob(j) \/ SaveJob(j)
             \/ Change(j) \/ RetryDue(j) \/ StoredLate(j)
      PROVE  Structure'
  BY <1>2, <1>9 DEF RemoveLargeUploadApproval, DeleteJob, SaveJob, Change, RetryDue, StoredLate, outer
<1>10. ASSUME UpdateSettings \/ Lose PROVE Structure'
  BY <1>2, <1>10 DEF UpdateSettings, Lose
<1> QED BY <1>1, <1>4, <1>5, <1>6, <1>7, <1>8, <1>9, <1>10 DEF Next
-----------------------------------------------------------------------------
(* What a worker may rely on *)

\* Nothing of job k changes but what does not matter to it.
Untouched(k) ==
  /\ work'[k] = work[k]
  /\ state'[k] = state[k]
  /\ stored'[k] = stored[k]
  /\ passed'[k] = passed[k]
  /\ k \in approvals => k \in approvals'
  /\ \A c, t : <<k, c, t>> \in spool <=> <<k, c, t>> \in spool'
  /\ \A c : <<k, c>> \in late' => <<k, c>> \in late

LEMMA JobFrame ==
  ASSUME NEW k \in Jobs, JobInv(k), Untouched(k), NoFaults' => NoFaults, NoCancels' => NoCancels
  PROVE  JobInv(k)'
BY DEF JobInv, SentIsStored, AllowedIsApproved, NewIsPresent, DueIsPassed, JobLastIsStored, Untouched,
       Sending, Preparing, Due, At, NewName, Present, Name

LEMMA OthersUntouched ==
  ASSUME TypeOK, IInv, NEW j \in Jobs, NEW k \in Jobs, k # j,
         \/ processJob(j) \/ ForceSend(j) \/ Recover(j) \/ ClearStagedBackup(j) \/ DeleteJob(j)
         \/ RemoveLargeUploadApproval(j) \/ StoredLate(j)
  PROVE  Untouched(k)
<1>1. \A c, t : <<k, c, t>> \notin Archive(j) BY DEF Archive, Name
<1>a. GiveUp({j}) => \A c : <<k, c>> \in late' => <<k, c>> \in late
  <2>1. {j} \in SUBSET Jobs OBVIOUS
  <2> QED BY <2>1, GiveUpAdds
<1>b. \A c, d : <<k, d>> \in late \ {<<j, c>>} => <<k, d>> \in late OBVIOUS
<1>2. CASE processJob(j)
  <2>0. work'[k] = work[k] BY <1>2, WorkerGoesOn
  <2>1. CASE SendStaged(j) \/ SendNew(j)
    BY <2>0, <2>1 DEF SendStaged, SendNew, Save, Untouched, TypeOK, outer, station
  <2>8. CASE CancelWork(j)
    BY <1>a, <2>0, <2>8 DEF CancelWork, NewName, Save, Untouched, TypeOK, outer, station
  <2>c. CASE Build(j)
    BY <2>0, <2>c DEF Build, NewName, Untouched, TypeOK, outer, station
  <2>2. CASE UploadNow(j) \/ Wait(j) \/ BuildFails(j) \/ Point(j)
    BY <1>1, <2>0, <2>2 DEF UploadNow, Wait, BuildFails, Point, Save, Untouched, TypeOK, outer, station
  <2>3. CASE Scan(j)
    BY <1>1, <2>0, <2>3 DEF Scan, Skip, Save, Untouched, TypeOK, outer, station
  <2>9. CASE ClearPending(j) \/ SaveCleared(j)
    BY <2>0, <2>9 DEF ClearPending, SaveCleared, SaveLast, Save, Untouched, TypeOK, outer, station
  <2>4. CASE Review(j)
    BY <1>1, <2>0, <2>4 DEF Review, Untouched, TypeOK, outer, station
  <2>5. CASE UploadStart(j) \/ Succeed(j)
    BY <1>1, <2>0, <2>5 DEF UploadStart, Succeed, Save, Untouched, TypeOK, outer, station
  <2>a. CASE Stored(j)
    BY <1>b, <2>0, <2>a DEF Stored, StoredAs, Untouched, TypeOK, outer
  <2>6. CASE FailRetryable(j)
    BY <1>1, <1>a, <2>0, <2>6 DEF FailRetryable, Untouched, TypeOK, outer
  <2>b. CASE SaveSent(j) \/ SaveFailed(j) \/ Accept(j)
    BY <2>0, <2>b DEF SaveSent, SaveFailed, SaveLast, Accept, Save, Untouched, TypeOK, outer, station
  <2>7. CASE AskApproval(j) \/ Refuse(j)
    BY <2>0, <2>7 DEF AskApproval, Refuse, Held, Save, Untouched, TypeOK, outer, station
  <2> QED BY <1>2, <2>1, <2>2, <2>3, <2>4, <2>5, <2>6, <2>7, <2>8, <2>9, <2>a, <2>b, <2>c
       DEF processJob, prepareArchiveLocked, uploadPendingArchive
<1>3. CASE ForceSend(j) BY <1>3 DEF ForceSend, Save, Untouched, TypeOK, station
<1>4. CASE Recover(j) BY <1>4 DEF Recover, Save, Untouched, TypeOK, station
<1>5. CASE ClearStagedBackup(j) BY <1>1, <1>5 DEF ClearStagedBackup, Untouched, TypeOK, station
<1>6. CASE DeleteJob(j) BY <1>6 DEF DeleteJob, Save, Untouched, TypeOK, station
<1>7. CASE RemoveLargeUploadApproval(j)
  BY <1>7 DEF RemoveLargeUploadApproval, Save, Untouched, TypeOK, station
<1>8. CASE StoredLate(j)
  BY <1>b, <1>8 DEF StoredLate, StoredAs, Untouched, TypeOK, outer
<1> QED BY <1>2, <1>3, <1>4, <1>5, <1>6, <1>7, <1>8

\* What of a job's state JobInv is about: the fields of s that it keeps, next to state[j].
SameStaged(s, t) == s.last = t.last /\ s.staged = t.staged /\ s.fp = t.fp /\ s.time = t.time

\* An archive that is gone does not come back.
NoReturn(j) == Name(j) \in spool' => Name(j) \in spool

\* A worker that ends leaves a state that says no more than it did.
LEMMA DoneInv ==
  ASSUME TypeOK, NEW j \in Jobs, JobInv(j), Done(j), NEW s \in JobState, Save(j, s),
         SameStaged(s, state[j]),
         NoFaults' /\ NoCancels' /\ Present(j) /\ (~s.mir \/ s.category = "approval") => s.fp \in passed[j],
         NoFaults' /\ NoCancels' => NoReturn(j) /\ \A c : <<j, c>> \in late' => <<j, c>> \in late,
         UNCHANGED <<stored, passed>>, NoFaults' => NoFaults, NoCancels' => NoCancels
  PROVE  JobInv(j)'
<1>1. work'[j] = NoWork /\ state'[j] = s BY DEF Done, Save, TypeOK
<1>2. work'[j].pc = "idle" BY <1>1 DEF NoWork
<1>3. NoReturn(j) => (Present(j)' => Present(j)) BY <1>1 DEF NoReturn, Present, Name, SameStaged
<1> QED BY <1>1, <1>2, <1>3 DEF JobInv, SentIsStored, AllowedIsApproved, NewIsPresent, DueIsPassed, JobLastIsStored,
           Sending, Preparing, Due, At, SameStaged

\* A worker that ends and leaves nothing staged.
LEMMA ClearedInv ==
  ASSUME TypeOK, NEW j \in Jobs, JobInv(j), Done(j), NEW s \in JobState, Save(j, s), ~s.staged,
         s.last \in {state[j].last, None} \/ s.last \in stored[j],
         UNCHANGED <<stored, late, passed>>, NoFaults' => NoFaults, NoCancels' => NoCancels
  PROVE  JobInv(j)'
<1>1. work'[j] = NoWork /\ state'[j] = s BY DEF Done, Save, TypeOK
<1>2. work'[j].pc = "idle" BY <1>1 DEF NoWork
<1> QED BY <1>1, <1>2 DEF JobInv, SentIsStored, AllowedIsApproved, NewIsPresent, DueIsPassed, JobLastIsStored,
           Sending, Preparing, Due, At, Present

\* A worker that goes on to another point, and a state that is as it was.
LEMMA MoveInv ==
  ASSUME TypeOK, NEW j \in Jobs, JobInv(j), NEW pc \in {"prepare", "clear", "cleared", "queued"}, Go(j, pc),
         NEW s \in JobState, state'[j] = s,
         SameStaged(s, state[j]) \/ (~s.staged /\ s.last = state[j].last), NoReturn(j),
         NoFaults' /\ NoCancels' /\ s.staged /\ Present(j) =>
           s.fp \in passed[j] \/ (s.mir /\ s.category # "approval" /\ pc # "queued"),
         UNCHANGED <<stored, late, passed>>, NoFaults' => NoFaults, NoCancels' => NoCancels
  PROVE  JobInv(j)'
<1>1. work'[j].pc = pc BY DEF Go, TypeOK, Work
<1>2. Present(j)' => Present(j) /\ s.staged BY DEF NoReturn, Present, Name, SameStaged
<1> QED BY <1>1, <1>2 DEF JobInv, SentIsStored, AllowedIsApproved, NewIsPresent, DueIsPassed, JobLastIsStored,
           Sending, Preparing, Due, At, SameStaged

LEMMA LoadedKeeps ==
  ASSUME TypeOK, NEW j \in Jobs
  PROVE  /\ SameStaged(Loaded(j), state[j])
         /\ Loaded(j).category = state[j].category
         /\ Loaded(j).mir => state[j].mir
         /\ ~Loaded(j).mir => ~state[j].mir \/ state[j].category = "approval"
         /\ Scanned(j).mir = Loaded(j).mir
         /\ Scanned(j).last = state[j].last
         /\ Scanned(j).category \in {"", state[j].category}
         /\ Scanned(j).category # "" => Scanned(j).mir
         /\ SameStaged(Scanned(j), state[j]) \/ ~Scanned(j).staged
<1>0. state[j] \in JobState BY DEF TypeOK
<1>1. /\ SameStaged(Loaded(j), state[j])
      /\ Loaded(j).category = state[j].category
      /\ Loaded(j).mir => state[j].mir
      /\ ~Loaded(j).mir => ~state[j].mir \/ state[j].category = "approval"
  BY <1>0 DEF Loaded, Remembered, JobState, SameStaged
<1>2. Loaded(j) \in JobState BY LoadedType
<1>3. /\ clearPendingArchive(Loaded(j)) \in JobState
      /\ clearPendingArchive(Loaded(j)).mir = Loaded(j).mir
      /\ clearPendingArchive(Loaded(j)).last = Loaded(j).last
      /\ clearPendingArchive(Loaded(j)).category = Loaded(j).category
      /\ ~clearPendingArchive(Loaded(j)).staged
  BY <1>2 DEF clearPendingArchive, discardPendingArchiveFile, JobState
<1>4. PICK s \in JobState : /\ Scanned(j) = IF s.mir /\ s.category \in {"unusual", "approval"} THEN s
                                            ELSE [s EXCEPT !.category = ""]
                            /\ s = Loaded(j) \/ s = clearPendingArchive(Loaded(j))
  BY <1>2, <1>3 DEF Scanned
<1>5. /\ s.mir = Loaded(j).mir /\ s.last = state[j].last /\ s.category = state[j].category
      /\ SameStaged(s, state[j]) \/ ~s.staged
  BY <1>1, <1>3, <1>4 DEF SameStaged
<1>6. /\ Scanned(j).mir = s.mir /\ Scanned(j).last = s.last /\ Scanned(j).staged = s.staged
      /\ Scanned(j).fp = s.fp /\ Scanned(j).time = s.time
      /\ Scanned(j).category \in {"", s.category}
      /\ Scanned(j).category # "" => s.mir
  BY <1>4 DEF JobState
<1> QED BY <1>1, <1>5, <1>6 DEF SameStaged

LEMMA NewIsAnother ==
  ASSUME TypeOK, NEW j \in Jobs
  PROVE  NewName(j) # Name(j)
<1>1. state[j].time \in {0, 1} BY DEF TypeOK, JobState
<1> QED BY <1>1 DEF NewName, Name

LEMMA PrepareInv ==
  ASSUME TypeOK, IInv, NEW j \in Jobs, prepareArchiveLocked(j), NoFaults' => NoFaults, NoCancels' => NoCancels
  PROVE  JobInv(j)'
<1>0. JobInv(j) /\ state[j] \in JobState /\ work[j] \in Work BY DEF IInv, TypeOK
<1>a. NoFaults /\ NoCancels /\ Present(j) /\ (~state[j].mir \/ state[j].category = "approval")
        => state[j].fp \in passed[j]
  BY <1>0 DEF JobInv, DueIsPassed, Due
<1>1. ASSUME UploadNow(j) PROVE JobInv(j)'
  <2>1. state'[j] = state[j] /\ SameStaged(state[j], state[j]) BY <1>1 DEF UploadNow, SameStaged
  <2>2. NoFaults' /\ NoCancels' /\ Present(j) => state[j].fp \in passed[j]
    BY <1>1, <1>a, LoadedKeeps DEF UploadNow
  <2>3. NoReturn(j) BY <1>1 DEF UploadNow, NoReturn
  <2> QED BY <1>0, <1>1, <2>1, <2>2, <2>3, MoveInv DEF UploadNow, station
<1>2. ASSUME Wait(j) PROVE JobInv(j)'
  <2>1. PICK s \in JobState : s = Loaded(j) BY LoadedType
  <2>2. SameStaged(s, state[j]) BY <2>1, LoadedKeeps
  <2>3. NoFaults' /\ NoCancels' /\ Present(j) /\ (~s.mir \/ s.category = "approval") => s.fp \in passed[j]
    BY <1>a, <2>1, LoadedKeeps DEF SameStaged
  <2>4. Done(j) /\ Save(j, s) /\ UNCHANGED <<stored, late, passed>> /\ NoReturn(j)
    BY <1>2, <2>1 DEF Wait, NoReturn, station
  <2> QED BY <1>0, <2>2, <2>3, <2>4, DoneInv
<1>3. ASSUME Scan(j) PROVE JobInv(j)'
  <2>1. PICK s \in JobState : s = Scanned(j) BY LoadedType
  <2>2. SameStaged(s, state[j]) \/ (~s.staged /\ s.last = state[j].last) BY <2>1, LoadedKeeps
  <2>3. s.last = state[j].last BY <2>1, LoadedKeeps
  <2>4. NoFaults' /\ NoCancels' /\ s.staged /\ Present(j) /\ (~s.mir \/ s.category = "approval")
          => s.fp \in passed[j]
    BY <1>a, <2>1, <2>2, LoadedKeeps DEF SameStaged
  <2>r. NoReturn(j) BY <1>3 DEF Scan, Skip, NoReturn
  <2>5. Save(j, s) /\ state'[j] = s /\ UNCHANGED <<stored, late, passed>>
    BY <1>3, <2>1 DEF Scan, Save, TypeOK, station
  <2>6. CASE Skip(j)
    <3>1. PICK pc \in {"clear", "cleared"} : Go(j, pc) BY <2>6 DEF Skip
    <3>2. pc \in {"prepare", "clear", "cleared", "queued"} /\ pc # "queued" BY <3>1
    <3> QED BY <1>0, <2>2, <2>4, <2>5, <2>r, <3>1, <3>2, MoveInv
  <2>7. CASE Done(j)
    <3>1. CASE s.staged BY <1>0, <2>2, <2>4, <2>5, <2>7, <2>r, <3>1, DoneInv
    <3>2. CASE ~s.staged BY <1>0, <2>3, <2>5, <2>7, <3>2, ClearedInv
    <3> QED BY <3>1, <3>2
  <2>8. CASE files[j] # None /\ work' = [work EXCEPT ![j].pc = "build", ![j].fp = files[j]]
    <3>1. work'[j].pc = "build" /\ work'[j].fp = files[j] BY <1>0, <2>8 DEF TypeOK, Work
    <3>2. Present(j)' => Present(j) /\ s.staged BY <2>2, <2>5, <2>r DEF NoReturn, Present, Name, SameStaged
    <3> QED BY <1>0, <2>2, <2>3, <2>4, <2>5, <2>8, <3>1, <3>2
         DEF JobInv, SentIsStored, AllowedIsApproved, NewIsPresent, DueIsPassed, JobLastIsStored,
             Sending, Preparing, Due, At, SameStaged
  <2> QED BY <1>3, <2>6, <2>7, <2>8 DEF Scan
<1>4. ASSUME ClearPending(j) PROVE JobInv(j)'
  <2>1. At(j, "clear") /\ UNCHANGED <<state, spool, stored, late, passed>> BY <1>4 DEF ClearPending, station
  <2>2. work'[j].pc \in {"idle", "cleared"} BY <1>0, <1>4 DEF ClearPending, Go, Done, NoWork, TypeOK, Work
  <2> QED BY <1>0, <2>1, <2>2
       DEF JobInv, SentIsStored, AllowedIsApproved, NewIsPresent, DueIsPassed, JobLastIsStored,
           Sending, Preparing, Due, At, Present, Name
<1>9. ASSUME SaveCleared(j) PROVE JobInv(j)'
  <2>1. PICK s : s = [clearPendingArchive(state[j]) EXCEPT !.mir = FALSE,
                                                           !.category = IF op.kind = "clear" THEN "" ELSE @]
    OBVIOUS
  <2>2. s \in JobState /\ ~s.staged /\ s.last = state[j].last BY <2>1, ClearedType
  <2>3. Done(j) /\ At(j, "cleared") /\ SaveLast(j, s) /\ UNCHANGED <<stored, late, passed>>
    BY <1>9, <2>1 DEF SaveCleared, station
  <2>4. CASE Save(j, s) BY <1>0, <2>2, <2>3, <2>4, ClearedInv
  <2>5. CASE UNCHANGED state /\ ~NoFaults'
    <3>1. work'[j].pc = "idle" BY <2>3 DEF Done, NoWork, TypeOK
    <3> QED BY <1>0, <2>3, <2>5, <3>1
         DEF JobInv, SentIsStored, AllowedIsApproved, NewIsPresent, DueIsPassed, JobLastIsStored,
             Sending, Preparing, Due, At
  <2> QED BY <2>2, <2>3, <2>4, <2>5, SaveLastType
<1>5. ASSUME Build(j) PROVE JobInv(j)'
  <2>1. work'[j].pc = "review" /\ work'[j].fp = work[j].fp BY <1>0, <1>5 DEF Build, Go, TypeOK, Work
  <2>2. spool' = spool \cup {NewName(j)} /\ work[j].pc = "build" BY <1>5 DEF Build, At
  <2>3. UNCHANGED <<state, stored, late, passed>> BY <1>5 DEF Build, station
  <2>4. NewName(j)' = NewName(j) BY <2>1, <2>3 DEF NewName
  <2>5. Present(j)' => Present(j)
    <3>1. NewName(j) # Name(j) BY NewIsAnother
    <3> QED BY <2>2, <2>3, <3>1 DEF Present, Name
  <2> QED BY <1>0, <2>1, <2>2, <2>3, <2>4, <2>5
       DEF JobInv, SentIsStored, AllowedIsApproved, NewIsPresent, DueIsPassed, JobLastIsStored,
           Sending, Preparing, Due, At
<1>6. ASSUME BuildFails(j) PROVE JobInv(j)'
  <2>1. ~NoFaults'
    BY <1>6, SpendType, BoundsAssumption DEF BuildFails, IInv, Budgets, NoFaults, TypeOK
  <2>2. PICK s : s = [state[j] EXCEPT !.category = "other"] OBVIOUS
  <2>3. s \in JobState /\ SameStaged(s, state[j]) BY <1>0, <2>2 DEF JobState, Categories, SameStaged
  <2>4. NoReturn(j) BY <1>6 DEF BuildFails, NoReturn
  <2> QED BY <1>0, <1>6, <2>1, <2>2, <2>3, <2>4, DoneInv DEF BuildFails, station
<1>7. ASSUME Review(j) PROVE JobInv(j)'
  <2>0. UNCHANGED <<state, spool, stored, late>> /\ work[j].pc = "review" BY <1>7 DEF Review, At
  <2>1. CASE Spend("faults") /\ Go(j, "point") /\ UNCHANGED <<anomalies, passed>>
    <3>1. ~NoFaults' BY <2>1, SpendType, BoundsAssumption DEF IInv, Budgets, NoFaults, TypeOK
    <3>2. work'[j].pc = "point" /\ work'[j].fp = work[j].fp BY <1>0, <2>1 DEF Go, TypeOK, Work
    <3>4. NewName(j)' = NewName(j) BY <2>0, <3>2 DEF NewName
    <3>5. Present(j)' => Present(j) BY <2>0 DEF Present, Name
    <3> QED BY <1>0, <2>0, <3>1, <3>2, <3>4, <3>5
         DEF JobInv, SentIsStored, AllowedIsApproved, NewIsPresent, DueIsPassed, JobLastIsStored,
             Sending, Preparing, Due, At
  <2>2. CASE /\ work' = [work EXCEPT ![j].pc = "point", ![j].hold = Hold(j)]
             /\ passed' = IF Forced \/ ~settings.hold \/ ~Unusual(anomalies[j].history, Observed(j))
                          THEN [passed EXCEPT ![j] = @ \cup {work[j].fp}]
                          ELSE passed
    <3>1. work'[j].pc = "point" /\ work'[j].fp = work[j].fp /\ work'[j].hold = Hold(j)
      BY <1>0, <2>2 DEF TypeOK, Work
    <3>2. passed[j] \subseteq passed'[j] BY <2>2 DEF TypeOK
    <3>3. ~Hold(j) => work[j].fp \in passed'[j] BY <2>2 DEF Hold, TypeOK
    <3>4. NewName(j)' = NewName(j) BY <2>0, <3>1 DEF NewName
    <3>5. Present(j)' => Present(j) BY <2>0 DEF Present, Name
    <3> QED BY <1>0, <2>0, <3>1, <3>2, <3>3, <3>4, <3>5
         DEF JobInv, SentIsStored, AllowedIsApproved, NewIsPresent, DueIsPassed, JobLastIsStored,
             Sending, Preparing, Due, At
  <2> QED BY <1>7, <2>1, <2>2 DEF Review
<1>8. ASSUME Point(j) PROVE JobInv(j)'
  <2>1. PICK s : s = [state[j] EXCEPT !.staged = TRUE, !.approved = FALSE, !.fp = work[j].fp, !.time = 1 - @,
                       !.retry = FALSE, !.mir = work[j].hold,
                       !.category = IF work[j].hold THEN "unusual" ELSE ""]
    OBVIOUS
  <2>2. s.last = state[j].last /\ s.staged /\ s.fp = work[j].fp /\ s.mir = work[j].hold
        /\ s.category # "approval"
    BY <1>0, <2>1 DEF JobState
  <2>3. state'[j] = s BY <1>8, <2>1 DEF Point, Save, TypeOK
  <2>4. work'[j].pc = IF work[j].hold THEN "idle" ELSE "queued"
    BY <1>0, <1>8 DEF Point, Done, Go, NoWork, TypeOK, Work
  <2>6. UNCHANGED <<stored, late, passed>> /\ work[j].pc = "point" BY <1>8 DEF Point, At, station
  <2> QED BY <1>0, <2>2, <2>3, <2>4, <2>6
       DEF JobInv, SentIsStored, AllowedIsApproved, NewIsPresent, DueIsPassed, JobLastIsStored,
           Sending, Preparing, Due, At
<1> QED BY <1>1, <1>2, <1>3, <1>4, <1>5, <1>6, <1>7, <1>8, <1>9 DEF prepareArchiveLocked

LEMMA UploadInv ==
  ASSUME TypeOK, IInv, NEW j \in Jobs, uploadPendingArchive(j) \/ CancelWork(j),
         NoFaults' => NoFaults, NoCancels' => NoCancels
  PROVE  JobInv(j)'
<1>0. JobInv(j) /\ state[j] \in JobState /\ work[j] \in Work BY DEF IInv, TypeOK
<1>a. Sending(j) => state[j].staged /\ (NoFaults /\ NoCancels => state[j].fp \in passed[j])
  BY <1>0 DEF JobInv, SentIsStored, DueIsPassed, Due, Sending
<1>1. ASSUME UploadStart(j) PROVE JobInv(j)'
  <2>0. work[j].pc = "queued" /\ UNCHANGED <<stored, late, passed, approvals>>
    BY <1>1 DEF UploadStart, At, outer, station
  <2>1. CASE Present(j)
    <3>1. PICK s : s = [state[j] EXCEPT !.mir = FALSE, !.retry = FALSE] OBVIOUS
    <3>2. s \in JobState /\ SameStaged(s, state[j]) BY <1>0, <3>1 DEF JobState, SameStaged
    <3>3. state'[j] = s BY <1>1, <2>1, <3>1 DEF UploadStart, Save, TypeOK
    <3>4. /\ work'[j].pc = "uploading"
          /\ work'[j].allow => j \in approvals
      BY <1>0, <1>1, <2>1 DEF UploadStart, TypeOK, Work
    <3>5. state[j].staged BY <2>1 DEF Present
    <3>6. NoFaults /\ NoCancels => state[j].fp \in passed[j] BY <1>0, <2>0, <2>1 DEF JobInv, DueIsPassed, Due
    <3> QED BY <1>0, <2>0, <3>2, <3>3, <3>4, <3>5, <3>6
         DEF JobInv, SentIsStored, AllowedIsApproved, NewIsPresent, DueIsPassed, JobLastIsStored,
             Sending, Preparing, Due, At, SameStaged
  <2>2. CASE ~Present(j)
    <3>1. PICK s : s = clearPendingArchive(state[j]) OBVIOUS
    <3>2. CASE state[j].staged
      <4>1. s \in JobState /\ ~s.staged /\ s.last = state[j].last
        BY <1>0, <3>1, ContentsAssumption DEF clearPendingArchive, discardPendingArchiveFile, JobState
      <4>2. Done(j) /\ Save(j, s) BY <1>1, <2>2, <3>1, <3>2 DEF UploadStart
      <4> QED BY <1>0, <2>0, <4>1, <4>2, ClearedInv
    <3>3. CASE ~state[j].staged
      <4>1. Done(j) /\ Save(j, state[j]) BY <1>1, <2>2, <3>3 DEF UploadStart
      <4> QED BY <1>0, <2>0, <3>3, <4>1, ClearedInv
    <3> QED BY <3>2, <3>3
  <2> QED BY <2>1, <2>2
<1>2. ASSUME Stored(j) PROVE JobInv(j)'
  <2>1. UNCHANGED <<state, passed>> /\ work[j].pc = "uploading" BY <1>2 DEF Stored, At
  <2>2. work'[j].pc = "uploaded" BY <1>0, <1>2 DEF Stored, Go, TypeOK, Work
  <2>3. stored'[j] = stored[j] \cup {state[j].fp} /\ late' \subseteq late BY <1>2 DEF Stored, StoredAs, TypeOK
  <2>4. Sending(j) BY <2>1 DEF Sending
  <2> QED BY <1>0, <1>a, <2>1, <2>2, <2>3, <2>4
       DEF JobInv, SentIsStored, AllowedIsApproved, NewIsPresent, DueIsPassed, JobLastIsStored,
           Sending, Preparing, Due, At
<1>3. ASSUME Succeed(j) PROVE JobInv(j)'
  <2>1. UNCHANGED <<state, stored, late, passed>> /\ work[j].pc = "uploaded" BY <1>3 DEF Succeed, At, station
  <2>2. work'[j].pc = "sent" BY <1>0, <1>3 DEF Succeed, Go, TypeOK, Work
  <2>3. Sending(j) BY <2>1 DEF Sending
  <2> QED BY <1>0, <1>a, <2>1, <2>2, <2>3
       DEF JobInv, SentIsStored, AllowedIsApproved, NewIsPresent, DueIsPassed, JobLastIsStored,
           Sending, Preparing, Due, At
<1>8. ASSUME SaveSent(j) PROVE JobInv(j)'
  <2>1. PICK s : s = [clearPendingArchive(state[j]) EXCEPT !.last = state[j].fp, !.mir = FALSE, !.category = ""]
    OBVIOUS
  <2>a. clearPendingArchive(state[j]) \in JobState /\ ~clearPendingArchive(state[j]).staged BY EndType
  <2>2. ~s.staged /\ s.last = state[j].fp BY <2>1, <2>a DEF JobState
  <2>b. s \in JobState BY <1>0, <2>1, <2>a DEF JobState, Categories
  <2>c. SaveLast(j, s) BY <1>8, <2>1 DEF SaveSent
  <2>3. state'[j] = s \/ (state'[j] = state[j] /\ ~NoFaults')
    BY <2>2, <2>b, <2>c, SaveLastType DEF Save, TypeOK
  <2>4. work'[j].pc = "accept" /\ work[j].pc = "sent" BY <1>0, <1>8 DEF SaveSent, Go, At, TypeOK, Work
  <2>5. UNCHANGED <<stored, late, passed>> /\ state[j].fp \in stored[j]
    BY <1>0, <1>8 DEF SaveSent, JobInv, SentIsStored, At, station
  <2> QED BY <1>0, <2>2, <2>3, <2>4, <2>5
       DEF JobInv, SentIsStored, AllowedIsApproved, NewIsPresent, DueIsPassed, JobLastIsStored,
           Sending, Preparing, Due, At, Present
<1>4. ASSUME FailRetryable(j) PROVE JobInv(j)'
  <2>0. Sending(j) /\ UNCHANGED <<state, stored, passed>> BY <1>4 DEF FailRetryable, Sending
  <2>1. work'[j].pc = "failed" BY <1>0, <1>4 DEF FailRetryable, Go, TypeOK, Work
  <2>2. {j} \in SUBSET Jobs OBVIOUS
  <2>3. \A c : <<j, c>> \in late' => <<j, c>> \in late \/ c = state[j].fp
    BY <1>4, <2>2, GiveUpAdds DEF FailRetryable
  <2> QED BY <1>0, <1>a, <2>0, <2>1, <2>3
       DEF JobInv, SentIsStored, AllowedIsApproved, NewIsPresent, DueIsPassed, JobLastIsStored,
           Sending, Preparing, Due, At
<1>9. ASSUME SaveFailed(j) PROVE JobInv(j)'
  <2>0. Sending(j) /\ Done(j) /\ UNCHANGED <<stored, late, passed>> /\ NoReturn(j)
    BY <1>9 DEF SaveFailed, Sending, At, NoReturn, station
  <2>1. PICK s : s = [state[j] EXCEPT !.category = "other", !.retry = TRUE, !.mir = FALSE] OBVIOUS
  <2>2. s \in JobState /\ SameStaged(s, state[j]) BY <1>0, <2>1 DEF JobState, Categories, SameStaged
  <2>3. PICK t : t = IF settings.keep THEN s ELSE discardPendingArchiveFile(s) OBVIOUS
  <2>4. t \in JobState /\ t.last = state[j].last /\ (t.staged => SameStaged(t, state[j]))
    BY <2>2, <2>3 DEF discardPendingArchiveFile, JobState, SameStaged
  <2>5. SaveLast(j, t) BY <1>9, <2>1, <2>3 DEF SaveFailed
  <2>6. t.staged => t.fp # None BY <1>0, <2>4 DEF SameStaged, TypeOK
  <2>7. CASE Save(j, t) /\ t.staged BY <1>0, <1>a, <2>0, <2>4, <2>7, DoneInv DEF SameStaged
  <2>8. CASE Save(j, t) /\ ~t.staged BY <1>0, <2>0, <2>4, <2>8, ClearedInv
  <2>9. CASE UNCHANGED state /\ ~NoFaults'
    <3>1. work'[j].pc = "idle" BY <2>0 DEF Done, NoWork, TypeOK
    <3> QED BY <1>0, <2>0, <2>9, <3>1
         DEF JobInv, SentIsStored, AllowedIsApproved, NewIsPresent, DueIsPassed, JobLastIsStored,
             Sending, Preparing, Due, At
  <2> QED BY <2>4, <2>5, <2>6, <2>7, <2>8, <2>9, SaveLastType
<1>5. ASSUME NEW category \in {"approval", "other"}, Held(j, category) PROVE JobInv(j)'
  <2>0. Sending(j) /\ Done(j) /\ UNCHANGED <<stored, late, passed>> /\ NoReturn(j)
    BY <1>5 DEF Held, Sending, At, NoReturn, station
  <2>1. PICK s : s = [state[j] EXCEPT !.category = category, !.retry = FALSE, !.mir = TRUE] OBVIOUS
  <2>2. s \in JobState /\ SameStaged(s, state[j]) BY <1>0, <2>1 DEF JobState, Categories, SameStaged
  <2>3. Save(j, s) BY <1>5, <2>1 DEF Held
  <2> QED BY <1>0, <1>a, <2>0, <2>2, <2>3, DoneInv DEF SameStaged
<1>6. ASSUME Accept(j) PROVE JobInv(j)'
  <2>1. UNCHANGED <<state, spool, stored, late, passed>> /\ Done(j) BY <1>6 DEF Accept, station
  <2>2. work'[j].pc = "idle" BY <2>1 DEF Done, NoWork, TypeOK
  <2>3. Present(j)' => Present(j) BY <2>1 DEF Present, Name
  <2> QED BY <1>0, <2>1, <2>2, <2>3
       DEF JobInv, SentIsStored, AllowedIsApproved, NewIsPresent, DueIsPassed, JobLastIsStored,
           Sending, Preparing, Due, At
<1>7. ASSUME CancelWork(j) PROVE JobInv(j)'
  <2>1. ~NoCancels' BY <1>7 DEF CancelWork, IInv, Budgets, NoCancels
  <2>2. PICK s : s = [state[j] EXCEPT !.retry = FALSE, !.mir = FALSE, !.category = ""] OBVIOUS
  <2>3. s \in JobState /\ SameStaged(s, state[j]) BY <1>0, <2>2 DEF JobState, Categories, SameStaged
  <2>4. Done(j) /\ Save(j, s) /\ UNCHANGED <<stored, passed>> BY <1>7, <2>2 DEF CancelWork
  <2> QED BY <1>0, <2>1, <2>3, <2>4, DoneInv
<1> QED BY <1>1, <1>2, <1>3, <1>4, <1>5, <1>6, <1>7, <1>8, <1>9 DEF uploadPendingArchive, AskApproval, Refuse

LEMMA SendInv ==
  ASSUME TypeOK, IInv, NEW j \in Jobs, SendStaged(j) \/ SendNew(j) \/ ForceSend(j),
         NoFaults' => NoFaults, NoCancels' => NoCancels
  PROVE  JobInv(j)'
<1>0. JobInv(j) /\ state[j] \in JobState /\ work[j] \in Work BY DEF IInv, TypeOK
<1>a. At(j, "force") /\ NoFaults /\ NoCancels /\ Present(j) => state[j].fp \in passed[j]
  BY <1>0 DEF JobInv, DueIsPassed, Due, At
<1>1. ASSUME SendStaged(j) PROVE JobInv(j)'
  <2>0. At(j, "force") /\ NoReturn(j) /\ UNCHANGED <<stored, late, passed>>
    BY <1>1 DEF SendStaged, NoReturn, station
  <2>1. CASE Save(j, [state[j] EXCEPT !.approved = TRUE, !.mir = FALSE, !.retry = FALSE]) /\ Go(j, "queued")
    <3>1. PICK s : s = [state[j] EXCEPT !.approved = TRUE, !.mir = FALSE, !.retry = FALSE] OBVIOUS
    <3>2. s \in JobState /\ SameStaged(s, state[j]) BY <1>0, <3>1 DEF JobState, SameStaged
    <3>3. state'[j] = s BY <2>1, <3>1 DEF Save, TypeOK
    <3> QED BY <1>0, <1>a, <2>0, <2>1, <3>2, <3>3, MoveInv DEF SameStaged
  <2>2. CASE Save(j, [state[j] EXCEPT !.mir = TRUE]) /\ Done(j)
    <3>1. PICK s : s = [state[j] EXCEPT !.mir = TRUE] OBVIOUS
    <3>2. s \in JobState /\ SameStaged(s, state[j]) BY <1>0, <3>1 DEF JobState, SameStaged
    <3> QED BY <1>0, <1>a, <2>0, <2>2, <3>1, <3>2, DoneInv DEF SameStaged
  <2>3. CASE Save(j, [state[j] EXCEPT !.mir = FALSE, !.retry = FALSE]) /\ Go(j, "queued")
    <3>1. PICK s : s = [state[j] EXCEPT !.mir = FALSE, !.retry = FALSE] OBVIOUS
    <3>2. s \in JobState /\ SameStaged(s, state[j]) BY <1>0, <3>1 DEF JobState, SameStaged
    <3>3. state'[j] = s BY <2>3, <3>1 DEF Save, TypeOK
    <3> QED BY <1>0, <1>a, <2>0, <2>3, <3>2, <3>3, MoveInv DEF SameStaged
  <2> QED BY <1>1, <2>1, <2>2, <2>3 DEF SendStaged
<1>2. ASSUME SendNew(j) PROVE JobInv(j)'
  <2>1. /\ At(j, "force") /\ Go(j, "prepare") /\ state'[j] = state[j] /\ NoReturn(j)
        /\ UNCHANGED <<stored, late, passed>>
    BY <1>2 DEF SendNew, NoReturn, station
  <2>2. SameStaged(state[j], state[j]) BY DEF SameStaged
  <2> QED BY <1>0, <1>a, <2>1, <2>2, MoveInv
<1>3. ASSUME ForceSend(j) PROVE JobInv(j)'
  <2>0. At(j, "idle") /\ UNCHANGED <<spool, stored, late>> BY <1>3 DEF ForceSend, IInv, Structure
  <2>1. PICK s : s = IF state[j].mir THEN [state[j] EXCEPT !.mir = FALSE, !.retry = FALSE] ELSE state[j] OBVIOUS
  <2>2. s \in JobState /\ SameStaged(s, state[j]) BY <1>0, <2>1 DEF JobState, SameStaged
  <2>3. state'[j] = s BY <1>3, <2>1 DEF ForceSend, Save, TypeOK
  <2>4. work'[j].pc = "force" BY <1>3 DEF ForceSend, TypeOK, Work
  <2>5. passed[j] \subseteq passed'[j] /\ (Present(j) => state[j].fp \in passed'[j])
    BY <1>3 DEF ForceSend, TypeOK
  <2>6. Present(j)' => Present(j) BY <2>0, <2>2, <2>3 DEF Present, Name, SameStaged
  <2> QED BY <1>0, <2>0, <2>2, <2>3, <2>4, <2>5, <2>6
       DEF JobInv, SentIsStored, AllowedIsApproved, NewIsPresent, DueIsPassed, JobLastIsStored,
           Sending, Preparing, Due, At, SameStaged
<1> QED BY <1>1, <1>2, <1>3

\* Steps that leave the worker alone: they keep what is staged of job k, and do not make it due.
LEMMA StateInv ==
  ASSUME TypeOK, NEW k \in Jobs, JobInv(k), work'[k] = work[k], NEW s, state'[k] = s,
         SameStaged(s, state[k]), s.mir = state[k].mir, s.category \in {state[k].category, "", "other"},
         UNCHANGED <<spool, stored, late, passed>>, k \in approvals => k \in approvals' \/ At(k, "idle"),
         NoFaults' => NoFaults, NoCancels' => NoCancels
  PROVE  JobInv(k)'
<1>1. Present(k)' = Present(k) /\ NewName(k)' = NewName(k) BY DEF Present, Name, NewName, SameStaged
<1> QED BY <1>1 DEF JobInv, SentIsStored, AllowedIsApproved, NewIsPresent, DueIsPassed, JobLastIsStored,
       Sending, Preparing, Due, At, SameStaged

\* Steps after which the worker is where it has nothing to rely on, or begins: nothing becomes due.
LEMMA RestInv ==
  ASSUME TypeOK, NEW k \in Jobs, JobInv(k), work'[k].pc \in {"idle", "prepare", "clear"},
         state'[k] = state[k], UNCHANGED <<stored, passed>>,
         NoFaults' => NoReturn(k), \A c : <<k, c>> \in late' => <<k, c>> \in late \/ (Due(k) /\ c = state[k].fp),
         NoFaults' => NoFaults, NoCancels' => NoCancels
  PROVE  JobInv(k)'
<1>1. NoReturn(k) => (Present(k)' => Present(k)) BY DEF NoReturn, Present, Name
<1> QED BY <1>1 DEF JobInv, SentIsStored, AllowedIsApproved, NewIsPresent, DueIsPassed, JobLastIsStored,
       Sending, Preparing, Due, At

LEMMA OperatorInv ==
  ASSUME TypeOK, IInv, NEW j \in Jobs,
         \/ Recover(j) \/ ClearStagedBackup(j) \/ RemoveLargeUploadApproval(j) \/ DeleteJob(j) \/ RetryDue(j)
         \/ StoredLate(j),
         NoFaults' => NoFaults, NoCancels' => NoCancels
  PROVE  JobInv(j)'
<1>0. JobInv(j) /\ state[j] \in JobState /\ work[j] \in Work BY DEF IInv, TypeOK
<1>a. op.kind = "none" => At(j, "idle") BY DEF IInv, Structure
<1>1. ASSUME Recover(j) PROVE JobInv(j)'
  <2>1. PICK s : s = [state[j] EXCEPT !.category = ""] OBVIOUS
  <2>2. SameStaged(s, state[j]) /\ s.mir = state[j].mir /\ s.category = ""
    BY <1>0, <2>1 DEF JobState, SameStaged
  <2>3. state'[j] = s \/ state'[j] = state[j] BY <1>1, <2>1 DEF Recover, Save, TypeOK
  <2>4. UNCHANGED <<work, spool, stored, late, passed, approvals>> BY <1>1 DEF Recover, station
  <2> QED BY <1>0, <2>2, <2>3, <2>4, StateInv DEF SameStaged
<1>2. ASSUME ClearStagedBackup(j) PROVE JobInv(j)'
  <2>1. /\ work'[j].pc = "clear" /\ state'[j] = state[j] /\ NoReturn(j)
        /\ UNCHANGED <<stored, late, passed>>
    BY <1>0, <1>2 DEF ClearStagedBackup, NoReturn, TypeOK, Work, station
  <2> QED BY <1>0, <2>1, RestInv
<1>3. ASSUME RemoveLargeUploadApproval(j) PROVE JobInv(j)'
  <2>1. PICK s : s = [state[j] EXCEPT !.approved = FALSE] OBVIOUS
  <2>2. SameStaged(s, state[j]) /\ s.mir = state[j].mir /\ s.category = state[j].category
    BY <1>0, <2>1 DEF JobState, SameStaged
  <2>3. state'[j] = s BY <1>3, <2>1 DEF RemoveLargeUploadApproval, Save, TypeOK
  <2>4. At(j, "idle") /\ UNCHANGED <<work, spool, stored, late, passed>>
    BY <1>3, <1>a DEF RemoveLargeUploadApproval, station
  <2> QED BY <1>0, <2>2, <2>3, <2>4, StateInv
<1>4. ASSUME DeleteJob(j) PROVE JobInv(j)'
  <2>1. state'[j] = Zero BY <1>4 DEF DeleteJob, Save, TypeOK
  <2>2. ~Zero.staged /\ Zero.last = None BY DEF Zero
  <2>3. At(j, "idle") /\ UNCHANGED <<work, spool, stored, late, passed>> BY <1>4, <1>a DEF DeleteJob, station
  <2> QED BY <1>0, <2>1, <2>2, <2>3
       DEF JobInv, SentIsStored, AllowedIsApproved, NewIsPresent, DueIsPassed, JobLastIsStored,
           Sending, Preparing, Due, At, Present
<1>5. ASSUME RetryDue(j) PROVE JobInv(j)'
  <2>1. PICK s : s = [state[j] EXCEPT !.retry = FALSE] OBVIOUS
  <2>2. SameStaged(s, state[j]) /\ s.mir = state[j].mir /\ s.category = state[j].category
    BY <1>0, <2>1 DEF JobState, SameStaged
  <2>3. state'[j] = s BY <1>5, <2>1 DEF RetryDue, Save, TypeOK
  <2>4. UNCHANGED <<work, spool, stored, late, passed, approvals>> BY <1>5 DEF RetryDue, outer, station
  <2> QED BY <1>0, <2>2, <2>3, <2>4, StateInv
<1>6. ASSUME StoredLate(j) PROVE JobInv(j)'
  <2>1. PICK c \in Contents : <<j, c>> \in late /\ StoredAs(j, c) BY <1>6 DEF StoredLate
  <2>2. stored'[j] = stored[j] \cup {c} /\ late' \subseteq late BY <2>1 DEF StoredAs, TypeOK
  <2>3. UNCHANGED <<work, state, spool, passed, approvals>> BY <1>6 DEF StoredLate, outer
  <2>4. Present(j)' = Present(j) /\ NewName(j)' = NewName(j) BY <2>3 DEF Present, Name, NewName
  <2> QED BY <1>0, <2>1, <2>2, <2>3, <2>4
       DEF JobInv, SentIsStored, AllowedIsApproved, NewIsPresent, DueIsPassed, JobLastIsStored,
           Sending, Preparing, Due, At
<1> QED BY <1>1, <1>2, <1>3, <1>4, <1>5, <1>6

LEMMA CycleInv ==
  ASSUME TypeOK, IInv, NEW k \in Jobs,
         RunCycle \/ FinishOperation \/ UpdateSettings \/ CancelOperation \/ Crash \/ Lose,
         NoFaults' => NoFaults, NoCancels' => NoCancels
  PROVE  JobInv(k)'
<1>0. JobInv(k) /\ state[k] \in JobState BY DEF IInv, TypeOK
<1>1. ASSUME RunCycle PROVE JobInv(k)'
  <2>1. work'[k].pc \in {"idle", "prepare"} BY <1>1 DEF RunCycle, NoWork
  <2>2. state'[k] = state[k] /\ NoReturn(k) /\ UNCHANGED <<stored, late, passed>>
    BY <1>1 DEF RunCycle, NoReturn, station
  <2> QED BY <1>0, <2>1, <2>2, RestInv
<1>2. ASSUME FinishCycle PROVE JobInv(k)'
  <2>1. work'[k].pc = "idle" /\ state'[k] = state[k] /\ UNCHANGED <<stored, late, passed>>
    BY <1>2 DEF FinishCycle, At, station
  <2>2. NoReturn(k) BY <1>2 DEF FinishCycle, NoReturn
  <2> QED BY <1>0, <2>1, <2>2, RestInv
<1>3. ASSUME FinishJob \/ FinishPreview \/ UpdateSettings \/ CancelOperation PROVE JobInv(k)'
  <2>1. Untouched(k) BY <1>3 DEF FinishJob, FinishPreview, UpdateSettings, CancelOperation, Untouched, station
  <2> QED BY <1>0, <2>1, JobFrame
<1>4. ASSUME FinishRecover PROVE JobInv(k)'
  <2>0. op.job \in Jobs /\ UNCHANGED <<work, spool, stored, late, passed, approvals>>
    BY <1>4 DEF FinishRecover, IInv, Structure, station
  <2>1. PICK category \in {"", "other"} : Save(op.job, [state[op.job] EXCEPT !.category = category])
    BY <1>4 DEF FinishRecover
  <2>2. CASE k = op.job
    <3>1. PICK s : s = [state[k] EXCEPT !.category = category] OBVIOUS
    <3>2. SameStaged(s, state[k]) /\ s.mir = state[k].mir /\ s.category = category
      BY <1>0, <3>1 DEF JobState, SameStaged
    <3>3. state'[k] = s BY <2>1, <2>2, <3>1 DEF Save, TypeOK
    <3> QED BY <1>0, <2>0, <3>2, <3>3, StateInv
  <2>3. CASE k # op.job
    <3>1. state'[k] = state[k] BY <2>1, <2>3 DEF Save, TypeOK
    <3>2. Untouched(k) BY <2>0, <3>1 DEF Untouched
    <3> QED BY <1>0, <3>2, JobFrame
  <2> QED BY <2>2, <2>3
<1>5. ASSUME Crash PROVE JobInv(k)'
  <2>1. work'[k].pc = "idle" BY <1>5 DEF Crash, NoWork
  <2>2. state'[k] = state[k] /\ NoReturn(k) /\ UNCHANGED <<stored, passed>> BY <1>5 DEF Crash, NoReturn
  <2>3. ASSUME NEW c, <<k, c>> \in late', <<k, c>> \notin late PROVE Due(k) /\ c = state[k].fp
    <3>1. At(k, "uploading") /\ state[k].staged /\ c = state[k].fp BY <1>5, <2>3, GiveUpAdds DEF Crash
    <3> QED BY <3>1 DEF Due, Sending, At
  <2> QED BY <1>0, <2>1, <2>2, <2>3, RestInv
<1>6. ASSUME Lose PROVE JobInv(k)'
  <2>1. ~NoFaults' BY <1>6, FaultSpent DEF Lose
  <2>2. UNCHANGED <<op, work, state, stored, late, passed, approvals>> /\ op.kind = "none"
    BY <1>6 DEF Lose, station
  <2>3. work'[k].pc = "idle" BY <2>2 DEF IInv, Structure, At
  <2> QED BY <1>0, <2>1, <2>2, <2>3, RestInv
<1> QED BY <1>1, <1>2, <1>3, <1>4, <1>5, <1>6 DEF FinishOperation

LEMMA InvStep == TypeOK /\ IInv /\ [Next]_vars => IInv'
<1>1. ASSUME TypeOK, IInv, UNCHANGED vars PROVE IInv'
  BY <1>1 DEF vars, IInv, Structure, Budgets, JobInv, SentIsStored, AllowedIsApproved, NewIsPresent, DueIsPassed,
              JobLastIsStored, Sending, Preparing, Due, At, NewName, Present, Name, NoFaults, NoCancels
<1>2. ASSUME TypeOK, IInv, Next PROVE IInv'
  <2>1. Structure' BY <1>2, StructureStep DEF IInv
  <2>2. Budgets' /\ (NoFaults' => NoFaults) /\ (NoCancels' => NoCancels) BY <1>2, BudgetStep DEF IInv
  <2>3. ASSUME NEW k \in Jobs PROVE JobInv(k)'
    <3>0. JobInv(k) BY <1>2 DEF IInv
    <3>1. ASSUME NEW j \in Jobs,
                 \/ processJob(j) \/ ForceSend(j) \/ Recover(j) \/ ClearStagedBackup(j) \/ DeleteJob(j)
                 \/ RemoveLargeUploadApproval(j) \/ StoredLate(j)
          PROVE  JobInv(k)'
      <4>1. CASE k = j
        BY <1>2, <2>2, <3>1, <4>1, PrepareInv, UploadInv, SendInv, OperatorInv DEF processJob
      <4>2. CASE k # j
        <5>1. Untouched(k) BY <1>2, <3>1, <4>2, OthersUntouched
        <5> QED BY <2>2, <3>0, <5>1, JobFrame
      <4> QED BY <4>1, <4>2
    <3>2. ASSUME NEW j \in Jobs, SaveJob(j) \/ Change(j) PROVE JobInv(k)'
      <4>1. Untouched(k) BY <3>2 DEF SaveJob, Change, Untouched, station
      <4> QED BY <2>2, <3>0, <4>1, JobFrame
    <3>3. ASSUME NEW j \in Jobs, RetryDue(j) PROVE JobInv(k)'
      <4>1. CASE k = j BY <1>2, <2>2, <3>3, <4>1, OperatorInv
      <4>2. CASE k # j
        <5>1. Untouched(k) BY <1>2, <3>3, <4>2 DEF RetryDue, Save, Untouched, outer, station, TypeOK
        <5> QED BY <2>2, <3>0, <5>1, JobFrame
      <4> QED BY <4>1, <4>2
    <3> QED BY <1>2, <2>2, <3>1, <3>2, <3>3, CycleInv DEF Next
  <2> QED BY <2>1, <2>2, <2>3 DEF IInv
<1> QED BY <1>1, <1>2

LEMMA Start == Init => TypeOK /\ IInv
<1> SUFFICES ASSUME Init PROVE TypeOK /\ IInv OBVIOUS
<1>1. ASSUME NEW j \in Jobs
      PROVE  /\ work[j] = NoWork /\ stored[j] = {First} /\ passed[j] = {First}
             /\ state[j] \in JobState /\ ~state[j].staged /\ state[j].last = First
  <2>1. state[j] = [Zero EXCEPT !.last = First] BY DEF Init
  <2>2. Zero \in JobState /\ ~Zero.staged BY DEF Zero, JobState, Categories
  <2>3. state[j] \in JobState /\ ~state[j].staged /\ state[j].last = First
    BY <2>1, <2>2, ContentsAssumption DEF JobState
  <2> QED BY <2>3 DEF Init
<1>2. op = NoOp BY DEF Init
<1>3. NoOp \in [kind : Kinds, job : Jobs \cup {None}, cancelled : BOOLEAN] /\ NoWork \in Work
  BY DEF NoOp, Kinds, NoWork, Work, Pcs
<1>4. work \in [Jobs -> Work] /\ state \in [Jobs -> JobState] BY <1>1, <1>3 DEF Init
<1>5. budget \in [changes : Nat, actions : Nat, cancels : Nat, crashes : Nat, faults : Nat]
      /\ budget.faults = MaxFaults /\ budget.cancels = MaxCancels
  BY BoundsAssumption DEF Init
<1>6. TypeOK BY <1>1, <1>2, <1>3, <1>4, <1>5, ContentsAssumption DEF Init, TypeOK
<1>7. Structure BY <1>1, <1>2 DEF Structure, At, NoWork, NoOp
<1>8. Budgets BY <1>2, <1>5, BoundsAssumption DEF Budgets, NoOp
<1>9. ASSUME NEW j \in Jobs PROVE JobInv(j)
  <2>1. work[j].pc = "idle" /\ late = {} BY <1>1 DEF NoWork, Init
  <2> QED BY <1>1, <2>1
       DEF JobInv, SentIsStored, AllowedIsApproved, NewIsPresent, DueIsPassed, JobLastIsStored,
           Sending, Preparing, Due, At, Present
<1> QED BY <1>6, <1>7, <1>8, <1>9 DEF IInv

LEMMA Invariance == Spec => [](TypeOK /\ IInv)
<1>1. TypeOK /\ IInv /\ [Next]_vars => (TypeOK /\ IInv)' BY TypeStep, InvStep
<1> QED BY Start, <1>1, PTL DEF Spec

-----------------------------------------------------------------------------
(* Theorems *)

\* Job states, workers, spool and approvals keep their types, whatever runs, fails or crashes.
THEOREM JobTypeCorrect == Spec => []TypeOK
BY Invariance, PTL

\* A backup that looked unusual is at Station only if the operator has sent it, unless an
\* operation was cancelled (then markCancelled clears the flag that holds it) or a write failed.
THEOREM HeldAlwaysUntilSent == Spec => []HeldUntilSent
<1>1. IInv => HeldUntilSent BY DEF IInv, HeldUntilSent, JobInv, DueIsPassed
<1> QED BY Invariance, <1>1, PTL

\* A fingerprint that later cycles compare the folder with, and skip it for, is at Station, also
\* when Scout stops between the upload and the write of the state.
THEOREM LastAlwaysStored == Spec => []LastIsStored
<1>1. IInv => LastIsStored BY DEF IInv, LastIsStored, JobInv, JobLastIsStored
<1> QED BY Invariance, <1>1, PTL

\* What Station has, and what it may be at still, changes with an upload or the end of one.
LEMMA StationChanges ==
  ASSUME Next
  PROVE  \/ UNCHANGED <<stored, late>>
         \/ \E j \in Jobs : Stored(j) \/ StoredLate(j)
         \/ UNCHANGED stored /\ \E js \in SUBSET Jobs : GiveUp(js)
<1>1. ASSUME NEW j \in Jobs, processJob(j)
      PROVE  UNCHANGED <<stored, late>> \/ Stored(j) \/ (UNCHANGED stored /\ GiveUp({j}))
  <2>1. CASE SendStaged(j) \/ SendNew(j) \/ CancelWork(j) BY <2>1 DEF SendStaged, SendNew, CancelWork, station
  <2>2. CASE prepareArchiveLocked(j)
    BY <2>2 DEF prepareArchiveLocked, UploadNow, Wait, Scan, ClearPending, SaveCleared, Build, BuildFails, Review,
                Point, station
  <2>3. CASE uploadPendingArchive(j)
    BY <2>3 DEF uploadPendingArchive, UploadStart, Succeed, SaveSent, FailRetryable, SaveFailed, AskApproval, Refuse,
                Held, Accept, station
  <2> QED BY <1>1, <2>1, <2>2, <2>3 DEF processJob
<1>2. ASSUME NEW j \in Jobs,
             \/ ForceSend(j) \/ Recover(j) \/ ClearStagedBackup(j) \/ RemoveLargeUploadApproval(j)
             \/ DeleteJob(j) \/ SaveJob(j) \/ Change(j) \/ RetryDue(j)
      PROVE  UNCHANGED <<stored, late>>
  BY <1>2 DEF ForceSend, Recover, ClearStagedBackup, RemoveLargeUploadApproval, DeleteJob, SaveJob, Change,
              RetryDue, station
<1>3. ASSUME RunCycle \/ FinishOperation \/ UpdateSettings \/ CancelOperation \/ Crash \/ Lose
      PROVE  UNCHANGED <<stored, late>> \/ (UNCHANGED stored /\ GiveUp(Jobs))
  BY <1>3 DEF RunCycle, FinishOperation, FinishCycle, FinishJob, FinishRecover, FinishPreview,
              UpdateSettings, CancelOperation, Crash, Lose, station
<1>4. Jobs \in SUBSET Jobs /\ \A j \in Jobs : {j} \in SUBSET Jobs OBVIOUS
<1>5. CASE RunCycle \/ FinishOperation \/ UpdateSettings \/ CancelOperation \/ Crash \/ Lose
  BY <1>3, <1>4, <1>5
<1>6. CASE \E j \in Jobs : processJob(j) BY <1>1, <1>4, <1>6
<1>7. CASE \E j \in Jobs : \/ ForceSend(j) \/ Recover(j) \/ ClearStagedBackup(j) \/ RemoveLargeUploadApproval(j)
                           \/ DeleteJob(j) \/ SaveJob(j) \/ Change(j) \/ RetryDue(j)
  BY <1>2, <1>7
<1> QED BY <1>5, <1>6, <1>7 DEF Next

\* A large upload needs the approval to the end.  While Scout goes on with it, removing the approval
\* takes the cycle lock and waits; what Station stores after Scout has let go of the upload was
\* approved at that moment, whatever timed out, was cancelled or crashed.
THEOREM LargeAlwaysNeedsApproval == Spec => LargeNeedsApproval
<1>1. ASSUME TypeOK, IInv, Next, NEW k \in Jobs, NEW c \in Large
      PROVE  /\ c \in stored'[k] \ stored[k] => k \in approvals \/ <<k, c>> \in late
             /\ <<k, c>> \in late' \ late => k \in approvals
  <2>1. At(k, "uploading") /\ Allowed(k) /\ c = state[k].fp => k \in approvals
    BY <1>1 DEF Allowed, IInv, JobInv, AllowedIsApproved
  <2>2. ASSUME NEW j \in Jobs, Stored(j)
        PROVE  /\ late' \subseteq late
               /\ c \in stored'[k] \ stored[k] => k = j /\ At(k, "uploading") /\ Allowed(k) /\ c = state[k].fp
    <3>1. At(j, "uploading") /\ Allowed(j) /\ StoredAs(j, state[j].fp) BY <2>2 DEF Stored
    <3>2. late' \subseteq late /\ stored' = [stored EXCEPT ![j] = @ \cup {state[j].fp}] BY <3>1 DEF StoredAs
    <3>3. stored'[k] = IF k = j THEN stored[k] \cup {state[j].fp} ELSE stored[k] BY <1>1, <3>2 DEF TypeOK
    <3> QED BY <3>1, <3>2, <3>3
  <2>3. ASSUME NEW j \in Jobs, StoredLate(j)
        PROVE  late' \subseteq late /\ (c \in stored'[k] \ stored[k] => <<k, c>> \in late)
    <3>1. PICK d \in Contents : <<j, d>> \in late /\ StoredAs(j, d) BY <2>3 DEF StoredLate
    <3>2. late' \subseteq late /\ stored' = [stored EXCEPT ![j] = @ \cup {d}] BY <3>1 DEF StoredAs
    <3>3. stored'[k] = IF k = j THEN stored[k] \cup {d} ELSE stored[k] BY <1>1, <3>2 DEF TypeOK
    <3> QED BY <3>1, <3>2, <3>3
  <2>4. ASSUME NEW js \in SUBSET Jobs, GiveUp(js), <<k, c>> \in late' \ late
        PROVE  At(k, "uploading") /\ Allowed(k) /\ c = state[k].fp
    BY <1>1, <2>4, GiveUpAdds
  <2> QED BY <1>1, <2>1, <2>2, <2>3, <2>4, StationChanges
<1>2. TypeOK /\ IInv /\ [Next]_vars =>
        [\A j \in Jobs : \A c \in Large :
           /\ c \in stored'[j] \ stored[j] => j \in approvals \/ <<j, c>> \in late
           /\ <<j, c>> \in late' \ late => j \in approvals]_vars
  BY <1>1
<1> QED BY Invariance, <1>2, PTL DEF Spec, LargeNeedsApproval
-----------------------------------------------------------------------------
(* The history that later backups are compared with *)

\* The pending observation of a job is the one of its staged archive.  Only between Review and
\* Point it is ahead of the state, and between Succeed and Accept there is no archive any more.
PendingFits(j) ==
  /\ anomalies[j].history \subseteq stored[j]
  /\ At(j, "point") => anomalies[j].pending = work[j].fp
  /\ state[j].staged /\ ~At(j, "point") => anomalies[j].pending \in {None, state[j].fp}
  /\ At(j, "accept") => anomalies[j].pending \in {None} \cup stored[j]

HistoryInv ==
  /\ budget.crashes <= MaxCrashes
  /\ NoFaults /\ NoCrashes => \A j \in Jobs : PendingFits(j)

\* A step that measures, points at, stores and accepts nothing new for job k.
KeepsPending(k) ==
  /\ \/ anomalies'[k] = anomalies[k]
     \/ /\ anomalies'[k].history \subseteq anomalies[k].history
        /\ anomalies'[k].pending = None
        /\ work'[k].pc # "point"
  /\ stored[k] \subseteq stored'[k]
  /\ state'[k].staged => state[k].staged /\ Name(k)' = Name(k)
  /\ \/ work'[k] = work[k]
     \/ work[k].pc # "point" /\ work'[k].pc \notin {"point", "accept"}

LEMMA PendingFrame ==
  ASSUME NEW k \in Jobs, PendingFits(k), KeepsPending(k)
  PROVE  PendingFits(k)'
BY DEF PendingFits, KeepsPending, At, Name

LEMMA CrashBudget ==
  ASSUME TypeOK, Next, budget.crashes <= MaxCrashes
  PROVE  /\ budget'.crashes <= MaxCrashes
         /\ NoCrashes' => NoCrashes
         /\ Crash => ~NoCrashes'
<1>0. MaxCrashes \in Nat /\ budget.crashes \in Nat BY BoundsAssumption DEF TypeOK
<1>1. ASSUME NEW b \in {"changes", "actions", "cancels", "crashes", "faults"}, Spend(b)
      PROVE  /\ budget'.crashes \in Nat
             /\ budget'.crashes <= budget.crashes
             /\ b = "crashes" => budget'.crashes < budget.crashes
  BY <1>1 DEF TypeOK, Spend
<1>2. budget'.crashes \in Nat /\ budget'.crashes <= budget.crashes
  BY <1>0, <1>1, BudgetChanges
<1>3. Crash => budget'.crashes < budget.crashes BY <1>1 DEF Crash
<1> QED BY <1>0, <1>2, <1>3 DEF NoCrashes

\* Job k's observations change with a step of its own only.
LEMMA OthersObserve ==
  ASSUME TypeOK, NEW j \in Jobs, NEW k \in Jobs, k # j,
         \/ processJob(j) \/ ForceSend(j) \/ Recover(j) \/ ClearStagedBackup(j) \/ DeleteJob(j)
         \/ RemoveLargeUploadApproval(j) \/ SaveJob(j) \/ Change(j) \/ RetryDue(j) \/ StoredLate(j)
  PROVE  anomalies'[k] = anomalies[k]
<1>1. CASE processJob(j)
  <2>1. CASE SendStaged(j) \/ SendNew(j) \/ CancelWork(j) BY <2>1 DEF SendStaged, SendNew, CancelWork
  <2>2. CASE prepareArchiveLocked(j)
    BY <2>2 DEF prepareArchiveLocked, UploadNow, Wait, Scan, ClearPending, SaveCleared, Build, BuildFails, Review, Point,
                TypeOK
  <2>3. CASE uploadPendingArchive(j)
    BY <2>3 DEF uploadPendingArchive, UploadStart, Stored, Succeed, SaveSent, FailRetryable, SaveFailed, AskApproval,
                Refuse, Held, Accept, TypeOK
  <2> QED BY <1>1, <2>1, <2>2, <2>3 DEF processJob
<1>2. CASE \/ ForceSend(j) \/ Recover(j) \/ ClearStagedBackup(j) \/ DeleteJob(j)
           \/ RemoveLargeUploadApproval(j) \/ SaveJob(j) \/ Change(j) \/ RetryDue(j) \/ StoredLate(j)
  BY <1>2 DEF ForceSend, Recover, ClearStagedBackup, DeleteJob, RemoveLargeUploadApproval, SaveJob, Change,
              RetryDue, StoredLate, TypeOK
<1> QED BY <1>1, <1>2

LEMMA PrepareKeeps ==
  ASSUME TypeOK, NEW j \in Jobs, prepareArchiveLocked(j), ~Review(j), ~Point(j)
  PROVE  KeepsPending(j)
<1>0. state[j] \in JobState /\ work[j] \in Work BY DEF TypeOK
<1>1. ASSUME UploadNow(j) PROVE KeepsPending(j)
  <2>1. work[j].pc = "prepare" /\ work'[j].pc = "queued" /\ UNCHANGED <<state, anomalies, stored>>
    BY <1>0, <1>1 DEF UploadNow, At, Go, TypeOK, Work, station
  <2> QED BY <2>1 DEF KeepsPending, Name
<1>2. ASSUME Wait(j) PROVE KeepsPending(j)
  <2>1. /\ work[j].pc = "prepare" /\ work'[j].pc = "idle" /\ state'[j] = Loaded(j)
        /\ UNCHANGED <<anomalies, stored>>
    BY <1>2 DEF Wait, At, Done, Save, NoWork, TypeOK, station
  <2> QED BY <2>1, LoadedKeeps DEF KeepsPending, SameStaged, Name
<1>3. ASSUME Scan(j) PROVE KeepsPending(j)
  <2>1. work[j].pc = "prepare" /\ state'[j] = Scanned(j) /\ UNCHANGED <<anomalies, stored>>
    BY <1>3 DEF Scan, At, Save, TypeOK, station
  <2>2. CASE Skip(j)
    <3>1. work'[j].pc \in {"clear", "cleared"} BY <1>0, <2>2 DEF Skip, Go, TypeOK, Work
    <3> QED BY <2>1, <3>1, LoadedKeeps DEF KeepsPending, SameStaged, Name
  <2>3. CASE IF StaysHeld(j) THEN Done(j)
             ELSE work' = [work EXCEPT ![j].pc = "build", ![j].fp = files[j]]
    <3>1. work'[j].pc \in {"idle", "build"} BY <1>0, <2>3 DEF Done, NoWork, TypeOK, Work
    <3> QED BY <2>1, <3>1, LoadedKeeps DEF KeepsPending, SameStaged, Name
  <2> QED BY <1>3, <2>2, <2>3 DEF Scan
<1>4. ASSUME ClearPending(j) PROVE KeepsPending(j)
  <2>1. work[j].pc = "clear" /\ UNCHANGED <<state, stored>> BY <1>4 DEF ClearPending, At, station
  <2>2. work'[j].pc \in {"idle", "cleared"} BY <1>0, <1>4 DEF ClearPending, Done, Go, NoWork, TypeOK, Work
  <2>3. \/ anomalies'[j] = anomalies[j]
        \/ anomalies'[j].history = anomalies[j].history /\ anomalies'[j].pending = None
    BY <1>4 DEF ClearPending, TypeOK
  <2> QED BY <2>1, <2>2, <2>3 DEF KeepsPending, Name
<1>5. ASSUME SaveCleared(j) PROVE KeepsPending(j)
  <2>1. PICK s : s = [clearPendingArchive(state[j]) EXCEPT !.mir = FALSE,
                                                           !.category = IF op.kind = "clear" THEN "" ELSE @]
    OBVIOUS
  <2>2. ~s.staged BY <2>1, ClearedType
  <2>3. state'[j] \in {s, state[j]} BY <1>5, <2>1 DEF SaveCleared, SaveLast, Save, TypeOK
  <2>4. work[j].pc = "cleared" /\ work'[j].pc = "idle" /\ UNCHANGED <<anomalies, stored>>
    BY <1>5 DEF SaveCleared, At, Done, NoWork, TypeOK, station
  <2>5. state'[j] = state[j] => Name(j)' = Name(j) BY DEF Name
  <2> QED BY <2>2, <2>3, <2>4, <2>5 DEF KeepsPending
<1>6. ASSUME Build(j) PROVE KeepsPending(j)
  <2>1. work[j].pc = "build" /\ work'[j].pc = "review" /\ UNCHANGED <<state, anomalies, stored>>
    BY <1>0, <1>6 DEF Build, At, Go, TypeOK, Work, station
  <2> QED BY <2>1 DEF KeepsPending, Name
<1>7. ASSUME BuildFails(j) PROVE KeepsPending(j)
  <2>1. PICK s : s = [state[j] EXCEPT !.category = "other"] OBVIOUS
  <2>2. SameStaged(s, state[j]) BY <1>0, <2>1 DEF JobState, SameStaged
  <2>3. work[j].pc = "build" /\ work'[j].pc = "idle" /\ state'[j] = s /\ UNCHANGED <<anomalies, stored>>
    BY <1>7, <2>1 DEF BuildFails, At, Done, Save, NoWork, TypeOK, station
  <2> QED BY <2>2, <2>3 DEF KeepsPending, SameStaged, Name
<1> QED BY <1>1, <1>2, <1>3, <1>4, <1>5, <1>6, <1>7 DEF prepareArchiveLocked

LEMMA UploadKeeps ==
  ASSUME TypeOK, NEW j \in Jobs, uploadPendingArchive(j) \/ CancelWork(j) \/ SendStaged(j) \/ SendNew(j),
         ~SaveSent(j), ~Accept(j)
  PROVE  KeepsPending(j)
<1>0. state[j] \in JobState /\ work[j] \in Work BY DEF TypeOK
<1>1. ASSUME UploadStart(j) PROVE KeepsPending(j)
  <2>0. work[j].pc = "queued" /\ UNCHANGED <<anomalies, stored>> BY <1>1 DEF UploadStart, At, station
  <2>1. work'[j].pc \in {"idle", "uploading"} BY <1>0, <1>1 DEF UploadStart, Done, NoWork, TypeOK, Work
  <2>2. PICK s : s = [state[j] EXCEPT !.mir = FALSE, !.retry = FALSE] OBVIOUS
  <2>3. PICK t : t = clearPendingArchive(state[j]) OBVIOUS
  <2>4. SameStaged(s, state[j]) /\ SameStaged(state[j], state[j]) /\ ~t.staged
    BY <1>0, <2>2, <2>3, EndType DEF JobState, SameStaged
  <2>5. state'[j] \in {s, t, state[j]} BY <1>1, <2>2, <2>3 DEF UploadStart, Save, TypeOK
  <2> QED BY <2>0, <2>1, <2>4, <2>5 DEF KeepsPending, SameStaged, Name
<1>2. ASSUME Stored(j) PROVE KeepsPending(j)
  <2>1. work[j].pc = "uploading" /\ work'[j].pc = "uploaded" /\ UNCHANGED <<state, anomalies>>
    BY <1>0, <1>2 DEF Stored, At, Go, TypeOK, Work
  <2>2. stored[j] \subseteq stored'[j] BY <1>2 DEF Stored, StoredAs, TypeOK
  <2> QED BY <2>1, <2>2 DEF KeepsPending, Name
<1>3. ASSUME Succeed(j) PROVE KeepsPending(j)
  <2>1. work[j].pc = "uploaded" /\ work'[j].pc = "sent" /\ UNCHANGED <<state, anomalies, stored>>
    BY <1>0, <1>3 DEF Succeed, At, Go, TypeOK, Work, station
  <2> QED BY <2>1 DEF KeepsPending, Name
<1>4. ASSUME FailRetryable(j) PROVE KeepsPending(j)
  <2>1. work[j].pc # "point" /\ work'[j].pc = "failed" /\ UNCHANGED <<state, anomalies, stored>>
    BY <1>0, <1>4 DEF FailRetryable, Go, TypeOK, Work
  <2> QED BY <2>1 DEF KeepsPending, Name
<1>5. ASSUME SaveFailed(j) PROVE KeepsPending(j)
  <2>1. PICK s : s = [state[j] EXCEPT !.category = "other", !.retry = TRUE, !.mir = FALSE] OBVIOUS
  <2>2. PICK t : t = discardPendingArchiveFile(s) OBVIOUS
  <2>3. SameStaged(s, state[j]) /\ SameStaged(state[j], state[j]) /\ ~t.staged
    BY <1>0, <2>1, <2>2 DEF JobState, SameStaged, discardPendingArchiveFile
  <2>4. /\ work[j].pc = "failed" /\ work'[j].pc = "idle" /\ state'[j] \in {s, t, state[j]}
        /\ UNCHANGED <<anomalies, stored>>
    BY <1>5, <2>1, <2>2 DEF SaveFailed, SaveLast, At, Done, Save, NoWork, TypeOK, station
  <2> QED BY <2>3, <2>4 DEF KeepsPending, SameStaged, Name
<1>6. ASSUME NEW category \in {"approval", "other"}, Held(j, category) PROVE KeepsPending(j)
  <2>1. PICK s : s = [state[j] EXCEPT !.category = category, !.retry = FALSE, !.mir = TRUE] OBVIOUS
  <2>2. SameStaged(s, state[j]) BY <1>0, <2>1 DEF JobState, SameStaged
  <2>3. work[j].pc = "uploading" /\ work'[j].pc = "idle" /\ state'[j] = s /\ UNCHANGED <<anomalies, stored>>
    BY <1>6, <2>1 DEF Held, At, Done, Save, NoWork, TypeOK, station
  <2> QED BY <2>2, <2>3 DEF KeepsPending, SameStaged, Name
<1>7. ASSUME CancelWork(j) PROVE KeepsPending(j)
  <2>1. PICK s : s = [state[j] EXCEPT !.retry = FALSE, !.mir = FALSE, !.category = ""] OBVIOUS
  <2>2. SameStaged(s, state[j]) BY <1>0, <2>1 DEF JobState, SameStaged
  <2>3. work[j].pc # "point" /\ work'[j].pc = "idle" /\ state'[j] = s /\ UNCHANGED <<anomalies, stored>>
    BY <1>7, <2>1 DEF CancelWork, Done, Save, NoWork, TypeOK
  <2> QED BY <2>2, <2>3 DEF KeepsPending, SameStaged, Name
<1>8. ASSUME SendStaged(j) \/ SendNew(j) PROVE KeepsPending(j)
  <2>0. work[j].pc = "force" /\ UNCHANGED <<anomalies, stored>> BY <1>8 DEF SendStaged, SendNew, At, station
  <2>1. work'[j].pc \in {"idle", "queued", "prepare"}
    BY <1>0, <1>8 DEF SendStaged, SendNew, Done, Go, NoWork, TypeOK, Work
  <2>2. PICK s : s = [state[j] EXCEPT !.approved = TRUE, !.mir = FALSE, !.retry = FALSE] OBVIOUS
  <2>3. PICK t : t = [state[j] EXCEPT !.mir = TRUE] OBVIOUS
  <2>4. PICK u : u = [state[j] EXCEPT !.mir = FALSE, !.retry = FALSE] OBVIOUS
  <2>5. /\ SameStaged(s, state[j]) /\ SameStaged(t, state[j]) /\ SameStaged(u, state[j])
        /\ SameStaged(state[j], state[j])
    BY <1>0, <2>2, <2>3, <2>4 DEF JobState, SameStaged
  <2>6. state'[j] \in {s, t, u, state[j]} BY <1>8, <2>2, <2>3, <2>4 DEF SendStaged, SendNew, Save, TypeOK
  <2> QED BY <2>0, <2>1, <2>5, <2>6 DEF KeepsPending, SameStaged, Name
<1> QED BY <1>1, <1>2, <1>3, <1>4, <1>5, <1>6, <1>7, <1>8 DEF uploadPendingArchive, AskApproval, Refuse

\* The steps that measure, point at and accept.
LEMMA MeasurePending ==
  ASSUME TypeOK, IInv, NEW j \in Jobs, PendingFits(j), Review(j) \/ Point(j) \/ SaveSent(j) \/ Accept(j), NoFaults'
  PROVE  PendingFits(j)'
<1>0. JobInv(j) /\ state[j] \in JobState /\ work[j] \in Work BY DEF IInv, TypeOK
<1>1. ASSUME Review(j) PROVE PendingFits(j)'
  <2>1. ~Spend("faults") BY FaultSpent
  <2>2. /\ anomalies' = [anomalies EXCEPT ![j].pending = work[j].fp]
        /\ work' = [work EXCEPT ![j].pc = "point", ![j].hold = Hold(j)]
        /\ UNCHANGED stored
    BY <1>1, <2>1 DEF Review, Observed
  <2>3. work'[j].pc = "point" /\ work'[j].fp = work[j].fp BY <1>0, <2>2 DEF TypeOK, Work
  <2>4. anomalies'[j].history = anomalies[j].history /\ anomalies'[j].pending = work[j].fp
    BY <2>2 DEF TypeOK
  <2> QED BY <2>2, <2>3, <2>4 DEF PendingFits, At
<1>2. ASSUME Point(j) PROVE PendingFits(j)'
  <2>1. PICK s : s = [state[j] EXCEPT !.staged = TRUE, !.approved = FALSE, !.fp = work[j].fp, !.time = 1 - @,
                       !.retry = FALSE, !.mir = work[j].hold,
                       !.category = IF work[j].hold THEN "unusual" ELSE ""]
    OBVIOUS
  <2>2. s.fp = work[j].fp BY <1>0, <2>1 DEF JobState
  <2>3. state'[j] = s /\ UNCHANGED <<anomalies, stored>> /\ work[j].pc = "point"
    BY <1>2, <2>1 DEF Point, At, Save, TypeOK, station
  <2>4. work'[j].pc \in {"idle", "queued"} BY <1>0, <1>2 DEF Point, Done, Go, NoWork, TypeOK, Work
  <2> QED BY <2>2, <2>3, <2>4 DEF PendingFits, At
<1>3. ASSUME SaveSent(j) PROVE PendingFits(j)'
  <2>1. PICK s : s = [clearPendingArchive(state[j]) EXCEPT !.last = state[j].fp, !.mir = FALSE, !.category = ""]
    OBVIOUS
  <2>2. ~s.staged
    <3>1. clearPendingArchive(state[j]) \in JobState /\ ~clearPendingArchive(state[j]).staged BY EndType
    <3> QED BY <2>1, <3>1 DEF JobState
  <2>3. state'[j] = s BY <1>3, <2>1, FaultSpent DEF SaveSent, SaveLast, Save, TypeOK
  <2>4. work[j].pc = "sent" /\ UNCHANGED <<anomalies, stored>> BY <1>3 DEF SaveSent, At, station
  <2>5. work'[j].pc = "accept" BY <1>0, <1>3 DEF SaveSent, Go, TypeOK, Work
  <2>6. state[j].staged /\ state[j].fp \in stored[j]
    BY <1>0, <2>4 DEF JobInv, SentIsStored, Sending
  <2>7. anomalies[j].pending \in {None, state[j].fp} BY <2>4, <2>6 DEF PendingFits, At
  <2> QED BY <2>2, <2>3, <2>4, <2>5, <2>6, <2>7 DEF PendingFits, At
<1>4. ASSUME Accept(j) PROVE PendingFits(j)'
  <2>1. work[j].pc = "accept" /\ work'[j].pc = "idle" /\ UNCHANGED <<state, stored>>
    BY <1>4 DEF Accept, At, Done, NoWork, TypeOK, station
  <2>2. anomalies'[j] = anomalies[j] \/ anomalies'[j] = Accepted(anomalies[j]) BY <1>4 DEF Accept, TypeOK
  <2>3. anomalies[j].pending \in {None} \cup stored[j] /\ anomalies[j].history \subseteq stored[j]
    BY <2>1 DEF PendingFits, At
  <2>4. anomalies'[j].history \subseteq stored[j] /\ anomalies'[j].pending \in {None, anomalies[j].pending}
    BY <2>2, <2>3 DEF Accepted
  <2>5. state[j].staged => anomalies[j].pending \in {None, state[j].fp} BY <2>1 DEF PendingFits, At
  <2> QED BY <2>1, <2>4, <2>5 DEF PendingFits, At
<1> QED BY <1>1, <1>2, <1>3, <1>4

LEMMA OperatorPending ==
  ASSUME TypeOK, IInv, NEW j \in Jobs,
         \/ ForceSend(j) \/ Recover(j) \/ ClearStagedBackup(j) \/ RemoveLargeUploadApproval(j)
         \/ DeleteJob(j) \/ SaveJob(j) \/ Change(j) \/ RetryDue(j) \/ StoredLate(j)
  PROVE  KeepsPending(j)
<1>0. state[j] \in JobState /\ work[j] \in Work BY DEF TypeOK
<1>a. op.kind = "none" => work[j].pc = "idle" BY DEF IInv, Structure, At
<1>1. ASSUME ForceSend(j) PROVE KeepsPending(j)
  <2>1. PICK s : s = [state[j] EXCEPT !.mir = FALSE, !.retry = FALSE] OBVIOUS
  <2>2. SameStaged(s, state[j]) /\ SameStaged(state[j], state[j]) BY <1>0, <2>1 DEF JobState, SameStaged
  <2>3. state'[j] \in {s, state[j]} /\ UNCHANGED <<anomalies, stored>> /\ work[j].pc = "idle"
    BY <1>1, <1>a, <2>1 DEF ForceSend, Save, TypeOK, station
  <2>4. work'[j].pc = "force" BY <1>1 DEF ForceSend, TypeOK, Work
  <2> QED BY <2>2, <2>3, <2>4 DEF KeepsPending, SameStaged, Name
<1>2. ASSUME Recover(j) PROVE KeepsPending(j)
  <2>1. PICK s : s = [state[j] EXCEPT !.category = ""] OBVIOUS
  <2>2. SameStaged(s, state[j]) /\ SameStaged(state[j], state[j]) BY <1>0, <2>1 DEF JobState, SameStaged
  <2>3. state'[j] \in {s, state[j]} /\ UNCHANGED <<work, anomalies, stored>>
    BY <1>2, <2>1 DEF Recover, Save, TypeOK, station
  <2> QED BY <2>2, <2>3 DEF KeepsPending, SameStaged, Name
<1>3. ASSUME ClearStagedBackup(j) PROVE KeepsPending(j)
  <2>1. UNCHANGED <<state, anomalies, stored>> /\ work[j].pc = "idle"
    BY <1>3, <1>a DEF ClearStagedBackup, station
  <2>2. work'[j].pc = "clear" BY <1>0, <1>3 DEF ClearStagedBackup, TypeOK, Work
  <2> QED BY <2>1, <2>2 DEF KeepsPending, Name
<1>4. ASSUME RemoveLargeUploadApproval(j) PROVE KeepsPending(j)
  <2>1. PICK s : s = [state[j] EXCEPT !.approved = FALSE] OBVIOUS
  <2>2. SameStaged(s, state[j]) /\ SameStaged(state[j], state[j]) BY <1>0, <2>1 DEF JobState, SameStaged
  <2>3. state'[j] = s /\ UNCHANGED <<work, anomalies, stored>>
    BY <1>4, <2>1 DEF RemoveLargeUploadApproval, Save, TypeOK, station
  <2> QED BY <2>2, <2>3 DEF KeepsPending, SameStaged, Name
<1>5. ASSUME DeleteJob(j) PROVE KeepsPending(j)
  <2>1. state'[j] = Zero /\ UNCHANGED <<work, stored>> /\ work[j].pc = "idle"
    BY <1>5, <1>a DEF DeleteJob, Save, TypeOK, station
  <2>2. anomalies'[j].history = {} /\ anomalies'[j].pending = None BY <1>5 DEF DeleteJob, TypeOK
  <2>3. ~Zero.staged BY DEF Zero
  <2> QED BY <2>1, <2>2, <2>3 DEF KeepsPending, SameStaged, Name
<1>6. ASSUME SaveJob(j) \/ Change(j) PROVE KeepsPending(j)
  BY <1>6 DEF SaveJob, Change, KeepsPending, Name, station
<1>7. ASSUME RetryDue(j) PROVE KeepsPending(j)
  <2>1. PICK s : s = [state[j] EXCEPT !.retry = FALSE] OBVIOUS
  <2>2. SameStaged(s, state[j]) /\ SameStaged(state[j], state[j]) BY <1>0, <2>1 DEF JobState, SameStaged
  <2>3. state'[j] = s /\ UNCHANGED <<work, anomalies, stored>> BY <1>7, <2>1 DEF RetryDue, Save, TypeOK, station
  <2> QED BY <2>2, <2>3 DEF KeepsPending, SameStaged, Name
<1>8. ASSUME StoredLate(j) PROVE KeepsPending(j)
  <2>1. stored[j] \subseteq stored'[j] BY <1>8 DEF StoredLate, StoredAs, TypeOK
  <2> QED BY <1>8, <2>1 DEF StoredLate, KeepsPending, Name, outer
<1> QED BY <1>1, <1>2, <1>3, <1>4, <1>5, <1>6, <1>7, <1>8

LEMMA CyclePending ==
  ASSUME TypeOK, IInv, NEW k \in Jobs, RunCycle \/ FinishOperation \/ UpdateSettings \/ CancelOperation \/ Lose
  PROVE  KeepsPending(k)
<1>0. state[k] \in JobState BY DEF TypeOK
<1>1. ASSUME RunCycle PROVE KeepsPending(k)
  <2>1. work[k].pc = "idle" BY <1>1 DEF RunCycle, IInv, Structure, At
  <2>2. work'[k].pc \in {"idle", "prepare"} BY <1>1 DEF RunCycle, NoWork
  <2> QED BY <1>1, <2>1, <2>2 DEF RunCycle, KeepsPending, Name, station
<1>2. ASSUME FinishCycle \/ FinishJob \/ FinishPreview \/ UpdateSettings \/ CancelOperation \/ Lose
      PROVE  KeepsPending(k)
  BY <1>2 DEF FinishCycle, FinishJob, FinishPreview, UpdateSettings, CancelOperation, Lose, KeepsPending, Name,
                  station
<1>3. ASSUME FinishRecover PROVE KeepsPending(k)
  <2>1. UNCHANGED <<work, anomalies, stored>> BY <1>3 DEF FinishRecover, station
  <2>2. PICK category \in {"", "other"} : Save(op.job, [state[op.job] EXCEPT !.category = category])
    BY <1>3 DEF FinishRecover
  <2>3. PICK s : s = [state[k] EXCEPT !.category = category] OBVIOUS
  <2>4. SameStaged(s, state[k]) /\ SameStaged(state[k], state[k]) BY <1>0, <2>3 DEF JobState, SameStaged
  <2>5. state'[k] \in {s, state[k]} BY <2>2, <2>3 DEF Save, TypeOK, station
  <2> QED BY <2>1, <2>4, <2>5 DEF KeepsPending, SameStaged, Name
<1> QED BY <1>1, <1>2, <1>3 DEF FinishOperation

LEMMA HistoryStep == TypeOK /\ IInv /\ HistoryInv /\ [Next]_vars => HistoryInv'
<1>1. ASSUME HistoryInv, UNCHANGED vars PROVE HistoryInv'
  BY <1>1 DEF vars, HistoryInv, PendingFits, At, NoFaults, NoCrashes
<1>2. ASSUME TypeOK, IInv, HistoryInv, Next PROVE HistoryInv'
  <2>1. budget'.crashes <= MaxCrashes /\ (NoCrashes' => NoCrashes) /\ (Crash => ~NoCrashes')
    BY <1>2, CrashBudget DEF HistoryInv
  <2>2. NoFaults' => NoFaults BY <1>2, BudgetStep DEF IInv
  <2>3. ASSUME NoFaults', NoCrashes', NEW k \in Jobs PROVE PendingFits(k)'
    <3>0. PendingFits(k) /\ ~Crash BY <1>2, <2>1, <2>2, <2>3 DEF HistoryInv
    <3>1. ASSUME NEW j \in Jobs,
                 \/ processJob(j) \/ ForceSend(j) \/ Recover(j) \/ ClearStagedBackup(j)
                 \/ RemoveLargeUploadApproval(j) \/ DeleteJob(j) \/ SaveJob(j) \/ Change(j) \/ RetryDue(j)
                 \/ StoredLate(j)
          PROVE  PendingFits(k)'
      <4>1. CASE k = j
        BY <1>2, <2>3, <3>0, <3>1, <4>1, PrepareKeeps, UploadKeeps, MeasurePending, OperatorPending,
           PendingFrame DEF processJob, prepareArchiveLocked, uploadPendingArchive
      <4>2. CASE k # j
        <5>1. anomalies'[k] = anomalies[k] BY <1>2, <3>1, <4>2, OthersObserve
        <5>2. work'[k] = work[k] /\ state'[k] = state[k] /\ stored'[k] = stored[k]
          <6>1. CASE SaveJob(j) \/ Change(j) BY <6>1 DEF SaveJob, Change, station
          <6>2. CASE RetryDue(j) BY <1>2, <4>2, <6>2 DEF RetryDue, Save, TypeOK, station
          <6> QED BY <1>2, <3>1, <4>2, <6>1, <6>2, OthersUntouched DEF Untouched
        <5> QED BY <3>0, <5>1, <5>2, PendingFrame DEF KeepsPending, Name
      <4> QED BY <4>1, <4>2
    <3> QED BY <1>2, <3>0, <3>1, CyclePending, PendingFrame DEF Next
  <2> QED BY <2>1, <2>3 DEF HistoryInv
<1> QED BY <1>1, <1>2

\* While Scout neither fails nor crashes, the history that decides what is unusual has uploaded
\* backups only: what a worker accepts after an upload is what it has uploaded, however often the
\* staged archive was replaced, held, cleared, cancelled or retried since it was measured.
THEOREM HistoryAlwaysStored == Spec => []HistoryIsStored
<1>1. Init => HistoryInv
  <2> SUFFICES ASSUME Init PROVE HistoryInv OBVIOUS
  <2>1. budget.crashes <= MaxCrashes BY BoundsAssumption DEF Init
  <2>2. ASSUME NEW j \in Jobs PROVE PendingFits(j)
    <3>1. /\ anomalies[j] = [history |-> {First}, pending |-> None]
          /\ stored[j] = {First} /\ work[j].pc = "idle"
      BY DEF Init, NoWork
    <3> QED BY <3>1 DEF PendingFits, At
  <2> QED BY <2>1, <2>2 DEF HistoryInv
<1>2. HistoryInv => HistoryIsStored BY DEF HistoryInv, HistoryIsStored, PendingFits
<1> QED BY <1>1, <1>2, HistoryStep, Invariance, PTL DEF Spec

-----------------------------------------------------------------------------
(* The archives that job states point at *)

\* The state points at the archive that it pointed at, which is still there or may go.
LEMMA KeptPresent ==
  ASSUME NEW k \in Jobs, KeepsPending(k), Present(k) => Name(k) \in spool' \/ Dismissed(k)
  PROVE  StaysPresent(k)
BY DEF KeepsPending, StaysPresent, Present, Archive

LEMMA UntouchedPresent ==
  ASSUME NEW k \in Jobs, state'[k] = state[k], Name(k) \in spool => Name(k) \in spool'
  PROVE  StaysPresent(k)
BY DEF StaysPresent, Present, Archive, Name

LEMMA WorkerPresent ==
  ASSUME TypeOK, IInv, NEW k \in Jobs, processJob(k), NoFaults'
  PROVE  StaysPresent(k)
<1>0. JobInv(k) /\ state[k] \in JobState BY DEF IInv, TypeOK
<1>a. Archive(k) \subseteq {Name(k)} BY DEF Archive
<1>1. ASSUME Point(k) PROVE StaysPresent(k)
  <2>1. PICK s : s = [state[k] EXCEPT !.staged = TRUE, !.approved = FALSE, !.fp = work[k].fp, !.time = 1 - @,
                       !.retry = FALSE, !.mir = work[k].hold,
                       !.category = IF work[k].hold THEN "unusual" ELSE ""]
    OBVIOUS
  <2>2. s.staged /\ s.fp = work[k].fp /\ s.time = 1 - state[k].time BY <1>0, <2>1 DEF JobState
  <2>3. state'[k] = s /\ spool' = spool \ Archive(k) BY <1>1, <2>1 DEF Point, Save, TypeOK
  <2>4. Name(k)' = NewName(k) BY <2>2, <2>3 DEF Name, NewName
  <2>5. NewName(k) \in spool BY <1>0, <1>1 DEF Point, At, JobInv, NewIsPresent
  <2>6. Name(k)' \in spool' BY <1>a, <2>3, <2>4, <2>5, NewIsAnother
  <2> QED BY <2>2, <2>3, <2>6 DEF StaysPresent, Present
<1>2. ASSUME Review(k) \/ Accept(k) PROVE StaysPresent(k)
  <2>1. UNCHANGED <<state, spool>> BY <1>2 DEF Review, Accept
  <2> QED BY <2>1, UntouchedPresent
<1>3. ASSUME SaveSent(k) PROVE StaysPresent(k)
  <2>1. PICK s : s = [clearPendingArchive(state[k]) EXCEPT !.last = state[k].fp, !.mir = FALSE, !.category = ""]
    OBVIOUS
  <2>2. ~s.staged
    <3>1. clearPendingArchive(state[k]) \in JobState /\ ~clearPendingArchive(state[k]).staged BY EndType
    <3> QED BY <2>1, <3>1 DEF JobState
  <2>3. state'[k] = s BY <1>3, <2>1, FaultSpent DEF SaveSent, SaveLast, Save, TypeOK
  <2> QED BY <2>2, <2>3 DEF StaysPresent
<1>4. ASSUME Scan(k), Skip(k) PROVE StaysPresent(k)
  <2>1. KeepsPending(k) BY <1>4, PrepareKeeps DEF prepareArchiveLocked, Review, Point, Scan, At
  <2>2. Dismissed(k) BY <1>4 DEF Skip, Dismissed
  <2> QED BY <2>1, <2>2, KeptPresent
<1>5. ASSUME Succeed(k) PROVE StaysPresent(k)
  <2>0. At(k, "uploaded") BY <1>5 DEF Succeed
  <2>1. KeepsPending(k)
    <3>1. ~SaveSent(k) /\ ~Accept(k) BY <2>0 DEF SaveSent, Accept, At
    <3> QED BY <1>5, <3>1, UploadKeeps DEF uploadPendingArchive
  <2>2. Dismissed(k) BY <1>0, <2>0 DEF Dismissed, At, JobInv, SentIsStored
  <2> QED BY <2>1, <2>2, KeptPresent
<1>6. ASSUME FailRetryable(k) PROVE StaysPresent(k)
  <2>0. work[k].pc \in {"uploading", "uploaded"} BY <1>6 DEF FailRetryable
  <2>1. KeepsPending(k)
    <3>1. ~SaveSent(k) /\ ~Accept(k) BY <2>0 DEF SaveSent, Accept, At
    <3> QED BY <1>6, <3>1, UploadKeeps DEF uploadPendingArchive
  <2>2. spool' = spool \/ Dismissed(k) BY <1>6, <2>0 DEF FailRetryable, Dismissed, TypeOK
  <2> QED BY <2>1, <2>2, KeptPresent DEF Present
<1>7. ASSUME prepareArchiveLocked(k), ~Point(k), ~Review(k), ~(Scan(k) /\ Skip(k)) PROVE StaysPresent(k)
  <2>1. KeepsPending(k) BY <1>7, PrepareKeeps
  <2>2. spool \subseteq spool'
    BY <1>7 DEF prepareArchiveLocked, UploadNow, Wait, Scan, ClearPending, SaveCleared, Build, BuildFails
  <2> QED BY <2>1, <2>2, KeptPresent DEF Present
<1>8. ASSUME CancelWork(k) PROVE StaysPresent(k)
  <2>1. KeepsPending(k)
    <3>1. ~SaveSent(k) /\ ~Accept(k) BY <1>8 DEF CancelWork, SaveSent, Accept, At
    <3> QED BY <1>8, <3>1, UploadKeeps
  <2>2. Name(k) \in spool => Name(k) \in spool' BY <1>8, NewIsAnother DEF CancelWork
  <2> QED BY <2>1, <2>2, KeptPresent DEF Present
<1>9. ASSUME \/ SendStaged(k) \/ SendNew(k) \/ UploadStart(k) \/ Stored(k) \/ SaveFailed(k)
             \/ AskApproval(k) \/ Refuse(k)
      PROVE  StaysPresent(k)
  <2>0. work[k].pc \in {"force", "queued", "uploading", "failed"} /\ UNCHANGED spool
    BY <1>9 DEF SendStaged, SendNew, UploadStart, Stored, SaveFailed, AskApproval, Refuse, Held, At
  <2>1. ~SaveSent(k) /\ ~Accept(k) BY <2>0 DEF SaveSent, Accept, At
  <2>2. KeepsPending(k) BY <1>9, <2>1, UploadKeeps DEF uploadPendingArchive
  <2> QED BY <2>0, <2>2, KeptPresent DEF Present
<1> QED BY <1>1, <1>2, <1>3, <1>4, <1>5, <1>6, <1>7, <1>8, <1>9 DEF processJob, uploadPendingArchive

LEMMA PresentStep ==
  ASSUME TypeOK, IInv, Next, NEW k \in Jobs, NoFaults'
  PROVE  StaysPresent(k)
<1>1. ASSUME NEW j \in Jobs, j # k,
             \/ processJob(j) \/ ForceSend(j) \/ Recover(j) \/ ClearStagedBackup(j) \/ DeleteJob(j)
             \/ RemoveLargeUploadApproval(j) \/ StoredLate(j)
      PROVE  StaysPresent(k)
  <2>1. Untouched(k) BY <1>1, OthersUntouched
  <2> QED BY <2>1, UntouchedPresent DEF Untouched, Name
<1>2. ASSUME \/ ForceSend(k) \/ Recover(k) \/ RemoveLargeUploadApproval(k) \/ DeleteJob(k) \/ RetryDue(k)
             \/ StoredLate(k)
      PROVE  StaysPresent(k)
  <2>1. KeepsPending(k) BY <1>2, OperatorPending
  <2>2. UNCHANGED spool BY <1>2 DEF ForceSend, Recover, RemoveLargeUploadApproval, DeleteJob, RetryDue, StoredLate
  <2> QED BY <2>1, <2>2, KeptPresent DEF Present
<1>3. ASSUME ClearStagedBackup(k) PROVE StaysPresent(k)
  <2>1. KeepsPending(k) BY <1>3, OperatorPending
  <2>2. Dismissed(k) BY <1>3 DEF ClearStagedBackup, Dismissed, NoOp
  <2> QED BY <2>1, <2>2, KeptPresent
<1>4. ASSUME NEW j \in Jobs, SaveJob(j) \/ Change(j) \/ (RetryDue(j) /\ j # k) PROVE StaysPresent(k)
  <2>1. state'[k] = state[k] /\ UNCHANGED spool BY <1>4 DEF SaveJob, Change, RetryDue, Save, TypeOK
  <2> QED BY <2>1, UntouchedPresent
<1>5. ASSUME FinishCycle PROVE StaysPresent(k)
  <2>1. spool' = spool \cap ReferencedPendingArchives BY <1>5, FaultSpent DEF FinishCycle
  <2>2. Present(k) => Name(k) \in spool' BY <2>1 DEF Present, Archive, ReferencedPendingArchives
  <2>3. KeepsPending(k) BY <1>5, CyclePending DEF FinishOperation
  <2> QED BY <2>2, <2>3, KeptPresent
<1>6. ASSUME RunCycle \/ FinishJob \/ FinishRecover \/ FinishPreview \/ UpdateSettings \/ CancelOperation
      PROVE  StaysPresent(k)
  <2>1. KeepsPending(k) BY <1>6, CyclePending DEF FinishOperation
  <2>2. UNCHANGED spool
    BY <1>6 DEF RunCycle, FinishJob, FinishRecover, FinishPreview, UpdateSettings, CancelOperation
  <2> QED BY <2>1, <2>2, KeptPresent DEF Present
<1>7. ASSUME Crash PROVE StaysPresent(k)
  <2>1. UNCHANGED <<state, spool>> BY <1>7 DEF Crash
  <2> QED BY <2>1, UntouchedPresent
<1>8. ~Lose BY FaultSpent DEF Lose
<1> QED BY <1>1, <1>2, <1>3, <1>4, <1>5, <1>6, <1>7, <1>8, WorkerPresent DEF Next, FinishOperation

\* While neither a write fails nor a file is lost, the archive that a job state points at stays in
\* the spool: no cleanup, replaced archive, cancellation or crash between two steps takes it away.
\* When it goes before the state says so, Station has it, or nobody wants it any more.
THEOREM StagedAlwaysPresent == Spec => StagedIsPresent
<1>1. TypeOK /\ IInv /\ [Next]_vars => [NoFaults' => \A j \in Jobs : StaysPresent(j)]_vars BY PresentStep
<1> QED BY Invariance, <1>1, PTL DEF Spec, StagedIsPresent

-----------------------------------------------------------------------------
(* Why an operation ends *)

\* The course of a worker.
Course == [force |-> 0, prepare |-> 1, clear |-> 2, cleared |-> 3, build |-> 4, review |-> 5, point |-> 6,
           queued |-> 7, uploading |-> 8, uploaded |-> 9, failed |-> 10, sent |-> 11, accept |-> 12, idle |-> 13]
Advances(j) == Course[work'[j].pc] > Course[work[j].pc]

OperationAdvances ==
  op.kind # "none" =>
    \/ op' = NoOp /\ \A j \in Jobs : work'[j].pc = "idle"
    \/ /\ op'.kind = op.kind /\ op'.job = op.job
       /\ op.cancelled => op'.cancelled
       /\ ~FinishOperation
       /\ \A j \in Jobs : work'[j] = work[j] \/ Advances(j)
       /\ \A j \in Jobs : processJob(j) => Advances(j)

LEMMA DoneAdvances ==
  ASSUME TypeOK, NEW j \in Jobs, ~At(j, "idle"), Done(j)
  PROVE  Advances(j)
<1>1. work'[j].pc = "idle" BY DEF Done, NoWork, TypeOK
<1>2. work[j].pc \in Pcs \ {"idle"} BY DEF TypeOK, Work, At
<1>3. Course[work'[j].pc] > Course[work[j].pc] BY ONLY <1>1, <1>2 DEF Course, Pcs
<1> QED BY <1>3 DEF Advances

LEMMA PrepareAdvances ==
  ASSUME TypeOK, NEW j \in Jobs, prepareArchiveLocked(j)
  PROVE  Advances(j)
<1>0. work \in [Jobs -> Work] BY DEF TypeOK
<1>1. CASE UploadNow(j)
  <2>1. At(j, "prepare") /\ work'[j].pc = "queued" BY <1>0, <1>1 DEF UploadNow, Go, Work
  <2> QED BY <2>1 DEF At, Advances, Course
<1>2. CASE Wait(j) BY <1>2, DoneAdvances DEF Wait, At
<1>3. CASE Scan(j)
  <2>1. At(j, "prepare") BY <1>3 DEF Scan
  <2>2. CASE Done(j) BY <2>1, <2>2, DoneAdvances DEF At
  <2>3. CASE work' = [work EXCEPT ![j].pc = "build", ![j].fp = files[j]]
    <3>1. work'[j].pc = "build" BY <1>0, <2>3 DEF Work
    <3> QED BY <2>1, <3>1 DEF At, Advances, Course
  <2>4. CASE Skip(j)
    <3>1. work'[j].pc \in {"clear", "cleared"} BY <1>0, <2>4 DEF Skip, Go, Work
    <3> QED BY <2>1, <3>1 DEF At, Advances, Course
  <2> QED BY <1>3, <2>2, <2>3, <2>4 DEF Scan
<1>8. CASE ClearPending(j)
  <2>1. At(j, "clear") BY <1>8 DEF ClearPending
  <2>2. CASE Done(j) BY <2>1, <2>2, DoneAdvances DEF At
  <2>3. CASE Go(j, "cleared")
    <3>1. work'[j].pc = "cleared" BY <1>0, <2>3 DEF Go, Work
    <3> QED BY <2>1, <3>1 DEF At, Advances, Course
  <2> QED BY <1>8, <2>2, <2>3 DEF ClearPending
<1>9. CASE SaveCleared(j) BY <1>9, DoneAdvances DEF SaveCleared, At
<1>4. CASE Build(j)
  <2>1. At(j, "build") /\ work'[j].pc = "review" BY <1>0, <1>4 DEF Build, Go, Work
  <2> QED BY <2>1 DEF At, Advances, Course
<1>5. CASE BuildFails(j) BY <1>5, DoneAdvances DEF BuildFails, At
<1>6. CASE Review(j)
  <2>1. At(j, "review") /\ work'[j].pc = "point" BY <1>0, <1>6 DEF Review, Go, Work
  <2> QED BY <2>1 DEF At, Advances, Course
<1>7. CASE Point(j)
  <2>1. At(j, "point") BY <1>7 DEF Point
  <2>2. CASE Done(j) BY <2>1, <2>2, DoneAdvances DEF At
  <2>3. CASE Go(j, "queued")
    <3>1. work'[j].pc = "queued" BY <1>0, <2>3 DEF Go, Work
    <3> QED BY <2>1, <3>1 DEF At, Advances, Course
  <2> QED BY <1>7, <2>2, <2>3 DEF Point
<1> QED BY <1>1, <1>2, <1>3, <1>4, <1>5, <1>6, <1>7, <1>8, <1>9 DEF prepareArchiveLocked

LEMMA UploadAdvances ==
  ASSUME TypeOK, NEW j \in Jobs, uploadPendingArchive(j)
  PROVE  Advances(j)
<1>0. work \in [Jobs -> Work] BY DEF TypeOK
<1>1. CASE UploadStart(j)
  <2>1. At(j, "queued") BY <1>1 DEF UploadStart
  <2>2. CASE Done(j) BY <2>1, <2>2, DoneAdvances DEF At
  <2>3. CASE work'[j].pc = "uploading" BY <2>1, <2>3 DEF At, Advances, Course
  <2>4. Done(j) \/ work'[j].pc = "uploading" BY <1>0, <1>1 DEF UploadStart, Work
  <2> QED BY <2>2, <2>3, <2>4
<1>2. CASE Stored(j)
  <2>1. At(j, "uploading") /\ work'[j].pc = "uploaded" BY <1>0, <1>2 DEF Stored, Go, Work
  <2> QED BY <2>1 DEF At, Advances, Course
<1>3. CASE Succeed(j)
  <2>1. At(j, "uploaded") /\ work'[j].pc = "sent" BY <1>0, <1>3 DEF Succeed, Go, Work
  <2> QED BY <2>1 DEF At, Advances, Course
<1>4. CASE SaveSent(j)
  <2>1. At(j, "sent") /\ work'[j].pc = "accept" BY <1>0, <1>4 DEF SaveSent, Go, Work
  <2> QED BY <2>1 DEF At, Advances, Course
<1>5. CASE FailRetryable(j)
  <2>1. work[j].pc \in {"uploading", "uploaded"} /\ work'[j].pc = "failed"
    BY <1>0, <1>5 DEF FailRetryable, Go, Work
  <2> QED BY <2>1 DEF Advances, Course
<1>6. CASE SaveFailed(j) \/ AskApproval(j) \/ Refuse(j) \/ Accept(j)
  <2>1. ~At(j, "idle") /\ Done(j) BY <1>6 DEF SaveFailed, AskApproval, Refuse, Held, Accept, At
  <2> QED BY <2>1, DoneAdvances
<1> QED BY <1>1, <1>2, <1>3, <1>4, <1>5, <1>6 DEF uploadPendingArchive

LEMMA WorkerAdvances ==
  ASSUME TypeOK, NEW j \in Jobs, processJob(j)
  PROVE  Advances(j)
<1>0. work \in [Jobs -> Work] BY DEF TypeOK
<1>1. CASE SendStaged(j)
  <2>1. At(j, "force") BY <1>1 DEF SendStaged
  <2>2. CASE Done(j) BY <2>1, <2>2, DoneAdvances DEF At
  <2>3. CASE Go(j, "queued")
    <3>1. work'[j].pc = "queued" BY <1>0, <2>3 DEF Go, Work
    <3> QED BY <2>1, <3>1 DEF At, Advances, Course
  <2> QED BY <1>1, <2>2, <2>3 DEF SendStaged
<1>2. CASE SendNew(j)
  <2>1. At(j, "force") /\ work'[j].pc = "prepare" BY <1>0, <1>2 DEF SendNew, Go, Work
  <2> QED BY <2>1 DEF At, Advances, Course
<1>3. CASE CancelWork(j)
  <2>1. ~At(j, "idle") /\ Done(j) BY <1>3 DEF CancelWork, At
  <2> QED BY <2>1, DoneAdvances
<1> QED BY <1>1, <1>2, <1>3, PrepareAdvances, UploadAdvances DEF processJob

\* The steps that no worker takes.
LEMMA OthersKeepWork ==
  ASSUME TypeOK, IInv, Next, \A j \in Jobs : ~processJob(j)
  PROVE  \/ op' = op /\ work' = work
         \/ op.kind = "none"
         \/ op' = NoOp /\ \A j \in Jobs : work'[j].pc = "idle"
         \/ CancelOperation
<1>1. CASE FinishOperation \/ Crash
  <2>1. CASE Crash BY <2>1 DEF Crash, NoWork
  <2>2. CASE FinishCycle \/ FinishJob BY <2>2 DEF FinishCycle, FinishJob, At
  <2>3. CASE FinishRecover \/ FinishPreview BY <2>3 DEF FinishRecover, FinishPreview, IInv, Structure, At
  <2> QED BY <1>1, <2>1, <2>2, <2>3 DEF FinishOperation
<1>2. ASSUME NEW j \in Jobs, ForceSend(j) \/ Recover(j) \/ ClearStagedBackup(j) PROVE op.kind = "none"
  BY <1>2 DEF ForceSend, Recover, ClearStagedBackup
<1>3. ASSUME NEW j \in Jobs,
             \/ RemoveLargeUploadApproval(j) \/ DeleteJob(j) \/ SaveJob(j) \/ Change(j) \/ RetryDue(j)
             \/ StoredLate(j)
      PROVE  op' = op /\ work' = work
  BY <1>3 DEF RemoveLargeUploadApproval, DeleteJob, SaveJob, Change, RetryDue, StoredLate, outer
<1>4. CASE UpdateSettings \/ Lose BY <1>4 DEF UpdateSettings, Lose
<1>5. RunCycle => op.kind = "none" BY DEF RunCycle
<1> QED BY <1>1, <1>2, <1>3, <1>4, <1>5 DEF Next

\* While an operation holds cycleLock every step of a worker takes that worker further, no step
\* takes any worker back, nobody gets new work, and a cancellation is not taken back: what holds the
\* lock only ever gets closer to FinishCycle, FinishJob or FinishRecover.  With the weak fairness
\* of workers this is why operations end (OperationsEnd).
THEOREM OperationsAdvance == Spec => [][OperationAdvances]_vars
<1>1. TypeOK /\ IInv /\ [Next]_vars => [OperationAdvances]_vars
  <2>1. ASSUME TypeOK, IInv, NEW j \in Jobs, processJob(j), op.kind # "none" PROVE OperationAdvances
    <3>1. op' = op /\ ~At(j, "idle") /\ \A k \in Jobs : k # j => work'[k] = work[k] BY <2>1, WorkerGoesOn
    <3>2. Advances(j) BY <2>1, WorkerAdvances
    <3>3. \A k \in Jobs : processJob(k) => Advances(k) BY <2>1, WorkerAdvances
    <3>4. ~FinishOperation
      <4>1. ~FinishCycle /\ ~FinishJob BY <3>1 DEF FinishCycle, FinishJob
      <4>2. ~FinishRecover /\ ~FinishPreview
        BY <2>1, <3>1 DEF FinishRecover, FinishPreview, IInv, Structure
      <4> QED BY <4>1, <4>2 DEF FinishOperation
    <3> QED BY <3>1, <3>2, <3>3, <3>4 DEF OperationAdvances
  <2>2. ASSUME TypeOK, IInv, Next, \A j \in Jobs : ~processJob(j), op.kind # "none" PROVE OperationAdvances
    <3>1. ASSUME op' = op, work' = work PROVE OperationAdvances
      <4>1. ~FinishOperation \/ op' = NoOp
        BY DEF FinishOperation, FinishCycle, FinishJob, FinishRecover, FinishPreview
      <4>2. op' # NoOp BY <2>2, <3>1 DEF NoOp
      <4> QED BY <2>2, <3>1, <4>1, <4>2 DEF OperationAdvances
    <3>2. ASSUME CancelOperation PROVE OperationAdvances
      <4>1. op'.kind = op.kind /\ op'.job = op.job /\ op'.cancelled /\ work' = work
        BY <2>2, <3>2 DEF CancelOperation, TypeOK
      <4>2. ~FinishOperation
        <5>1. FinishOperation => op' = NoOp
          BY DEF FinishOperation, FinishCycle, FinishJob, FinishRecover, FinishPreview
        <5> QED BY <4>1, <5>1 DEF NoOp
      <4> QED BY <2>2, <4>1, <4>2 DEF OperationAdvances
    <3> QED BY <2>2, <3>1, <3>2, OthersKeepWork DEF OperationAdvances
  <2> QED BY <2>1, <2>2 DEF OperationAdvances
<1> QED BY <1>1, Invariance, PTL DEF Spec
=============================================================================
