------------------------------ MODULE JobRunner ------------------------------
(***************************************************************************)
(* Scout's job runner (app/scout/internal/services/runner): a cycle that   *)
(* prepares the archives of all jobs in parallel and uploads them one at a *)
(* time, the operator's actions beside it, and what they keep in Scout's   *)
(* database and in the spool directory.                                    *)
(*                                                                         *)
(* Whatever builds, uploads or removes a staged archive holds cycleLock;   *)
(* CancelOperation, a crash, and the users of the job folders do not ask.  *)
(*                                                                         *)
(* A content is what a fingerprint and an observation tell apart, the      *)
(* paths and sizes of the files: an edit that keeps them all is, by        *)
(* design, no change.  A fingerprint stands for that content.  An archive  *)
(* is named after its job, its fingerprint and the time: of the time, what *)
(* tells a new archive from the one that the job state points at.          *)
(* Statuses, phases and percentages are for display and left out.  The     *)
(* upload itself is in UploadClient.                                       *)
(***************************************************************************)
EXTENDS FiniteSets, Integers

CONSTANTS
  Jobs,          \* job folders
  Contents,      \* what a job folder may hold
  Odd,           \* contents unlike the others, which make a backup unusual
  Large,         \* contents above Station's upload approval threshold
  First,         \* the content that every job has uploaded at first
  None,
  MaxChanges,    \* bound: changes of the job folders, by users or by recoveries
  MaxActions,    \* bound: actions of the operator
  MaxCancels,    \* bound: operations that the operator cancels
  MaxCrashes,    \* bound: crashes of Scout
  MaxFaults      \* bound: failures of Scout's own database or disk

ASSUME ContentsAssumption ==
  /\ First \in Contents
  /\ Odd \subseteq Contents \ {First}
  /\ Large \subseteq Contents \ {First}
  /\ None \notin Contents
ASSUME BoundsAssumption ==
  /\ MaxChanges \in Nat
  /\ MaxActions \in Nat
  /\ MaxCancels \in Nat
  /\ MaxCrashes \in Nat
  /\ MaxFaults \in Nat

VARIABLES
  op,          \* the operation that holds cycleLock
  work,        \* per job, how far its worker is
  state,       \* the job states in the database
  spool,       \* the archives in the spool directory
  anomalies,   \* per job, the accepted history and the pending observation
  approvals,   \* the jobs with a remembered approval of large uploads
  settings,    \* AnomalyMode = hold, AutoApproveLargeUploads, KeepLocalPending
  configured,  \* the folders that are configured as jobs
  files,       \* per job, what the folder holds; None when it is empty
  stored,      \* per job, the contents that Station has stored a snapshot of
  late,        \* uploads that Scout has given up and that Station may store yet
  passed,      \* history: contents that looked normal when they were archived or that the operator sent
  budget       \* how much of each bound is left

vars == <<op, work, state, spool, anomalies, approvals, settings, configured, files, stored, late, passed, budget>>

-----------------------------------------------------------------------------
(* State *)

Categories == {"", "unusual", "approval", "other"}
JobState == [last : Contents \cup {None}, staged : BOOLEAN, fp : Contents \cup {None}, time : {0, 1},
             approved : BOOLEAN, mir : BOOLEAN, category : Categories, retry : BOOLEAN]
Zero     == [last |-> None, staged |-> FALSE, fp |-> None, time |-> 0,
             approved |-> FALSE, mir |-> FALSE, category |-> "", retry |-> FALSE]

Pcs   == {"idle", "force", "prepare", "clear", "cleared", "build", "review", "point",
          "queued", "uploading", "failed", "uploaded", "sent", "accept"}
Work  == [pc : Pcs, fp : Contents \cup {None}, hold : BOOLEAN, allow : BOOLEAN]
NoWork == [pc |-> "idle", fp |-> None, hold |-> FALSE, allow |-> FALSE]

Kinds == {"none", "cycle", "force", "clear", "recover", "preview"}
NoOp  == [kind |-> "none", job |-> None, cancelled |-> FALSE]

Init ==
  /\ op         = NoOp
  /\ work       = [j \in Jobs |-> NoWork]
  /\ state      = [j \in Jobs |-> [Zero EXCEPT !.last = First]]
  /\ spool      = {}
  /\ anomalies  = [j \in Jobs |-> [history |-> {First}, pending |-> None]]
  /\ approvals  = {}
  /\ settings   \in [hold : {TRUE}, auto : BOOLEAN, keep : BOOLEAN]
  /\ configured = Jobs
  /\ files      = [j \in Jobs |-> First]
  /\ stored     = [j \in Jobs |-> {First}]
  /\ late       = {}
  /\ passed     = [j \in Jobs |-> {First}]
  /\ budget     = [changes |-> MaxChanges, actions |-> MaxActions, cancels |-> MaxCancels,
                   crashes |-> MaxCrashes, faults |-> MaxFaults]

Spend(b)  == budget[b] > 0 /\ budget' = [budget EXCEPT ![b] = @ - 1]
At(j, pc) == work[j].pc = pc
Forced    == op.kind = "force"

Go(j, pc)  == work' = [work EXCEPT ![j].pc = pc]
Done(j)    == work' = [work EXCEPT ![j] = NoWork]
Save(j, s) == state' = [state EXCEPT ![j] = s]

\* saveState where the worker is done with the job: a failure is logged.
SaveLast(j, s) ==
  \/ Save(j, s) /\ UNCHANGED budget
  \/ Spend("faults") /\ UNCHANGED state

\* The archive that a job state points at, and the one that its worker is making.
Name(j)    == <<j, state[j].fp, state[j].time>>
NewName(j) == <<j, work[j].fp, 1 - state[j].time>>
Archive(j) == IF state[j].staged THEN {Name(j)} ELSE {}
Present(j) == state[j].staged /\ Name(j) \in spool

ReferencedByDueJobs == UNION {Archive(j) : j \in {k \in Jobs : ~state[k].mir}}
ReferencedPendingArchives == UNION {Archive(j) : j \in Jobs}

\* clearPendingArchive and discardPendingArchiveFile, after the file is removed.
discardPendingArchiveFile(s) == [s EXCEPT !.staged = FALSE, !.approved = FALSE, !.time = 0]
clearPendingArchive(s) == [discardPendingArchiveFile(s) EXCEPT !.fp = None, !.retry = FALSE]

outer   == <<op, approvals, settings, configured, files>>
station == <<stored, late, passed>>

-----------------------------------------------------------------------------
(* Preparing a job's archive: prepareArchiveLocked *)

\* A job that waits for a size approval goes on when the approval is remembered.
Remembered(j) == state[j].mir /\ state[j].category = "approval" /\ settings.auto /\ j \in approvals
Loaded(j) == IF Remembered(j) THEN [state[j] EXCEPT !.mir = FALSE, !.retry = FALSE] ELSE state[j]

Missing(j) == state[j].staged /\ ~Present(j)

\* checkRetry finds an archive that is due.
UploadNow(j) ==
  /\ At(j, "prepare")
  /\ ~op.cancelled
  /\ ~Loaded(j).mir /\ Present(j) /\ ~Loaded(j).retry
  /\ Go(j, "queued")
  /\ UNCHANGED <<state, spool, anomalies, station, budget, outer>>

WaitForArchive(j) ==
  /\ At(j, "prepare")
  /\ ~op.cancelled
  /\ ~Loaded(j).mir /\ ~Missing(j) /\ Loaded(j).fp # None /\ (Loaded(j).retry \/ ~Present(j))
  /\ Save(j, Loaded(j))
  /\ Done(j)
  /\ UNCHANGED <<spool, anomalies, station, budget, outer>>
\* checkRetry finds that it is too early.
Wait(j) ==
  /\ At(j, "prepare")
  /\ ~op.cancelled
  /\ ~Loaded(j).mir /\ ~Missing(j) /\ Loaded(j).fp # None /\ Loaded(j).retry
  /\ Save(j, Loaded(j))
  /\ Done(j)
  /\ UNCHANGED <<spool, anomalies, station, budget, outer>>

Scanning(j) ==
  \/ Loaded(j).mir
  \/ Missing(j)
  \/ ~Present(j) /\ (Loaded(j).fp = None \/ ~Loaded(j).retry)

\* A held archive keeps its reasons; anything else starts afresh.
Scanned(j) ==
  LET s == IF ~Loaded(j).mir /\ Missing(j) THEN clearPendingArchive(Loaded(j)) ELSE Loaded(j)
  IN IF s.mir /\ s.category \in {"unusual", "approval"} THEN s ELSE [s EXCEPT !.category = ""]

\* The folder is empty, or holds what was uploaded last: nothing stays staged.
Skip(j) ==
  /\ files[j] = None \/ (~Forced /\ files[j] = state[j].last)
  /\ spool' = spool \ Archive(j)
  /\ Go(j, IF files[j] = None THEN "cleared" ELSE "clear")

\* The archive is removed; its measurements are forgotten, and then the state is saved.
ClearPending(j) ==
  /\ At(j, "clear")
  /\ \/ /\ anomalies' = [anomalies EXCEPT ![j].pending = None]
        /\ Go(j, "cleared")
        /\ UNCHANGED budget
     \/ /\ Spend("faults")
        /\ IF op.kind = "clear" THEN Done(j) ELSE Go(j, "cleared")
        /\ UNCHANGED anomalies
  /\ UNCHANGED <<state, spool, station, outer>>

SaveCleared(j) ==
  /\ At(j, "cleared")
  /\ SaveLast(j, [clearPendingArchive(state[j]) EXCEPT !.mir = FALSE,
                                                     !.category = IF op.kind = "clear" THEN "" ELSE @])
  /\ Done(j)
  /\ UNCHANGED <<spool, anomalies, station, outer>>

\* The staged archive that waits for the operator is still what the folder holds.
StaysHeld(j) == Scanned(j).mir /\ Present(j) /\ Scanned(j).fp = files[j]

Scan(j) ==
  /\ At(j, "prepare")
  /\ ~op.cancelled
  /\ Scanning(j)
  /\ Save(j, Scanned(j))
  /\ \/ Skip(j)
     \/ /\ files[j] # None
        /\ Forced \/ files[j] # state[j].last
        /\ IF StaysHeld(j)
           THEN Done(j)
           ELSE work' = [work EXCEPT ![j].pc = "build", ![j].fp = files[j]]
        /\ UNCHANGED spool
  /\ UNCHANGED <<anomalies, station, budget, outer>>

\* createPendingArchive.  The archive is in the spool before anything points at it.
Build(j) ==
  /\ At(j, "build")
  /\ ~op.cancelled
  /\ spool' = spool \cup {NewName(j)}
  /\ Go(j, "review")
  /\ UNCHANGED <<state, anomalies, station, budget, outer>>

BuildFails(j) ==
  /\ At(j, "build")
  /\ ~op.cancelled
  /\ Spend("faults")
  /\ Save(j, [state[j] EXCEPT !.category = "other"])
  /\ Done(j)
  /\ UNCHANGED <<spool, anomalies, station, outer>>

\* Observe: what is remembered of a finished archive.
Observed(j) == work[j].fp

\* Evaluate: file count, size, compression, churn and file types
\* against the accepted history.  A job without a history has nothing to compare with.
Unusual(history, c) == c \in Odd /\ history # {} /\ c \notin history

HoldOnce(j) == ~Forced /\ settings.hold /\ ~state[j].mir /\ Unusual(anomalies[j].history, Observed(j))
Hold(j) == ~Forced /\ settings.hold /\ Unusual(anomalies[j].history, Observed(j))

ReviewAccepting(j) ==
  /\ At(j, "review")
  /\ \/ /\ anomalies' = [anomalies EXCEPT ![j] = [history |-> @.history \cup {Observed(j)}, pending |-> None]]
        /\ work' = [work EXCEPT ![j].pc = "point", ![j].hold = Hold(j)]
        /\ passed' = IF Forced \/ ~settings.hold \/ ~Unusual(anomalies[j].history, Observed(j))
                     THEN [passed EXCEPT ![j] = @ \cup {work[j].fp}]
                     ELSE passed
        /\ UNCHANGED budget
     \/ /\ Spend("faults")
        /\ Go(j, "point")
        /\ UNCHANGED <<anomalies, passed>>
  /\ UNCHANGED <<state, spool, stored, late, outer>>
\* reviewStagedArchive, before the state points at the archive.  An archive whose measurements
\* cannot be recorded is not held.  Nothing looks for a cancellation from here to Point.
Review(j) ==
  /\ At(j, "review")
  /\ \/ /\ anomalies' = [anomalies EXCEPT ![j].pending = Observed(j)]
        /\ work' = [work EXCEPT ![j].pc = "point", ![j].hold = Hold(j)]
        /\ passed' = IF Forced \/ ~settings.hold \/ ~Unusual(anomalies[j].history, Observed(j))
                     THEN [passed EXCEPT ![j] = @ \cup {work[j].fp}]
                     ELSE passed
        /\ UNCHANGED budget
     \/ /\ Spend("faults")
        /\ Go(j, "point")
        /\ UNCHANGED <<anomalies, passed>>
  /\ UNCHANGED <<state, spool, stored, late, outer>>

\* The state points at the new archive, and the one it replaces goes.
Point(j) ==
  /\ At(j, "point")
  /\ Save(j, [state[j] EXCEPT !.staged = TRUE, !.approved = FALSE, !.fp = work[j].fp, !.time = 1 - @,
                              !.retry = FALSE, !.mir = work[j].hold, !.category = IF work[j].hold THEN "unusual" ELSE ""])
  /\ spool' = spool \ Archive(j)
  /\ IF work[j].hold THEN Done(j) ELSE Go(j, "queued")
  /\ UNCHANGED <<anomalies, station, budget, outer>>

prepareArchiveLocked(j) ==
  \/ UploadNow(j) \/ Wait(j) \/ Scan(j)
  \/ ClearPending(j) \/ SaveCleared(j)
  \/ Build(j) \/ BuildFails(j) \/ Review(j) \/ Point(j)

-----------------------------------------------------------------------------
(* Uploading it: uploadPendingArchive *)

\* One upload at a time.
UploadStart(j) ==
  /\ At(j, "queued")
  /\ ~op.cancelled
  /\ \A k \in Jobs : work[k].pc \notin {"uploading", "failed", "uploaded", "sent", "accept"}
  /\ IF Present(j)
     THEN /\ Save(j, [state[j] EXCEPT !.mir = FALSE, !.retry = FALSE])
          /\ work' = [work EXCEPT ![j].pc = "uploading",
                                  ![j].allow = (state[j].approved \/ settings.auto) /\ j \in approvals]
     ELSE /\ Save(j, IF state[j].staged THEN clearPendingArchive(state[j]) ELSE state[j])
          /\ Done(j)
  /\ UNCHANGED <<spool, anomalies, station, budget, outer>>

\* Station stores the archive, unless it is large and not allowed.
Allowed(j) == state[j].fp \in Large => work[j].allow
StoredAs(j, c) == stored' = [stored EXCEPT ![j] = @ \cup {c}] /\ late' = late \ {<<j, c>>}

Stored(j) ==
  /\ At(j, "uploading")
  /\ Allowed(j)
  /\ StoredAs(j, state[j].fp)
  /\ Go(j, "uploaded")
  /\ UNCHANGED <<state, spool, anomalies, passed, budget, outer>>

\* Scout gives up uploads that Station has not answered, and Station may be at them still.
Unanswered(js) == {<<j, state[j].fp>> : j \in {k \in js : At(k, "uploading") /\ Allowed(k)}}
GiveUp(js) == late' = late \cup {u \in Unanswered(js) : u[2] \notin stored[u[1]]}

StoredLate(j) ==
  /\ \E c \in Contents : <<j, c>> \in late /\ StoredAs(j, c)
  /\ UNCHANGED <<work, state, spool, anomalies, passed, budget, outer>>

\* The answer may come before the worker notices a cancellation.  The archive is removed, then
\* the state is saved.
Succeed(j) ==
  /\ At(j, "uploaded")
  /\ spool' = spool \ Archive(j)
  /\ Go(j, "sent")
  /\ UNCHANGED <<state, anomalies, station, budget, outer>>

SaveSent(j) ==
  /\ At(j, "sent")
  /\ SaveLast(j, [clearPendingArchive(state[j]) EXCEPT !.last = state[j].fp, !.mir = FALSE, !.category = ""])
  /\ Go(j, "accept")
  /\ UNCHANGED <<spool, anomalies, station, outer>>

\* No answer, or one that says to try again: with the same archive, or with a new one.
FailRetryable(j) ==
  /\ work[j].pc \in {"uploading", "uploaded"}
  /\ ~op.cancelled
  /\ spool' = IF settings.keep THEN spool ELSE spool \ Archive(j)
  /\ GiveUp({j})
  /\ Go(j, "failed")
  /\ UNCHANGED <<state, anomalies, stored, passed, budget, outer>>

SaveFailedAsSent(j) ==
  /\ At(j, "failed")
  /\ SaveLast(j, [clearPendingArchive(state[j]) EXCEPT !.last = state[j].fp, !.category = "other"])
  /\ Done(j)
  /\ UNCHANGED <<spool, anomalies, station, outer>>
SaveFailed(j) ==
  /\ At(j, "failed")
  /\ LET s == [state[j] EXCEPT !.category = "other", !.retry = TRUE, !.mir = FALSE]
     IN SaveLast(j, IF settings.keep THEN s ELSE discardPendingArchiveFile(s))
  /\ Done(j)
  /\ UNCHANGED <<spool, anomalies, station, outer>>

\* Station refuses: the operator has to approve a large archive, or to look into it.
Held(j, category) ==
  /\ At(j, "uploading")
  /\ ~op.cancelled
  /\ Save(j, [state[j] EXCEPT !.category = category, !.retry = FALSE, !.mir = TRUE])
  /\ Done(j)
  /\ UNCHANGED <<spool, anomalies, station, budget, outer>>

AskApproval(j) == state[j].fp \in Large /\ ~work[j].allow /\ Held(j, "approval")
Refuse(j)      == Held(j, "other")

\* Accept: the uploaded backup is now normal.
Accepted(a) == IF a.pending = None THEN a ELSE [history |-> a.history \cup {a.pending}, pending |-> None]

Accept(j) ==
  /\ At(j, "accept")
  /\ \/ anomalies' = [anomalies EXCEPT ![j] = Accepted(@)] /\ UNCHANGED budget
     \/ Spend("faults") /\ UNCHANGED anomalies
  /\ Done(j)
  /\ UNCHANGED <<state, spool, station, outer>>

uploadPendingArchive(j) ==
  \/ UploadStart(j) \/ Stored(j) \/ Succeed(j) \/ SaveSent(j) \/ Accept(j)
  \/ FailRetryable(j) \/ SaveFailed(j) \/ AskApproval(j) \/ Refuse(j)

CancelWorkBeforeUpload(j) ==
  /\ op.cancelled
  /\ work[j].pc \in {"prepare", "build", "review", "uploading", "uploaded"}
  /\ spool' = IF At(j, "review") THEN spool \ {NewName(j)} ELSE spool
  /\ Save(j, [state[j] EXCEPT !.retry = FALSE, !.mir = FALSE, !.category = ""])
  /\ GiveUp({j})
  /\ Done(j)
  /\ UNCHANGED <<anomalies, stored, passed, budget, outer>>
\* The worker notices that the operation is cancelled: markCancelled.
CancelWork(j) ==
  /\ op.cancelled
  /\ work[j].pc \in {"prepare", "build", "review", "queued", "uploading", "uploaded"}
  /\ spool' = IF At(j, "review") THEN spool \ {NewName(j)} ELSE spool
  /\ Save(j, [state[j] EXCEPT !.retry = FALSE, !.mir = FALSE, !.category = ""])
  /\ GiveUp({j})
  /\ Done(j)
  /\ UNCHANGED <<anomalies, stored, passed, budget, outer>>

-----------------------------------------------------------------------------
(* A cycle: RunCycle *)

RunCycle ==
  /\ op.kind = "none"
  /\ configured # {}
  /\ op' = [NoOp EXCEPT !.kind = "cycle"]
  /\ work' = [j \in Jobs |-> IF j \in configured THEN [NoWork EXCEPT !.pc = "prepare"] ELSE NoWork]
  /\ UNCHANGED <<state, spool, anomalies, approvals, settings, configured, files, station, budget>>

\* cleanupStaleArchives, at the end of the cycle.  When the database cannot tell what is
\* referenced, nothing is.
FinishCycle ==
  /\ op.kind = "cycle"
  /\ \A j \in Jobs : At(j, "idle")
  /\ \/ spool' = spool \cap ReferencedPendingArchives /\ UNCHANGED budget
     \/ spool' = {} /\ Spend("faults")
  /\ op' = NoOp
  /\ UNCHANGED <<work, state, anomalies, approvals, settings, configured, files, station>>

-----------------------------------------------------------------------------
(* The operator *)

\* ForceSendJob and StartForceSendAsync: whatever blocked the job is cleared.
ForceSend(j) ==
  /\ op.kind = "none"
  /\ j \in configured
  /\ Spend("actions")
  /\ op' = [NoOp EXCEPT !.kind = "force", !.job = j]
  /\ work' = [work EXCEPT ![j].pc = "force"]
  /\ Save(j, IF state[j].mir THEN [state[j] EXCEPT !.mir = FALSE, !.retry = FALSE] ELSE state[j])
  /\ passed' = IF Present(j) THEN [passed EXCEPT ![j] = @ \cup {state[j].fp}] ELSE passed
  /\ UNCHANGED <<spool, anomalies, approvals, settings, configured, files, stored, late>>

\* processJobLocked: a staged archive is sent as it is, and a large one is approved by that.
SendStaged(j) ==
  /\ At(j, "force")
  /\ Present(j)
  /\ IF state[j].category = "approval"
     THEN \/ /\ ~op.cancelled
             /\ approvals' = approvals \cup {j}
             /\ Save(j, [state[j] EXCEPT !.approved = TRUE, !.mir = FALSE, !.retry = FALSE])
             /\ Go(j, "queued")
             /\ UNCHANGED budget
          \/ /\ Save(j, [state[j] EXCEPT !.mir = TRUE])
             /\ Done(j)
             /\ IF op.cancelled THEN UNCHANGED budget ELSE Spend("faults")
             /\ UNCHANGED approvals
     ELSE /\ Save(j, [state[j] EXCEPT !.mir = FALSE, !.retry = FALSE])
          /\ Go(j, "queued")
          /\ UNCHANGED <<approvals, budget>>
  /\ UNCHANGED <<op, spool, anomalies, settings, configured, files, station>>

SendNew(j) ==
  /\ At(j, "force")
  /\ ~Present(j)
  /\ Go(j, "prepare")
  /\ UNCHANGED <<state, spool, anomalies, station, budget, outer>>

FinishJob ==
  /\ op.kind \in {"force", "clear"}
  /\ \A j \in Jobs : At(j, "idle")
  /\ op' = NoOp
  /\ UNCHANGED <<work, state, spool, anomalies, approvals, settings, configured, files, station, budget>>

\* A recovery and its preview hold cycleLock, and have a context of their own: they cannot be
\* cancelled with CancelOperation.
Recover(j) ==
  /\ op.kind = "none"
  /\ j \in configured
  /\ Spend("actions")
  /\ \E kind \in {"recover", "preview"} :
       /\ op' = [NoOp EXCEPT !.kind = kind, !.job = j]
       /\ Save(j, IF kind = "recover" THEN [state[j] EXCEPT !.category = ""] ELSE state[j])
  /\ UNCHANGED <<work, spool, anomalies, approvals, settings, configured, files, station>>

\* The snapshot is extracted, in part when the recovery fails.
FinishRecover ==
  /\ op.kind = "recover"
  /\ \/ /\ Spend("changes")
        /\ \E c \in stored[op.job] : files' = [files EXCEPT ![op.job] = c]
        /\ Save(op.job, [state[op.job] EXCEPT !.category = ""])
     \/ /\ Spend("changes")
        /\ \E c \in Contents : files' = [files EXCEPT ![op.job] = c]
        /\ Save(op.job, [state[op.job] EXCEPT !.category = "other"])
     \/ /\ UNCHANGED <<files, budget>>
        /\ Save(op.job, [state[op.job] EXCEPT !.category = "other"])
  /\ op' = NoOp
  /\ UNCHANGED <<work, spool, anomalies, approvals, settings, configured, station>>

FinishPreview ==
  /\ op.kind = "preview"
  /\ op' = NoOp
  /\ UNCHANGED <<work, state, spool, anomalies, approvals, settings, configured, files, station, budget>>

ClearStagedBackup(j) ==
  /\ op.kind = "none"
  /\ j \in configured
  /\ Spend("actions")
  /\ op' = [NoOp EXCEPT !.kind = "clear", !.job = j]
  /\ work' = [work EXCEPT ![j].pc = "clear"]
  /\ spool' = spool \ Archive(j)
  /\ UNCHANGED <<state, anomalies, approvals, settings, configured, files, station>>

RemoveLargeUploadApprovalAlways(j) ==
  /\ j \in approvals
  /\ Spend("actions")
  /\ approvals' = approvals \ {j}
  /\ Save(j, [state[j] EXCEPT !.approved = FALSE])
  /\ UNCHANGED <<op, work, spool, anomalies, settings, configured, files, station>>
RemoveLargeUploadApproval(j) ==
  /\ op.kind = "none"
  /\ j \in approvals
  /\ Spend("actions")
  /\ approvals' = approvals \ {j}
  /\ Save(j, [state[j] EXCEPT !.approved = FALSE])
  /\ UNCHANGED <<op, work, spool, anomalies, settings, configured, files, station>>

UpdateSettings ==
  /\ op.kind = "none"
  /\ Spend("actions")
  /\ settings' \in [hold : BOOLEAN, auto : BOOLEAN, keep : BOOLEAN]
  /\ UNCHANGED <<op, work, state, spool, anomalies, approvals, configured, files, station>>

\* DeleteJob forgets the job's state and history, and not its approval.
DeleteJob(j) ==
  /\ op.kind = "none"
  /\ j \in configured
  /\ Spend("actions")
  /\ configured' = configured \ {j}
  /\ Save(j, Zero)
  /\ anomalies' = [anomalies EXCEPT ![j] = [history |-> {}, pending |-> None]]
  /\ UNCHANGED <<op, work, spool, approvals, settings, files, station>>

SaveJob(j) ==
  /\ op.kind = "none"
  /\ Spend("actions")
  /\ configured' = configured \cup {j}
  /\ UNCHANGED <<op, work, state, spool, anomalies, approvals, settings, files, station>>

\* CancelOperation does not wait for cycleLock.
CancelOperation ==
  /\ op.kind \in {"cycle", "force"}
  /\ ~op.cancelled
  /\ Spend("cancels")
  /\ op' = [op EXCEPT !.cancelled = TRUE]
  /\ UNCHANGED <<work, state, spool, anomalies, approvals, settings, configured, files, station>>

-----------------------------------------------------------------------------
(* The world *)

Change(j) ==
  /\ Spend("changes")
  /\ \E c \in Contents \cup {None} : files' = [files EXCEPT ![j] = c]
  /\ UNCHANGED <<op, work, state, spool, anomalies, approvals, settings, configured, station>>

\* The time of a retry comes.
RetryDue(j) ==
  /\ state[j].retry
  /\ Save(j, [state[j] EXCEPT !.retry = FALSE])
  /\ UNCHANGED <<work, spool, anomalies, station, budget, outer>>

\* Scout stops at any point; the next process starts with the database and the spool.
Crash ==
  /\ op.kind # "none"
  /\ Spend("crashes")
  /\ op' = NoOp
  /\ work' = [j \in Jobs |-> NoWork]
  /\ GiveUp(Jobs)
  /\ UNCHANGED <<state, spool, anomalies, approvals, settings, configured, files, stored, passed>>

\* A file of the spool is gone: removed by hand, or lost with the disk.
Lose ==
  /\ op.kind = "none"
  /\ Spend("faults")
  /\ \E p \in spool : spool' = spool \ {p}
  /\ UNCHANGED <<op, work, state, anomalies, approvals, settings, configured, files, station>>

-----------------------------------------------------------------------------

processJob(j) ==
  SendStaged(j) \/ SendNew(j) \/ prepareArchiveLocked(j) \/ uploadPendingArchive(j) \/ CancelWork(j)

FinishOperation == FinishCycle \/ FinishJob \/ FinishRecover \/ FinishPreview

Next ==
  \/ RunCycle \/ FinishOperation
  \/ \E j \in Jobs :
       \/ processJob(j)
       \/ ForceSend(j) \/ Recover(j) \/ ClearStagedBackup(j) \/ RemoveLargeUploadApproval(j)
       \/ DeleteJob(j) \/ SaveJob(j)
       \/ Change(j) \/ RetryDue(j) \/ StoredLate(j)
  \/ UpdateSettings \/ CancelOperation
  \/ Crash \/ Lose

Spec == Init /\ [][Next]_vars

\* The scheduler starts cycles, an operation runs on, and the time of a retry comes.
FairSpec ==
  /\ Spec
  /\ WF_vars(RunCycle)
  /\ WF_vars(FinishOperation)
  /\ \A j \in Jobs : WF_vars(processJob(j)) /\ WF_vars(RetryDue(j))

\* A Station that stores and answers, whenever it is asked again and again.
FairStation == \A j \in Jobs : SF_vars(Stored(j) \/ AskApproval(j)) /\ SF_vars(Succeed(j))

-----------------------------------------------------------------------------
(* Properties *)

TypeOK ==
  /\ op \in [kind : Kinds, job : Jobs \cup {None}, cancelled : BOOLEAN]
  /\ work \in [Jobs -> Work]
  /\ state \in [Jobs -> JobState]
  /\ \A j \in Jobs : state[j].staged => state[j].fp # None
  /\ spool \subseteq Jobs \X Contents \X {0, 1}
  /\ anomalies \in [Jobs -> [history : SUBSET Contents, pending : Contents \cup {None}]]
  /\ approvals \subseteq Jobs
  /\ settings \in [hold : BOOLEAN, auto : BOOLEAN, keep : BOOLEAN]
  /\ configured \subseteq Jobs
  /\ files \in [Jobs -> Contents \cup {None}]
  /\ stored \in [Jobs -> SUBSET Contents]
  /\ late \subseteq Jobs \X Contents
  /\ passed \in [Jobs -> SUBSET Contents]
  /\ budget \in [changes : Nat, actions : Nat, cancels : Nat, crashes : Nat, faults : Nat]

NoFaults  == budget.faults = MaxFaults
NoCrashes == budget.crashes = MaxCrashes
NoCancels == budget.cancels = MaxCancels

\* A backup that looked unusual when it was archived is not uploaded before the operator sends it,
\* also when Scout stops between any two steps; see ApprovedOnly for cancelled operations.
HeldUntilSent == NoCancels /\ NoFaults => \A j \in Jobs : stored[j] \subseteq passed[j]

\* An archive that a job state points at may go: Station has just stored it, the folder is empty
\* or back to what was uploaded last, the operator clears it, or it failed and is not to be kept.
Dismissed(j) ==
  \/ At(j, "uploaded") /\ state[j].fp \in stored[j]
  \/ files[j] \in {None, state[j].last}
  \/ op'.kind = "clear" /\ op'.job = j
  \/ ~settings.keep /\ work[j].pc \in {"uploading", "uploaded"}

\* The backup that the operator is asked to approve, or that is due for a retry, is in the spool:
\* no cleanup, replaced archive, cancellation or crash takes it away.  A state points at a missing
\* archive only when Scout has removed it for one of the reasons above and not saved that yet.
StaysPresent(j) ==
  state[j].staged' =>
    \/ Present(j)'
    \/ Archive(j)' = Archive(j) /\ (Present(j) => Dismissed(j))
StagedIsPresent == [][NoFaults' => \A j \in Jobs : StaysPresent(j)]_vars

\* What Scout takes for uploaded is at Station.
LastIsStored == \A j \in Jobs : state[j].last # None => state[j].last \in stored[j]

\* A large archive is stored only while an approval of the job is remembered: no upload that Scout
\* goes on with outlives an approval that the operator removes.  The exception is an upload that
\* Scout has given up, cancelled or stopped over: Station may store it later, and then the approval
\* was there when Scout let go of it.
LargeNeedsApproval ==
  [][\A j \in Jobs : \A c \in Large :
       /\ c \in stored'[j] \ stored[j] => j \in approvals \/ <<j, c>> \in late
       /\ <<j, c>> \in late' \ late => j \in approvals]_vars

\* As long as nothing fails, the history that later backups are compared with has uploaded backups only.
HistoryIsStored ==
  NoFaults /\ NoCrashes => \A j \in Jobs : anomalies[j].history \subseteq stored[j]

\* Whatever holds cycleLock lets go of it, cancelled or not.
OperationsEnd == op.kind # "none" ~> op.kind = "none"

\* What a job folder holds is backed up in the end, unless it waits for the operator.
Settled(j) == j \notin configured \/ files[j] \in {None, state[j].last} \/ state[j].mir
BackedUp == FairStation => \A j \in Jobs : []<>Settled(j)

-----------------------------------------------------------------------------
(* What a comment says and the code does not do; see README.md. *)

\* anomaly/store.go:19: "A staged observation joins the history only once its archive uploads, so a
\* held anomaly never becomes the new "normal" unless the operator approves it."
ApprovedOnly == NoFaults => \A j \in Jobs : anomalies[j].history \subseteq passed[j]
=============================================================================
