# Verification of 3to1go

3to1go backs up directories of many machines to one place. **Scout** runs on a
machine that has data: it walks job directories, notices changes, writes an
archive, optionally encrypts it, and uploads it. **Station** receives archives,
keeps the newest few of every job, indexes them, and serves them back for a
restore. Both are Go programs with a PostgreSQL database; Scout talks to
Station over HTTP with a signed token.

This directory holds TLA+ models of that code, the TLC configurations that
check them, and proofs for the TLA+ proof system. `PROJECT.json` lists the
runs, which source lines each definition stands for, the hazards of the code,
and the theorems.

Paths below are relative to `src/app/`.

Contents: [1 Inventory](#1-inventory) · [2 Modules and
status](#2-modules-and-status) · [3 Station: uploads](#3-station-uploads) ·
[4 Station: tokens](#4-station-tokens) · [5 Scout: upload
client](#5-scout-upload-client) · [6 Scout: job runner](#6-scout-job-runner) ·
[7 Scout: scheduler and settings](#7-scout-scheduler-and-settings) · [8 Scout:
job discovery](#8-scout-job-discovery) · [9 Restore
requests](#9-restore-requests) · [10 Integrations](#10-integrations) ·
[11 Findings](#11-findings) · [12 Known divergences](#12-known-divergences) ·
[13 Proofs](#13-proofs)

## 1. Inventory

### Station (`station/internal/`)

| Part | State | Operations | What is hard | What makes it correct |
|---|---|---|---|---|
| Upload ingest `ingest/ingest.go` | staging directories, `reservationMu`, the locks of uploads and namespaces | `StartUpload`, `AppendChunk`, `FinalizeUpload`, `CleanupStaleUploads`, reconcile | handlers run concurrently; `StartUpload`, cleanup and discard take no upload lock; crashes between file and row | only verified archives are stored; a finalize's answer names a file that exists |
| Session store `ingest/session_store.go` | table `upload_sessions`, advisory locks | save (upsert), load, delete expired, sum of reservations, lock | two replicas of a row, one in a handler and one in the table; a lock keeps a pool connection | a key has one session; expired rows hold no reservation |
| Local storage `storage/local.go` | backup root | store (rename, or copy and rename), list, delete | a crash in the middle of a copy; a directory that also shows `.tmp` files | a name in the directory is a complete snapshot |
| Retention `services/retention/retention.go` | none | prune a namespace to `KeepLast` | boundary; a failed deletion | only superseded snapshots go |
| Snapshot index `store/snapshots.go` | table `snapshot_index`, `scout_registration`, size history | upsert, reconcile, find duplicate, registration | follows the files with a delay | no row for a file that is gone |
| Snapshot administration `api/snapshots.go` | none of its own | delete, list, download | deletes without the namespace lock | the index follows |
| Credentials `store/credentials.go`, `store/credential_binding.go`, `api/credentials.go` | tokens, the token of each registration | mint, verify, bind, revoke, expire | several transactions, each with its own snapshot of the database | registrations never exceed a token's limit; a live binding is never displaced |
| Upload ownership `ingest/upload_auth.go` | none | may this token touch this upload | token replacement while an upload runs | an upload is only touched by its instance |
| Instance administration `api/overview.go` | none | delete an instance | registration goes, token stays | a deleted instance stays deleted |
| Restore requests `store/restore.go`, `api/restore.go` | request rows | create, list, decide, complete, expire, download | two parties decide; calls arrive late | what is called completed was restored |
| Snapshot verification `services/verify/verify.go` | verdict of each snapshot | reread and rehash | runs against retention | a verdict belongs to the bytes it was computed from |
| Users, sign-in, scripts' tokens `store/users.go`, `store/auth.go`, `store/automation.go` | users, sessions, tokens | create, change, delete, sign in | read-then-write without a transaction | one administrator always remains |
| Settings, process, reports, metrics | settings row | load, apply | handlers read settings while they change | – |

### Scout (`scout/internal/`)

| Part | State | Operations | What is hard | What makes it correct |
|---|---|---|---|---|
| Job runner `services/runner/` | cycle lock, job locks, spool of archives, cancel functions | run a cycle, force one job, approve, cancel, clear, save and delete jobs | cycle, forced send, cancel and recovery of one job; crash between spool and state | a held backup is not uploaded without approval; the spool has no orphans, and no archive goes that its state still wants |
| Job state `services/state/` | a table of job states, a table of approvals | get, set, clear | whole records are read, changed and written back | no lost update |
| Upload client `services/upload/` | circuit breaker, offset and chunk size | initiate, chunks, finalize with retries | lost and late replies, a restart of Scout, a session that was reset | ends; success means stored; never ahead of Station |
| Unusual-backup detection `anomaly/` | history, pending observation | observe, evaluate, stage, accept | the observation joins the history only when the upload succeeds | a held anomaly never becomes normal unseen |
| Scheduler `services/scheduler/` | run-now flag, wake channel, planned time | start, run now, reload, stop | a request while the loop is between two looks | a request is followed by a cycle; the plan is of the current schedule |
| Settings `api/system.go`, `store/settings.go` | the runner's, the scheduler's and the stored settings | save, pause, hooks | three places, visited one after the other | they agree unless a save failed, and a pause means no cycle |
| Job discovery `services/directories/` | cache of discovered jobs | list, walk in background, save, delete | a walk that is older than a change | the cache loses no saved job and ends up current |
| Recovery `services/recovery/`, `services/runner/restore.go` | destination folder, restore requests | recover, preview, decide | replaces files beside a staged backup; stops half-way; leaves other files | a reported restore is whole |
| Archiver, filters, encryption, HTTP API | – | – | sequential | – |

### Shared (`shared/go/`)

`keylock` (a table of named mutexes), `integrations` (destinations in an
encrypted file, a bounded event queue and a worker), `hooks` (an operator's
command), `auth`, `certificates`, `httpx`, `metrics`.

### How the parts interact

Scout's upload client calls Station's upload handlers over HTTP: *initiate* (a
session, or "duplicate", or "needs approval"), any number of *chunks*,
*finalize*. Every handler first verifies the token and binds it to the
instance. Handlers share the session table, the staging directories, the
backup root and the index; the cleanup loop and the administrator's handlers
work on the same data from other goroutines. On Scout, the scheduler and the
HTTP API call the runner, which guards everything that builds, uploads or
replaces something with one `cycleLock`, owns the spool and writes the job
state. Restore requests go the other way: an administrator of Station inserts a
row, Scout polls, a user of Scout decides, Scout downloads and extracts.

Every part is listed in `PROJECT.json` under `components`, those without a
model with the reason.

## 2. Modules and status

| Module | Models | Composed of | Proofs |
|---|---|---|---|
| `UploadIngest` | Station's upload path for one namespace | ingest, session store, storage, retention, index, administrator | `UploadIngestProofs` |
| `SnapshotStore` | what the upload path promises (abstract) | – | refined by `UploadIngest` |
| `CredentialBinding` | tokens and registrations | credential store, `registerScout`, instance deletion | `CredentialBindingProofs` |
| `TokenRegistry` | what the token tables promise (abstract): binding is one step | – | refined by `CredentialBinding` |
| `UploadClient` | one staged backup and its uploads | client, breaker, network, Station as the client sees it | `UploadClientProofs` |
| `JobRunner` | cycles, staged archives, the operator, crashes | runner, job state, anomaly history, approvals, recovery | `JobRunnerProofs` |
| `Scheduler`, `ScoutControl` | the scheduler; the scheduler with the cycle lock, the settings and their handlers | `ScoutControl` EXTENDS `Scheduler` | `ScoutControlProofs` |
| `Discovery` | the list of jobs and its background walk | walk, `SaveJob`, `DeleteJob`, list request | `DiscoveryProofs` |
| `RestoreRequests` | a restore from the request to the last file | Station's rows, Scout's runner, recovery, extraction | `RestoreRequestsProofs` |
| `Integrations` | destinations, vault, key file, queue, worker | manager, dispatch, vault | `IntegrationsProofs` |

`MC...` modules give constants their values for TLC where a `.cfg` cannot.

The order of work was: what loses or falsifies a backup first (upload path and
client), then who may upload, then what decides which archive is sent, then
what starts a cycle, then restores and notifications. All planned modules but
one exist: the session locks against the connection pool (`SessionLockPool`) are
left.

A definition that directly follows a variant of it (`Surplus` after
`SurplusOffByOne`) has that variant as a plausible mistake in the code; the
property that `PROJECT.json` names under `mutants` is violated with it.

### Runs

Ten runs pass, two show findings. Each takes less than four minutes with two
workers.

| Run | Module | Properties |
|---|---|---|
| IngestFaults | UploadIngest | StoredIsDeclared, StagedInOrder, ImplementsStore |
| IngestRetention | UploadIngest | RetentionHolds, IndexedIsStored, NobodyStuck, OnlySupersededGo, FinalizedIsStored |
| Binding | CredentialBinding | LimitKept, LiveKept, RevokedStaysUnbound, ImplementsRegistry, RequestsAnswered |
| ClientDelivery | UploadClient | SuccessIsStored, NeverAhead, CallsReturn, DeliveredIfKept |
| RunnerStaging | JobRunner | HeldUntilSent, StagedIsPresent, LastIsStored, HistoryIsStored |
| RunnerLive | JobRunner | LargeNeedsApproval, OperationsEnd, BackedUp |
| ScoutControl | ScoutControl | PlanIsCurrent, PausedMeansNoCycle, SettingsAgree, GapKept, RunNowIsServed, StopEnds |
| Discovery | Discovery | SavedStaysListed, ListedIsBackedUp, AnswerIsComplete, WalksEnd |
| Restore | RestoreRequests | CompletedIsRestored, RejectedStaysRejected, RestoredIsExact, OperationEnds |
| Integrations | Integrations | InOrder, VaultOpens |
| ClientRestart | UploadClient | RetryRestarts (violated, section 11) |
| RunnerCancel | JobRunner | ApprovedOnly (violated, section 11) |

The type invariants of all modules are proved (section 13), so no run repeats
them. Bounds are given with each module.

Most runs say `CHECK_DEADLOCK FALSE`: their actions that start something (a
request, an action of the operator, an event) are bounded, and when all bounds
are used up and everything is answered nothing is left to do. That nobody is
left waiting is a property of its own there (RequestsAnswered, CallsReturn,
OperationsEnd, StopEnds, WalksEnd, OperationEnds). UploadIngest checks for deadlock,
and NobodyStuck says more.

## 3. Station: uploads

### State and actions

One namespace (a job of an instance) is enough: nothing but the disk space is
shared between namespaces, and the locks are per namespace and per upload.

| Variable | Code |
|---|---|
| `sessions` | rows of `upload_sessions` |
| `used` | the random upload ids handed out |
| `staged` | `archive.part` of each upload's staging directory |
| `files` | the namespace directory in the backup root, with modification times |
| `index` | rows of `snapshot_index` for the namespace |
| `worker` | each request handler: its program point, its copy of the row, a directory listing it has read |
| `cleaner`, `admin` | `CleanupLoop`, `handleDeleteSnapshotForInstance` |
| `clock`, `budget` | modification times, and what is left of the bounds |

Each handler is cut exactly where it reads or writes what another goroutine
may change in between. `StartUpload` is StartFresh/StartResume/StartMissing (the
row is loaded), then StartSave, or StartDuplicate/StartNoDuplicate and
StartReserve. `AppendChunk` is AppendBegin, AppendWrite and AppendSave.
`FinalizeUpload` is FinalizeBegin (or FinalizeMissing), then
FinalizeRefuse/FinalizeReset/FinalizeVerify, FinalizeDuplicate or
FinalizeNoDuplicate, then `commitNewArchive`: FinalizeStore, or FinalizeCopy,
FinalizeCopied and FinalizeRename on another file system, FinalizePrune (the
listing of retention) and FinalizeDelete (its deletions, one by one, from that
listing), FinalizeFiles, FinalizeUpsert, FinalizeReconcile and FinalizeSave.
`reconcileNamespace` and `discardSession` are ReconcileList, ReconcileApply,
DiscardRow and DiscardStaged. A lock is not a variable: the code
releases each by `defer`, so its holder is whoever is at a program point inside
it (`HoldsUpload`, `HoldsNamespace`).

An archive is a number of blocks; block *i* is the number *i*, a damaged one is
0. "The SHA-256 matches" is "the data is 1, 2, ..., Blocks". A reply that changes
nothing (404, a wrong offset, 413, 507) is a stuttering step. Every database or
storage call whose error the code handles, drops or logs has a failing
alternative, paid from `budget.failures`; a step with `NoFailure` is taken at
no cost. `budget.settled` is history: how many restarts and errors there had
been when retention last went through (CatchUp).

`SnapshotStore` is the contract behind that: data arrives at the end of what is
there, is verified when it is what the Scout declared, and from then until the
snapshot is stored nothing is added to it. `Store` in UploadIngest is the
refinement mapping: the uploads that some handler has verified are a function
of the program points, and the snapshots are the complete files. The mapping
hides rows, locks, copies, listings and errors.

Left out: sessions in `metadata.json` files and their migration,
hooks and notifications, the archive-size history and its check
(which blocks a finalize, and changes nothing else), ties of modification
times, a change of KeepLast while a finalize runs, losing the database
connection that holds an advisory lock, and deleting the files of a whole
instance. Bytes that are in the page cache and not on disk are not modelled: a
restart is a restart of the process, not of the machine.

### Runs

| Run | Bounds and why they are enough |
|---|---|
| IngestFaults | one archive of two blocks, two upload ids, two requests, a copying backup root; one damaged chunk, one expiry, and two of a restart, a failing call and an administrator's deletion. Two requests meet in every pair of program points of one upload, and the upload may start over once |
| IngestRetention | three archives of one block, two of them identical, KeepLast 1, two requests; one restart, one failing call, or one deletion of the archive that has no twin. Two finalizes compete for one place, and a third archive makes the answer "duplicate" name what the other prunes. Identical archives, requests and ids are interchangeable (TwinSymmetry). A deletion may fall between the listing of retention and what it deletes, and after an error a second and a third finalize show whether retention makes up for it |

Scope of the properties:

* StagedInOrder says that no block of `archive.part` is behind its place. Ahead
  of its place one can be: cleanup and discard remove the directory without the
  upload lock, and an AppendChunk that has read the size creates the file
  again and writes its chunk at the start. An earlier form of the property, that
  every block is in its place unless a session has expired, was false: a single
  failing directory listing is enough, since `sessionReferencesMissingSnapshot`
  then answers true and the session is discarded under the append. No
  run had bounds large enough to show it; the attempt to prove it did. The checksum of
  finalize catches such data, which is what StoredIsDeclared says.
* IndexedIsStored and FinalizedIsStored hold until something fails, Station
  restarts or an administrator deletes a snapshot (`Undisturbed`): a row of a
  deleted snapshot is gone only when the reconcile succeeds.
* RetentionHolds allows one extra file for each restart or error since retention
  last went through, not for ever: a retention that deletes too little after an
  error, one file per finalize for example, violates it.
* OnlySupersededGo is about what retention saw: an administrator, who takes no
  namespace lock, may delete one of the files it counts on between its listing
  and its deletions (section 12). Nothing else may (`Withdrawn`). It
  counts a `.tmp` among the newer files (section 12). On one
  file system, where the run checks it, there is none (SupersededBySnapshots).
* FinalizedIsStored: the KeepLast other files that excuse a missing snapshot need
  not be newer than it, for the time of a snapshot is that of its last chunk.
* NobodyStuck: whenever requests have begun, one of them can go on, although a
  finalize waits for the namespace lock while it keeps the upload lock.

No fairness is assumed here: all properties are about safety.

## 4. Station: tokens

### State and actions

| Variable | Code |
|---|---|
| `credentials` | table `scout_credentials`: whether a token is not yet minted, live, expired, or deleted |
| `registration` | column `credential_hash` of `scout_registration`; NoRow is "no row", NoToken is NULL |
| `worker` | each upload request: the statement it is about to execute, its token and instance, and whether it has locked the registration row |
| `revoke` | the revocation under way: whether it waits for the token's row or for registration rows, which of its snapshot it has still to look at and which it has taken |
| `deleted` | history variable: the instances an administrator has ever deleted |

A request is Verify; then the transaction of `Bind`, one action per statement
(BindToken: `SELECT ... FOR UPDATE` of the token; BindAgain or BindInstance:
the advisory lock of the instance, its row, and the test of the old token;
BindCount; BindWrite: the insert and the commit); then `registerScout`, one
action for each of its two statements (RegisterRead, RegisterWrite). Under
READ COMMITTED each statement sees what was committed when it starts, so one
statement is one step. As in UploadIngest, the holder of a lock is whoever is
inside it: the token's row from BindToken to the commit, the advisory lock from
BindInstance to the commit, the registration row from BindInstance if there was
one, the mutex of `registerScout` between its statements. Abort is a failed
statement, a client that goes away or a stop of Station: the transaction is
rolled back, and nothing of it was visible.

`Revoke` is one statement that takes its rows one by one: RevokeBegin is its
snapshot, RevokeToken has the token's row when that is free, RevokeRow(i) one
registration row of the snapshot after the other, in any order, and RevokeEnd is
the commit; RevokeFails rolls it back. PostgreSQL reads a row again that
changed while the statement waited for it, hence `registration[i] =
revoke.token` in RevokeRow, but does not find a row that was inserted or bound
later. Until its end it keeps the rows it has, and requests wait for them.
CleanupExpired takes the rows of its tokens in one step: it takes no
registration rows, so it cannot close a circle. DeleteInstance is the part of `handleDeleteInstance` that
touches this state. `max(limit, 1)` and "an ordinary token has limit 1" are in
`Limit`; limits may be any integers.

`TokenRegistry` is the contract behind that: the tables of tokens and of
registrations without requests, statements and locks. Binding an instance is
one step there, with a token that is still in the table and has room, and an
instance that no living token holds. `Registry` in CredentialBinding is the
refinement mapping: both tables as they are, each token's `Limit`, and which
instances were ever deleted. Of a request it sees BindWrite and, after a
deletion, RegisterWrite. Return is what the contract cannot exclude then: the
row of a deleted instance comes back without any of the checks (section 12),
and `Bind` may displace what came back. A token that the cleanup took while its
revocation waited keeps its bindings, as the code leaves them.

Left out: signatures and the contents of a token, who may mint, lifetimes
(Expire may happen at any time), the columns of a registration other than the
token, the ownership of an upload session by a token, and minting the same token
hash twice.

### Run

**Binding**: a token that two instances may share and an ordinary one whose row
says 2, two instances of one Scout of which an administrator may delete one
(Deletable) again and again, two requests; expiry and cleanup at any time, and
revocations of the token that has several rows to take (Revocable). Two first uploads compete for the place of the ordinary token, and each
request can hold what the other waits for. The instances are alike, so it does
not matter which is deleted. Larger sets are covered by the proofs.

LimitKept, LiveKept and RevokedStaysUnbound are about the instances that were
never deleted; section 12 has the reason. The damage of a deletion thus stays with
the deleted instance: no other loses its binding by it or is bound beyond a
limit, though a row that came back takes up room. RequestsAnswered is under
strong fairness of each request and of the revocation under way: their goroutines
run on, PostgreSQL queues the waiters of row and advisory locks, and Go's mutexes
serve a waiter after a millisecond. Nobody has to begin a request or a revocation.

## 5. Scout: upload client

### State and actions

`UploadClient` is one staged backup: `call` is the call of `UploadArchive`
under way (phase, upload id, offset, chunk size, attempts), `saved` what the
job state keeps between calls, `breaker` the circuit breaker of the client,
`station` and `stored` the session and the archive at Station, `delayed` the
requests that were sent, have timed out on Scout and have not arrived yet.

Every request is answered (InitiateAnswered, ChunkAccepted, ChunkMismatch,
ReconcileAnswered, FinalizeAccepted, FinalizeConflict, SessionGone), lost
without effect (Lost, also 408, 425, 429 and 5xx), delayed (Delay, then Arrive
at any later time, also in part), or not sent because the breaker is open
(Refused). RetryPhase is `retryPhaseContext`, RetryChunk the chunk loop, which
asks Station where it is before it tries again; ResumeFrom is the
`max(uploadOffset, next_offset)` of the client. ReturnRetry distinguishes
`KeepLocalPending`: without it the archive is discarded. GiveUp is the same after a
mismatch at the last attempt, which has emptied Station's staged data. Around it, Begin is
the next cycle, ForceSend the operator, Interrupt a cancellation or a restart
of Scout (which has a new breaker), Expire Station's cleanup, OtherRequest the
other users of the breaker, and Cooldown the end of its pause. Station's
handlers are one step each, as a client can tell them; their interleavings are
in UploadIngest. Durations are left out: a backoff is a state from which the
client may go on.

### Runs

**ClientDelivery**: three blocks and chunks of one or two, so chunk growth, a
shorter last chunk and a partial chunk happen; two attempts per operation, a
breaker that opens after three failures (as a call has at most two in a row,
the count must survive a call); one delayed request, one damaged chunk, one
expiry, one interruption and one failure of another request. *Losing* requests
is unbounded.

NeverAhead and DeliveredIfKept are about a Station that keeps what it received
(`DataKept`: nothing damaged, nothing expired); section 11 shows that they fail
otherwise.

Fairness: WF of UploadArchive (the goroutine runs on, and each request has a
timeout), of Begin (the scheduler starts cycles) and of Cooldown (time goes
on). CallsReturn needs no more: it holds over a dead network. DeliveredIfKept
has in its statement the assumption FairNetwork: a request that is sent again and again is
answered again and again.

## 6. Scout: job runner

### State and actions

| Variable | Code |
|---|---|
| `op` | who holds `cycleLock` (a cycle, a forced send, a recovery, a preview) and whether it is cancelled |
| `work` | per job, the program point of its worker and what it has measured and looked up |
| `state` | the rows of job states: last fingerprint, staged archive, its approval, manual intervention, category, retry |
| `spool` | the archives in the spool directory |
| `anomalies` | the accepted history and the pending observation |
| `approvals`, `settings`, `configured`, `files` | remembered approvals, runner settings, job folders and what they hold |
| `stored`, `late` | what Station has stored, and the uploads that Scout has given up and that Station may store yet |
| `passed` | history variable: what looked normal or was sent by the operator |

RunCycle starts a worker per job. `prepareArchiveLocked` is UploadNow, Wait,
Scan, Build, BuildFails, Review and Point: the archive is in the spool (Build) before
its measurements are staged (Review) and before the job state points at it
(Point). Where the code removes an archive before it saves the state that
pointed at it, these are two steps: Scan, ClearPending and SaveCleared when
there is nothing to back up (and ClearStagedBackup, ClearPending, SaveCleared
for the operator), Succeed and SaveSent after an upload, FailRetryable and
SaveFailed after a failed one. A crash may come between any two.
`uploadPendingArchive` is UploadStart (one at a time, with the approval it looks
up), Stored, Succeed, SaveSent, Accept, FailRetryable, SaveFailed, AskApproval
and Refuse. CancelWork is `markCancelled`. An upload that Scout gives up on, by
a failure, a cancellation or a crash, goes to `late`, and Station may store it at
any later time (StoredLate).
FinishCycle removes what no job state refers to from the spool. The operator
has ForceSend (with SendStaged and SendNew), Recover, ClearStagedBackup,
RemoveLargeUploadApproval, UpdateSettings, DeleteJob, SaveJob and
CancelOperation, which alone does not wait for the lock. Change is a user of a
job folder, Crash a stop of Scout, Lose a spool file that is gone.

Contents are model values: which are unusual (`Odd`) and which are large
(`Large`) are constants, because `Evaluate` is floating point statistics over
histograms. A content that is in the accepted history is no longer unusual.

### Runs

**RunnerStaging**: two jobs prepared side by side, three contents (plain,
unusual, large), two changes of the folders, one action, one cancellation and
one crash. Two jobs are enough for one job's cleanup or upload to meet another
job's archive; the jobs are interchangeable. **RunnerLive**: one job, two
actions (so an approval can be given and taken away), and one failure of the
database or disk, with fairness and so without symmetry.

StagedIsPresent is about steps: none takes an archive away that its job state
goes on to name, unless the archive is to go anyway (`Dismissed`). That is how
far the code goes: a crash between the removal and the save leaves a state that
points at nothing, and the next cycle finds that (`Missing`) and starts afresh.

LargeNeedsApproval is about uploads that Scout goes on with. After it has given
up, the operator can take the approval away while Station is still at it;
then the approval was there when Scout let go.

LastIsStored and HistoryIsStored speak of what Station has ever stored; its
retention is in UploadIngest.

HeldUntilSent excludes cancelled operations, because of the finding of section
11, and failing writes: an archive whose measurements cannot be recorded is not
held. StagedIsPresent, HistoryIsStored likewise exclude failures of Scout's own
disk, which lose files or forget writes.

Fairness: WF of RunCycle (the scheduler), of the end of each operation, of each
job's worker, and of the passage of time until a retry is due. BackedUp has in
its statement FairStation, a Station that stores and answers when it is asked
again and again; OperationsEnd does not need it.

## 7. Scout: scheduler and settings

`Scheduler` is `SchedulerController`: `loop` is the place of its goroutine,
`plan` what `computeNextRunAt` returned, `wakeCh` the channel of one token,
`runNowRequested`, `sched`, `nextRunAt`, `state` and `lastCompletedAt` the
fields under `s.mu`. RequestRunNow and ReloadSettings change a field first and
put their token in a step of their own (RunNowWakes, ReloadWakes), because the code sends after it
has released the mutex. `ScoutControl` adds the runner's `cycleLock` and
`settings`, the `stored` row, and the three handlers of `api/system.go`:
`handleSaveSettings` (runner, scheduler, row), pause (runner, row) and hooks (row,
runner), each of its places a step, refused when the cycle lock is taken. A save of the
row may fail (StoreFails): hooks answer with an error, the other two only log it
and answer 200, and `lost` records that the row is behind.
Restart is a new process with the stored settings.

**ScoutControl** (run): one schedule that fires every tick and one that fires only after the
clock has stopped, startup delay and minimum gap of two ticks, a clock of two
ticks, one run-now request, and two events (a settings request, another
operation, a restart). With the rare schedule the loop would sleep for ever
without its token, which is what a lost wake-up means.

Fairness: WF of the loop (with the cycle it runs), of the goroutines that have
still to put a token, to return from Stop, to finish an operation or a settings
request. None for the clock: RunNowIsServed and StopEnds hold when no timer
ever fires. RunNowIsServed says that the request makes the loop begin a cycle; the
runner may skip that cycle when it is paused or busy, as the code does.

SettingsAgree has two exceptions, `lost` after a failed save and `unsaved` after
hooks that the runner refused; section 12 has what they lead to.

One settings request is under way at a time. Two at once can lose a pause
(`api/system.go:98`): each reads all settings, changes one and writes all.

## 8. Scout: job discovery

`Discovery` is `DirectoryService`: `markers` is the disk, `invalid` the markers on
it that cannot be read, `maxDepth` the setting, `jobDirs` the cached
list, `walking`, `discovering` and `changed` the fields under `jobsMu`, `todo`
and `found` the walk, which reads one folder per step without the lock and passes
over one that it cannot read (ReadDirFails). SaveJob
and DeleteJob are a step on the disk and a step that announces it
(`jobChanged`); between the two a walk may pass. SaveJob does not look at the
depth. FinishWalk merges the changes
that were announced during the walk and starts over if there were any. A
request for the list waits and reads. ChangeByHand is a marker, whole or broken,
that nobody announces; Restart and UpdateSettings are a new service, the latter
perhaps with another depth. `DiscoverJobs` is the other walk, that of a backup
cycle (`backup/discovery.go`): it leaves out broken markers and Scout's own
folders (`Runtime`), which the list shows.

**Discovery** (run): a root with two folders, one of them Scout's own, and a folder
below the other that is deeper than one of the two depths, so hiding, revealing,
both sides of the depth limit and a change of it all happen; two edits, and one
change by hand, unreadable folder, restart or change of settings. An
edit may thus meet a walk before, at and after its folder, and a second edit the repeated
walk.

SavedStaysListed and AnswerIsComplete are about saved jobs that are in view:
within the depth, not hidden by a marker above, in folders that can be read. A job
saved deeper is in the list only until the next walk (section 12). ListedIsBackedUp
says that nothing else is between the list and the next cycle: all that the cycle
backs up is listed, and the rest of the list is broken markers, which it reports
(`TestListJobs_ReportsInvalidConfig`), or lies in Scout's own folders.

The folders are a tree (TreeAssumption), and NoList and NoEdit are no list and no
edit (ValuesAssumption). The children of a folder are read in some fixed order.

Fairness: WF of the walk and of the announcement. `known` and `drifted` are history
variables: what the user saved and can still expect, and whether since the walk
began somebody changed a marker by hand or a folder could not be read.

## 9. Restore requests

`RestoreRequests` has Station's `row` for each request and its archives, Scout's
`operation` (the one `DecideRestoreRequest` that holds the cycle lock) with its
place, the files `left` to extract, and for each file of the destination
`folder` where its content is from. Snapshots hold different files (`FilesOf`).
The steps are those of
`runner/restore.go` and `recovery.go`: list, decide, download, extract file
by file, complete. `MayBecome` is the condition of Station's UPDATE. A call may
fail, be answered unheard (DecideUnheard), or time out and arrive later
(DecideLate, Arrive); a file operation may fail; Scout may restart; snapshots
may be deleted and requests expire at any moment; the owner of the folder edits
files at any time, during a restore too. ListUnconfigured is a Scout that has no
URL, credential or key at that moment: its list is empty without a call, and it
answers as if the request were gone.

**Restore** (run): two requests for two snapshots, one of two files and one of one
of them, so a restore may overwrite part of what another left half-done and leave
the rest; one delayed call, one failure and one restart; edits without bound.
Fairness: WF of Proceed, the goroutine that holds the lock.

RestoredIsExact is what the code does: extraction replaces the files of the
archive and leaves all others alone (`docs/scout/restore.mdx:30`). After a restore
that stopped half-way, another snapshot's restore may succeed and leave files of
the first: they are as it found them. `began` and `edited` are history
variables for that. RejectedStaysRejected is about rejections of a Scout that asked
Station; section 12 has the other.

## 10. Integrations

`Integrations` is the manager of outgoing notifications: destinations in memory
and in the vault, the key in memory and in its file, a Save or Delete in its
steps (key, file, assignment) under the write lock, the bounded queue, the
worker that takes one event at a time and posts it to several destinations side
by side, Close, the end of the process at any point, and New. RefuseKey and the
failing alternatives are a disk that returns errors; RemoveKeyFile is somebody
who removes the key file.

A POST ends with an answer, or without one (a failure, a timeout, the end of the
process); then the destination may have handled it, may handle it at any later time
(`late`, HandleLate), or never, and the worker goes on.

**Integrations** (run): three ids but room for two destinations, a queue of two
and three events (so one may be dropped), three calls, one stop and start, one
failing call, one removed key file, two keys; POSTs without an answer are
unbounded. InOrder thus says what the sender's order is worth: the POST of an event
begins after the one before has ended, so a destination handles an event after a newer
one only if the POST of the older one had ended without an answer, and none twice.
No fairness: a stopped or full manager drops events by design.

## 11. Findings

Each is a run with `"expect": "violation"`, and `PROJECT.json` quotes the
sentence it contradicts.

1. **ClientRestart: a damaged chunk may block a backup for good.** After a
   checksum mismatch Station empties the staged data ("The retry restarts at
   offset 0", `ingest.go:435`). The client's offset never goes back
   (`upload.go:216`), so it finalizes an empty upload, is answered 409, and
   with KeepLocalPending does so in every later cycle, over a network that
   always answers. An expired session does not help by itself: the new one
   starts at 0, and the saved offset is still ahead of it.
2. **RunnerCancel: a cancellation releases a held backup.** `markCancelled`
   clears the flag that holds an unusual backup although the archive stays
   staged (`cancellation.go:44`); the next cycle uploads it and its measurements
   join the history, which `anomaly/store.go:19-22` says needs the operator.

## 12. Known divergences

What the models show beside these, kept out of the runs because the code makes
no promise about it or the damage is small. Properties that are scoped because
of one of these say so.

* **Overbooking.** `StartUpload` finds the session of its key, keeps a copy,
  and saves the copy later without a lock (`ingest.go:227`). If a finalize
  completes the session in between, the save turns it back to active, and its
  reservation returns after another upload was admitted against the freed space.
* **Stale duplicate.** The duplicate check of `StartUpload` trusts the index
  (`ingest.go:238`). Between retention and reconcile of another finalize it
  names a file that has just been deleted.
* **Reconcile only deletes** (`store/snapshots.go:181`). A row whose insert failed,
  or that the administrator's unlocked reconcile removed, never comes back.
* **A `.tmp` counts.** One left by a stop in the middle of a copy counts as a
  snapshot for retention (`storage/local.go:143`), and "latest" may serve it
  (`api/snapshots.go:191`).
* **Registration comes back.** `registerScout` runs after the transaction of
  `Bind`. If an administrator deletes the instance in between, the refresh
  inserts the registration again with its token, without counting
  (`store/snapshots.go:325`). Proved is that this happens to no instance but the
  deleted one.

* **Retention against an administrator.** `PruneOldSnapshots` lists
  (`retention.go:18`), chooses, and deletes later (33-37). A snapshot that it meant
  to keep may be deleted meanwhile (`api/snapshots.go:129`, without the namespace
  lock), and the older ones still go: fewer than KeepLast may be left.
* **A failed save of settings** is logged and answered 200 (`api/system.go:77`,
  109). Runner and row differ from then on, and a restart brings the old schedule
  or takes the pause away, unless a later request is stored. Hooks are stored
  before the runner has accepted them, so a refused change of hooks returns with
  a restart.
* **Rejected without a connection.** A Scout that has lost its URL, credential or
  key lists no requests (`runner/restore.go:22`), so a rejection is answered
  "rejected" while Station's row stays open, and the request is back once Scout is
  connected again. `docs/scout/restore.mdx:112` says "Reject dismisses it."
* **Jobs below the depth.** SaveJob does not look at MaxDepth
  (`directories.go:411`): such a job is in the list until the next walk drops it, and
  no cycle backs it up.
* **A list that shows more.** Broken markers and markers in Scout's own folders are
  in the list of jobs and in no cycle (`backup/discovery.go:53`, 75).
* **Removed, not yet forgotten.** The runner removes an archive before it saves
  that (`runner.go:921`, 939; `job_actions.go:71`, 87). A crash in between leaves a
  state that points at nothing until the next cycle; after a successful upload that
  cycle also uploads the folder again.

## 13. Proofs

Eight modules hold proofs, for every value of the constants: any number of
requests, jobs, archives, destinations and files, and any bounds. The
assumptions are the named ASSUMEs of each module; TLC evaluates them on every
run. `PROJECT.json` lists the theorems a reader should know.

| Module | Theorems | Inductive invariant and why it is needed |
|---|---|---|
| UploadIngestProofs | TypeCorrect, StoredCorrect, StoreImplemented (`Spec => ImplementsStore`) | That a snapshot is what was declared depends on what a handler verified some steps before it moves the file. `IInv` adds that each lock has one holder (UploadLockExclusive, NamespaceLockExclusive), that `archive.part` does not grow under who has measured it (StagedBounded), and that what was verified or copied is what was declared, or has been removed (VerifiedStaged, CopyVerified). For the refinement one lemma per kind of step says which step of SnapshotStore it is, or that the store does not see it |
| UploadIngestProofs | StagedAlwaysInOrder, RetentionAlwaysHolds, OnlySupersededAlwaysGo, SupersededBySnapshots, IndexedAlwaysStored, FinalizedAlwaysStored | Each of them is a plain fact between two finalizes and broken in the middle of one. `RInv`, on top of `IInv`, says for each program point of `commitNewArchive` what it still has to do: from the first byte in the backup root to the last deletion there may be one file too many (Pruned, CopyListed); what is still to be deleted is older than the KeepLast files that were chosen to stay, of which only an administrator takes any (DeletingOlder, Unnoticed); from the first deletion to the reconcile the index may lag behind, and the listing it will be reconciled with is current (IndexLags); this upload's own snapshot is there or KeepLast others are (AnswerKept). OwnTimes, no two files have one modification time, makes retention's choice well defined: what it keeps is finite, at most KeepLast, and newer than all that goes (KeptFiles). Nothing spent comes back (BoundsLeft), so a fault in the past shows in `Interruptions`, and `budget.settled` never runs ahead of that |
| CredentialBindingProofs | BindingTypeCorrect, LimitAlwaysKept, LiveAlwaysKept, RevokedNeverBound, RegistryImplemented (`Spec => ImplementsRegistry`), RequestsAdvance | BindWrite adds a binding without looking. `IInv` says what the request still knows from its earlier statements (FreeToBind, RoomToBind, RegisteredHasRow), and TokenLockExclusive, InstanceLockExclusive and LockedStays why nobody has made it false. The same facts make BindWrite the one step that TokenRegistry has for it. RevokeOwns, an invariant beside it, says that what a running revocation has locked is as it found it, so that its commit is one step too |
| UploadClientProofs | ClientTypeCorrect, SuccessAlwaysStored, NeverGetsAhead, CallsShorten | `Core` relates the two offsets of the client to the end of Station's data; it needs that a session without an id has nothing staged and that a completed one is whole. `Around` types breaker, delayed requests and bounds |
| JobRunnerProofs | JobTypeCorrect, HeldAlwaysUntilSent, StagedAlwaysPresent, LastAlwaysStored, LargeAlwaysNeedsApproval, HistoryAlwaysStored, OperationsAdvance | `Structure`: only a cycle, and a forced send of one job, have workers. `JobInv` per job: what its worker sends stays staged and what it sent is at Station (SentIsStored), the approval it looked up is still there (AllowedIsApproved), a new archive has a name of its own and is present (NewIsPresent), and what may be sent without the operator has passed (DueIsPassed): an archive that is present and not held, one on its way, or one that Station may store late. StagedIsPresent is an action property of this invariant (PresentStep): with present archives only, an invariant would be false after a crash between removal and save. JobFrame says that a step of one job keeps the others' parts. For the history `HistoryInv` adds that the pending observation of a job is that of its staged archive, or of what it has just uploaded (PendingFits) |
| ScoutControlProofs | ControlTypeCorrect, PausedNeverCycles, SettingsAlwaysAgree, PlanAlwaysCurrent, GapAlwaysKept, WakeUpNeverLost, RunNowIsAhead, StopIsAhead | `PlanHolds`: a plan of an older schedule has a token, there or still to come. `PlanIsLate`: the planned time keeps the gap. `Agreement`: for each place of a settings request, which copies have its draft, and what a failed save or refused hooks may have left apart (Agree) |
| DiscoveryProofs | TypeCorrect, SavedAlwaysListed, ListedAlwaysBackedUp, AnswerAlwaysComplete, WalksShorten | KnownStays: a saved job in view is in the list, and meanwhile among what the walk has found, has ahead of it, or was told. WalkIsRight: what an undisturbed walk has found, and what lies below the folders it has still to read, are the markers in view (`Jobs`), to which DiscoverJobs adds its own conditions. Both rest on facts about the tree (AncestorsDef, ChildCovers, DepthFacts), for which TreeAssumption, that whatever contains the root and is closed under children is the whole tree, stands in for an induction |
| RestoreRequestsProofs | RestoreTypeCorrect, CompletedAlwaysRestored, RejectedAlwaysStays, RestoredAlwaysExact, OperationsAdvance | A completion on its way is of a restored request (CompletedIsSent); a dismissed request has a row that no call changes any more (DismissedIsSettled); what is no longer left to extract is the requested snapshot's, and what is not of that snapshot is as it was, but for the owner's edits (ExtractedIsRight), because the cycle lock keeps other operations out |
| IntegrationsProofs | IntegrationsTypeCorrect, AlwaysInOrder, VaultAlwaysOpens | A manager beside a vault holds its key, so only one without a vault makes a key (HoldsVaultKey, CallKnows). Received, on its way, taken and queued events are each older than the next, but for POSTs that ended without an answer, each of which is older than what is posted now and has not been handled (OrderInv, LateInv) |

### Why things end

That something eventually happens is beyond the proof system. What it rests on
is not: a measure that every step of the code lowers and no other step raises.
These are action properties over all values of the constants; TLC checks the
conclusion, with fairness, on the instances of the runs.

| Liveness (TLC) | Theorem | What gets smaller |
|---|---|---|
| CallsReturn | CallsShorten | In this order: what is behind the client's offset, the attempts left, the phases of the round, the retries left. An offset never goes back within a call, so reconciling and resuming spend attempts. At its place `initiate` a call has neither offset nor attempts (Fresh) |
| OperationsEnd | OperationsAdvance (JobRunner) | For each job, the way of its worker through `processJob`. A worker that waits for its turn to upload waits until no other is past UploadStart, and each of those keeps to the same course |
| OperationEnds | OperationsAdvance (RestoreRequests) | The places of `DecideRestoreRequest`, then the files to extract |
| WalksEnd | WalksShorten | The folders below those in `todo` (ToRead), which lie apart from each other (TodoApart); and the changes that the walk was told of |
| RunNowIsServed, StopEnds | RunNowIsAhead, StopIsAhead, WakeUpNeverLost | The way of the loop to the place that takes the request, or to its end. That it does not sleep on the way is WakeUpNeverLost: `wakeCh` holds one token for three senders |
| RequestsAnswered | RequestsAdvance | The statements of `Bind` and `registerScout` that are left, and the rows that a revocation has still to look at. While any request or revocation runs, one of them has all the locks that it waits for, whichever row the revocation takes next (SomebodyGoesOn) |

Each measure is well-founded: offsets, attempts and tries are bounded by the
type invariant, folders, files, jobs and places are finite in number, and the
changes that restart a walk come from outside and are bounded in its run. The
step from the measure to the liveness property needs the fairness of the
section on the module, and for RequestsAnswered that waiting requests are
queued; that step stays with TLC.

### What is only model-checked

Liveness itself (RequestsAnswered, CallsReturn, DeliveredIfKept, OperationsEnd,
BackedUp, RunNowIsServed, StopEnds, WalksEnd, OperationEnds). For
DeliveredIfKept and BackedUp there is no measure: both are about what is tried
again in a later call or cycle, and rest on faults ending. NobodyStuck says
ENABLED. Every other property of the passing runs is a theorem.
