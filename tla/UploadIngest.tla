---------------------------- MODULE UploadIngest ----------------------------
(***************************************************************************)
(* Station's resumable uploads into ONE namespace (a job of a Scout        *)
(* instance): app/station/internal/ingest/ingest.go with the PostgreSQL    *)
(* session store, the local storage backend, count-based retention, the    *)
(* snapshot index and the administrator's "delete snapshot" handler.       *)
(*                                                                         *)
(* A request handler is a worker.  Each handler is cut where it reads or   *)
(* writes state that another goroutine can change in between, so the       *)
(* interleavings TLC explores are those of the Go program: StartUpload     *)
(* takes no upload lock, AppendChunk and FinalizeUpload do, CleanupStale-  *)
(* Uploads and the delete handler take none.  A lock lives exactly as long *)
(* as the handler that took it (the code releases by defer), so a lock is  *)
(* held by the workers at a program point inside it.                       *)
(*                                                                         *)
(* Archives are cut into blocks.  Block i of an archive is the number i,   *)
(* and 0 is a block damaged on its way; data has the declared SHA-256 when *)
(* it is 1, 2, ..., Blocks.  Replies that change nothing (404, 409 offset  *)
(* mismatch, 400, 413, 507) are stuttering steps and have no action.       *)
(*                                                                         *)
(* An operator whose definition directly follows a variant of it (Surplus  *)
(* after SurplusOffByOne) has that variant as a plausible mistake: the     *)
(* property the mutants of PROJECT.json name catches it.                   *)
(***************************************************************************)
EXTENDS Integers, Sequences, FiniteSets, FiniteSetsExt

CONSTANTS
  Archives,        \* staged backups a Scout may upload; each has its own idempotency key and snapshot filename
  Checksum,        \* the archive_sha256 of each archive; equal for byte-identical archives
  Blocks,          \* ArchiveSizeBytes, in blocks
  Uploads,         \* upload ids; each is handed out at most once
  Workers,         \* requests being handled at once
  NoSession,       \* the value of an upload id without a row in upload_sessions
  KeepLast,        \* RetentionKeepLast
  StagingDisk,     \* blocks the staging file system holds
  BackupDisk,      \* blocks the backup file system holds
  SameFilesystem,  \* whether the staged file is renamed, or copied, into the backup root
  MaxClock,        \* bound: writes that advance a modification time
  MaxDamaged,      \* bound: chunks that arrive damaged
  MaxExpiries,     \* bound: sessions whose lifetime runs out
  MaxCrashes,      \* bound: restarts of Station
  MaxFailures,     \* bound: database and storage calls that return an error
  MaxDisturbances, \* bound: restarts, errors and deletions together
  MaxDeletes,      \* bound: snapshots an administrator deletes
  Deletable        \* bound: the archives whose snapshots those are

ASSUME BlocksAssumption   == Blocks \in Nat \ {0}
ASSUME KeepLastAssumption == KeepLast \in Nat \ {0}
ASSUME ChecksumAssumption == DOMAIN Checksum = Archives
ASSUME DiskAssumption     == StagingDisk \in Nat /\ BackupDisk \in Nat
ASSUME BoundsAssumption   ==
  /\ MaxClock \in Nat
  /\ MaxDamaged \in Nat
  /\ MaxExpiries \in Nat
  /\ MaxCrashes \in Nat
  /\ MaxFailures \in Nat
  /\ MaxDisturbances \in Nat
  /\ MaxDeletes \in Nat
ASSUME FilesystemAssumption == SameFilesystem \in BOOLEAN

VARIABLES
  sessions,  \* upload_sessions: the row of each upload id, or NoSession
  used,      \* upload ids handed out so far
  staged,    \* archive.part of each upload id
  files,     \* the files of the namespace in the backup root
  index,     \* the archives that have a row in snapshot_index
  worker,    \* what each request handler is doing
  cleaner,   \* the cleanup loop
  admin,     \* the delete-snapshot handler
  clock,     \* the last modification time given out
  budget     \* how much of each bound is left; history: the interruptions that retention has caught up with

stores == <<sessions, used, staged, files, index>>
vars   == <<sessions, used, staged, files, index, worker, cleaner, admin, clock, budget>>

-----------------------------------------------------------------------------
(* Files, snapshots and retention *)

BlockValue == 0..Blocks
File   == [data : Seq(BlockValue), mtime : Nat]
NoFile == [data |-> <<>>, mtime |-> 0]

\* The bytes the Scout declared the checksum of.
Declared == [i \in 1..Blocks |-> i]

\* A name of the namespace directory: a snapshot, or the ".tmp" a copy writes first.
Names    == Archives \X {"snapshot", "tmp"}
Snap(a)  == <<a, "snapshot">>
Tmp(a)   == <<a, "tmp">>

Size(u) == Len(staged[u].data)
Listed  == {n \in Names : files[n] # NoFile}

NewerReversed(m, n) == files[m].mtime < files[n].mtime
Newer(m, n) == files[m].mtime > files[n].mtime

SurplusOffByOne == {n \in Listed : Cardinality({m \in Listed : Newer(m, n)}) > KeepLast}
\* retention.PruneOldSnapshots: what is beyond the KeepLast newest files of the listing.
Surplus == {n \in Listed : Cardinality({m \in Listed : Newer(m, n)}) >= KeepLast}

WithoutFiles(gone) == [n \in Names |-> IF n \in gone THEN NoFile ELSE files[n]]

\* SnapshotIndex.ReconcileNamespace deletes the rows whose file is not in the listing; it adds none.
Reconciled(listing) == {a \in index : Snap(a) \in listing}

\* SnapshotIndex.FindDuplicate(namespace, sha)
Duplicates(a) == {b \in index : Checksum[b] = Checksum[a]}

-----------------------------------------------------------------------------
(* Sessions *)

\* "active" stands for initiated, in_progress, uploaded and checksum_retry_required: no handler tells
\* them apart, and none believes the UploadedBytes of a row, which is always the size of archive.part.
Session == [archive  : Archives,
            status   : {"active", "completed"},
            storedAs : Archives,
            expired  : BOOLEAN]

NewSession(a) == [archive |-> a, status |-> "active", storedAs |-> a, expired |-> FALSE]

Exists(u)  == sessions[u] # NoSession
KeyOf(a)   == {u \in Uploads : Exists(u) /\ sessions[u].archive = a}

\* sessionReferencesMissingSnapshot
Missing(s) == s.status = "completed" /\ Snap(s.storedAs) \notin Listed

\* PGSessionStore.ReservedBytes: rows that have expired no longer count.
ReservedSessions == {u \in Uploads : Exists(u) /\ sessions[u].status = "active" /\ ~sessions[u].expired}
ReservedBytes == Blocks * Cardinality(ReservedSessions)
StagedBytes   == MapThenSumSet(Size, Uploads)
StoredBytes   == MapThenSumSet(LAMBDA n : Len(files[n].data), Names)

\* validateNewReservationContext against both file systems.
Fits ==
  /\ ReservedBytes <= StagingDisk - StagedBytes
  /\ Blocks <= StagingDisk - StagedBytes - ReservedBytes
  /\ ReservedBytes <= BackupDisk - StoredBytes
  /\ Blocks <= BackupDisk - StoredBytes - ReservedBytes

\* A handler's own copy of the row.  Every save gives the row a new lifetime.
Copy(u) == [sessions[u] EXCEPT !.expired = FALSE]

\* A save writes the row whether or not it is still there (INSERT ... ON CONFLICT DO UPDATE);
\* the UNIQUE idempotency key refuses it when another upload id took the key.
CanSave(u, s)  == KeyOf(s.archive) \subseteq {u}
Save(u, s)     == sessions' = [sessions EXCEPT ![u] = s]
RemoveStaged(u) == staged' = [staged EXCEPT ![u] = NoFile]

-----------------------------------------------------------------------------
(* Request handlers and their locks *)

Idle == [pc |-> "idle"]
StartPc   == {"start_dup", "start_reserve"}
FinalNsPc == {"final_dup", "final_store", "final_copy", "final_rename", "final_prune",
              "final_delete", "final_files", "final_upsert", "final_reconcile", "final_save"}
LockedPc  == {"append_write", "append_save", "final_verify", "final_list", "final_apply",
              "final_discard", "final_remove"} \cup FinalNsPc
SessionPc == {"start_save", "start_list", "start_apply", "start_discard", "start_remove"} \cup LockedPc

WorkerState ==
       {Idle}
  \cup [pc : StartPc, archive : Archives]
  \cup [pc : SessionPc, upload : Uploads, sess : Session,
        listing : SUBSET Names, doomed : SUBSET Names, offset : 0..Blocks, source : Seq(BlockValue)]

At(w, pc)    == worker[w].pc = pc
Become(w, s) == worker' = [worker EXCEPT ![w] = s]
Finish(w)    == Become(w, Idle)
Advance(w, pc) == Become(w, [worker[w] EXCEPT !.pc = pc])
Step(pc, u, s) == [pc |-> pc, upload |-> u, sess |-> s, listing |-> {}, doomed |-> {},
                   offset |-> 0, source |-> <<>>]

UploadFreeOfFinalize(u) == \A w \in Workers : worker[w].pc \in FinalNsPc => worker[w].upload # u
\* pg_advisory_lock("upload:" + id), held by AppendChunk and FinalizeUpload until they return.
HoldsUpload(w, u) == worker[w].pc \in LockedPc /\ worker[w].upload = u
UploadFree(u)     == \A w \in Workers : ~HoldsUpload(w, u)
HoldsNamespaceWhileWaiting(w) == worker[w].pc \in FinalNsPc \cup {"final_verify"}
NamespaceUnlocked == TRUE
\* keylock.Manager.Lock(namespace), held by FinalizeUpload until it returns.
HoldsNamespace(w) == worker[w].pc \in FinalNsPc
NamespaceFree     == \A w \in Workers : ~HoldsNamespace(w)

Spend(b)  == budget[b] > 0 /\ budget' = [budget EXCEPT ![b] = @ - 1]
Interruptions == (MaxCrashes - budget.crashes) + (MaxFailures - budget.failures)
Disturb(b)    == Interruptions + (MaxDeletes - budget.deletes) < MaxDisturbances /\ Spend(b)
Failure   == Disturb("failures")
NoFailure == UNCHANGED budget
\* Retention is through: it has made up for all that was interrupted before.
CatchUp   == budget' = [budget EXCEPT !.settled = Interruptions]

\* The namespace directory as LocalBackend.List gives it.  Every caller drops the error, and
\* what it gets instead is an empty listing.
ListedOrNothing(listing) ==
  \/ listing = Listed /\ NoFailure
  \/ listing = {} /\ Failure

\* sessionReferencesMissingSnapshot answers true when the directory cannot be listed.
FoundMissing(s) ==
  \/ Missing(s) /\ NoFailure
  \/ s.status = "completed" /\ Failure

\* A directory that cannot be removed is left behind; the error is logged or dropped.
TryRemoveStaged(u) ==
  \/ RemoveStaged(u) /\ NoFailure
  \/ UNCHANGED staged /\ Failure

Init ==
  /\ sessions = [u \in Uploads |-> NoSession]
  /\ used     = {}
  /\ staged   = [u \in Uploads |-> NoFile]
  /\ files    = [n \in Names |-> NoFile]
  /\ index    = {}
  /\ worker   = [w \in Workers |-> Idle]
  /\ cleaner  = Idle
  /\ admin    = Idle
  /\ clock    = 0
  /\ budget   = [damaged |-> MaxDamaged, expiries |-> MaxExpiries, crashes |-> MaxCrashes,
                 failures |-> MaxFailures, deletes |-> MaxDeletes, settled |-> 0]

-----------------------------------------------------------------------------
(* POST /backup/uploads/initiate: StartUpload.  No upload lock is taken. *)

\* No session has the key, or it cannot be read: on to the duplicate check.
StartFresh(w, a) ==
  /\ At(w, "idle")
  /\ \/ KeyOf(a) = {} /\ NoFailure
     \/ Failure
  /\ Become(w, [pc |-> "start_dup", archive |-> a])
  /\ UNCHANGED <<stores, cleaner, admin, clock>>

\* The key has a session: this handler now works on its copy of the row.
StartResume(w, a) ==
  /\ At(w, "idle")
  /\ \E u \in KeyOf(a) :
       /\ ~Missing(sessions[u])
       /\ Become(w, Step("start_save", u, Copy(u)))
  /\ UNCHANGED <<stores, cleaner, admin, clock, budget>>

\* The copy, with a new lifetime, is written back over whatever the row has become.
StartSave(w) ==
  /\ At(w, "start_save")
  /\ LET u == worker[w].upload
         s == worker[w].sess
     IN \/ /\ CanSave(u, s)
           /\ Save(u, s)
           /\ NoFailure
        \/ /\ \/ ~CanSave(u, s) /\ NoFailure
              \/ Failure
           /\ UNCHANGED sessions
  /\ Finish(w)
  /\ UNCHANGED <<used, staged, files, index, cleaner, admin, clock>>

\* resolveIdempotentSession finds a completed session whose snapshot is gone.
StartMissing(w, a) ==
  /\ At(w, "idle")
  /\ \E u \in KeyOf(a) :
       /\ FoundMissing(sessions[u])
       /\ Become(w, Step("start_list", u, Copy(u)))
  /\ UNCHANGED <<stores, cleaner, admin, clock>>

\* Station already has the checksum: the upload is reported complete without a session.
StartDuplicate(w) ==
  /\ At(w, "start_dup")
  /\ Duplicates(worker[w].archive) # {}
  /\ Finish(w)
  /\ UNCHANGED <<stores, cleaner, admin, clock, budget>>

StartNoDuplicate(w) ==
  /\ At(w, "start_dup")
  /\ \/ Duplicates(worker[w].archive) = {} /\ Advance(w, "start_reserve") /\ NoFailure
     \/ Finish(w) /\ Failure
  /\ UNCHANGED <<stores, cleaner, admin, clock>>

\* Under reservationMu: the capacity check and the INSERT of the new row.
StartReserve(w) ==
  /\ At(w, "start_reserve")
  /\ LET a == worker[w].archive
         admitted == Fits /\ KeyOf(a) = {}
     IN \/ /\ admitted
           /\ \E u \in Uploads \ used :
                /\ sessions' = [sessions EXCEPT ![u] = NewSession(a)]
                /\ used' = used \cup {u}
           /\ NoFailure
        \/ /\ \/ (~admitted \/ used = Uploads) /\ NoFailure
              \/ Failure
           /\ UNCHANGED <<sessions, used>>
  /\ Finish(w)
  /\ UNCHANGED <<staged, files, index, cleaner, admin, clock>>

-----------------------------------------------------------------------------
(* reconcileNamespace and discardSession, for a completed session whose      *)
(* snapshot is gone.  The listing is read first and applied later, without   *)
(* the namespace lock; every error on the way is logged or dropped.          *)

ReconcileList(w) ==
  /\ worker[w].pc \in {"start_list", "final_list"}
  /\ \E listing \in SUBSET Names :
       /\ ListedOrNothing(listing)
       /\ Become(w, [worker[w] EXCEPT !.pc = IF @ = "start_list" THEN "start_apply" ELSE "final_apply",
                                      !.listing = listing])
  /\ UNCHANGED <<stores, cleaner, admin, clock>>

ReconcileApply(w) ==
  /\ worker[w].pc \in {"start_apply", "final_apply"}
  /\ \/ index' = Reconciled(worker[w].listing) /\ NoFailure
     \/ UNCHANGED index /\ Failure
  /\ Advance(w, IF At(w, "start_apply") THEN "start_discard" ELSE "final_discard")
  /\ UNCHANGED <<sessions, used, staged, files, cleaner, admin, clock>>

DiscardRow(w) ==
  /\ worker[w].pc \in {"start_discard", "final_discard"}
  /\ \/ sessions' = [sessions EXCEPT ![worker[w].upload] = NoSession] /\ NoFailure
     \/ UNCHANGED sessions /\ Failure
  /\ Advance(w, IF At(w, "start_discard") THEN "start_remove" ELSE "final_remove")
  /\ UNCHANGED <<used, staged, files, index, cleaner, admin, clock>>

\* StartUpload goes on as if there had been no session; FinalizeUpload answers "re-initiate".
DiscardStaged(w) ==
  /\ worker[w].pc \in {"start_remove", "final_remove"}
  /\ TryRemoveStaged(worker[w].upload)
  /\ IF At(w, "start_remove")
     THEN Become(w, [pc |-> "start_dup", archive |-> worker[w].sess.archive])
     ELSE Finish(w)
  /\ UNCHANGED <<sessions, used, files, index, cleaner, admin, clock>>

-----------------------------------------------------------------------------
(* PUT /backup/uploads/{id}/chunk: AppendChunk, under the upload lock. *)

\* The row and the size of archive.part are read; the chunk's offset is that size.
AppendBegin(w, u) ==
  /\ At(w, "idle")
  /\ UploadFree(u)
  /\ Exists(u)
  /\ sessions[u].status # "completed"
  /\ Become(w, [Step("append_write", u, Copy(u)) EXCEPT !.offset = Size(u)])
  /\ UNCHANGED <<stores, cleaner, admin, clock, budget>>

\* The body ends as announced and the row is saved, or it breaks off or overruns, the blocks
\* written so far stay and nothing is saved.
AppendEnd(w) ==
  \/ Become(w, Step("append_save", worker[w].upload, worker[w].sess))
  \/ Finish(w)

AppendNothing(w) ==
  /\ At(w, "append_write")
  /\ AppendEnd(w)
  /\ UNCHANGED <<stores, cleaner, admin, clock, budget>>

Chunk(offset, n, damaged) == [i \in 1..n |-> IF damaged THEN 0 ELSE offset + i]

\* n blocks of the body reach the file, which is opened (and created if need be) only now.
AppendBlocks(w, n, damaged) ==
  /\ At(w, "append_write")
  /\ worker[w].offset + n <= Blocks
  /\ n <= StagingDisk - StagedBytes
  /\ clock < MaxClock
  /\ clock' = clock + 1
  /\ staged' = [staged EXCEPT ![worker[w].upload] =
       [data |-> @.data \o Chunk(worker[w].offset, n, damaged), mtime |-> clock + 1]]
  /\ IF damaged THEN Spend("damaged") ELSE UNCHANGED budget
  /\ AppendEnd(w)
  /\ UNCHANGED <<sessions, used, files, index, cleaner, admin>>

AppendWrite(w) ==
  \/ AppendNothing(w)
  \/ \E n \in 1..Blocks, damaged \in BOOLEAN : AppendBlocks(w, n, damaged)

AppendSave(w) ==
  /\ At(w, "append_save")
  /\ LET u == worker[w].upload
         s == worker[w].sess
     IN \/ CanSave(u, s) /\ Save(u, s) /\ NoFailure
        \/ ~CanSave(u, s) /\ UNCHANGED sessions /\ NoFailure
        \/ UNCHANGED sessions /\ Failure
  /\ Finish(w)
  /\ UNCHANGED <<used, staged, files, index, cleaner, admin, clock>>

-----------------------------------------------------------------------------
(* POST /backup/uploads/{id}/finalize: FinalizeUpload, under the upload lock. *)

FinalizeBegin(w, u) ==
  /\ At(w, "idle")
  /\ UploadFree(u)
  /\ Exists(u)
  /\ sessions[u].status # "completed"
  /\ Become(w, Step("final_verify", u, Copy(u)))
  /\ UNCHANGED <<stores, cleaner, admin, clock, budget>>

\* A repeated finalize of a completed upload answers "ok", unless the snapshot is gone.
FinalizeMissing(w, u) ==
  /\ At(w, "idle")
  /\ UploadFree(u)
  /\ Exists(u)
  /\ FoundMissing(sessions[u])
  /\ Become(w, Step("final_list", u, Copy(u)))
  /\ UNCHANGED <<stores, cleaner, admin, clock>>

\* With the namespace lock, the row is read again: it is gone, or bytes are missing, or the row
\* or the file cannot be read or removed.
FinalizeRefuse(w) ==
  /\ At(w, "final_verify")
  /\ NamespaceFree
  /\ \/ /\ Exists(worker[w].upload) => Size(worker[w].upload) # Blocks
        /\ NoFailure
     \/ Failure
  /\ Finish(w)
  /\ UNCHANGED <<stores, cleaner, admin, clock>>

\* The checksum differs: the staged data is thrown away and the upload starts over.
FinalizeReset(w) ==
  /\ At(w, "final_verify")
  /\ NamespaceFree
  /\ LET u == worker[w].upload
     IN /\ Exists(u)
        /\ Size(u) = Blocks
        /\ staged[u].data # Declared
        /\ RemoveStaged(u)
        /\ \/ Save(u, [Copy(u) EXCEPT !.status = "active"]) /\ NoFailure
           \/ UNCHANGED sessions /\ Failure
  /\ Finish(w)
  /\ UNCHANGED <<used, files, index, cleaner, admin, clock>>

FinalizeVerifySizeOnly(w) ==
  /\ At(w, "final_verify")
  /\ NamespaceFree
  /\ LET u == worker[w].upload
     IN /\ Exists(u)
        /\ Size(u) = Blocks
        /\ Become(w, Step("final_dup", u, Copy(u)))
  /\ UNCHANGED <<stores, cleaner, admin, clock, budget>>
FinalizeVerify(w) ==
  /\ At(w, "final_verify")
  /\ NamespaceFree
  /\ LET u == worker[w].upload
     IN /\ Exists(u)
        /\ Size(u) = Blocks
        /\ staged[u].data = Declared
        /\ Become(w, Step("final_dup", u, Copy(u)))
  /\ UNCHANGED <<stores, cleaner, admin, clock, budget>>

Completed(s, name) == [s EXCEPT !.status = "completed", !.storedAs = name]

\* commitDuplicate
FinalizeDuplicate(w) ==
  /\ At(w, "final_dup")
  /\ \E b \in Duplicates(worker[w].sess.archive) :
       Become(w, Step("final_save", worker[w].upload, Completed(worker[w].sess, b)))
  /\ TryRemoveStaged(worker[w].upload)
  /\ UNCHANGED <<sessions, used, files, index, cleaner, admin, clock>>

FinalizeNoDuplicate(w) ==
  /\ At(w, "final_dup")
  /\ \/ Duplicates(worker[w].sess.archive) = {} /\ Advance(w, "final_store") /\ NoFailure
     \/ Finish(w) /\ Failure
  /\ UNCHANGED <<stores, cleaner, admin, clock>>

-----------------------------------------------------------------------------
(* commitNewArchive *)

\* LocalBackend.Store on one file system: the rename keeps the modification time.
FinalizeStore(w) ==
  /\ At(w, "final_store")
  /\ SameFilesystem
  /\ LET u == worker[w].upload
     IN /\ staged[u] # NoFile
        /\ files' = [files EXCEPT ![Snap(worker[w].sess.archive)] = staged[u]]
        /\ RemoveStaged(u)
  /\ Advance(w, "final_prune")
  /\ UNCHANGED <<sessions, used, index, cleaner, admin, clock, budget>>

Prefix(data, n) == SubSeq(data, 1, n)

\* LocalBackend.Store across file systems: the staged file is opened and copied to a ".tmp"
\* beside the target, which the directory shows from the first byte, or none, to the last, ...
FinalizeCopy(w) ==
  /\ At(w, "final_store")
  /\ ~SameFilesystem
  /\ LET u == worker[w].upload
         s == worker[w].sess
     IN /\ staged[u] # NoFile
        /\ \E n \in 0..(Size(u) - 1) :
             files' = [files EXCEPT ![Tmp(s.archive)] =
                         [data |-> Prefix(staged[u].data, n), mtime |-> clock + 1]]
        /\ Become(w, [Step("final_copy", u, s) EXCEPT !.source = staged[u].data])
  /\ clock' = clock + 1
  /\ UNCHANGED <<sessions, used, staged, index, cleaner, admin, budget>>

FinalizeCopied(w) ==
  /\ At(w, "final_copy")
  /\ files' = [files EXCEPT ![Tmp(worker[w].sess.archive)] =
                 [data |-> worker[w].source, mtime |-> clock + 1]]
  /\ Become(w, Step("final_rename", worker[w].upload, worker[w].sess))
  /\ clock' = clock + 1
  /\ UNCHANGED <<sessions, used, staged, index, cleaner, admin, budget>>

\* ... then rename it and remove the staged file.
FinalizeRename(w) ==
  /\ At(w, "final_rename")
  /\ LET a == worker[w].sess.archive
     IN files' = [files EXCEPT ![Snap(a)] = files[Tmp(a)], ![Tmp(a)] = NoFile]
  /\ TryRemoveStaged(worker[w].upload)
  /\ Advance(w, "final_prune")
  /\ UNCHANGED <<sessions, used, index, cleaner, admin, clock>>

\* Store fails: the staged file is gone, or the file system returns an error and the
\* ".tmp" is removed again, or is left when that fails too.
FinalizeStoreError(w) ==
  /\ \/ At(w, "final_store") /\ staged[worker[w].upload] = NoFile /\ UNCHANGED files /\ NoFailure
     \/ At(w, "final_store") /\ UNCHANGED files /\ Failure
     \/ /\ worker[w].pc \in {"final_copy", "final_rename"}
        /\ \E gone \in SUBSET {Tmp(worker[w].sess.archive)} : files' = WithoutFiles(gone)
        /\ Failure
  /\ Finish(w)
  /\ UNCHANGED <<sessions, used, staged, index, cleaner, admin, clock>>

FinalizePruneListingFirst(w) ==
  /\ At(w, "final_prune")
  /\ files' = WithoutFiles(Surplus)
  /\ Become(w, [worker[w] EXCEPT !.pc = "final_upsert", !.listing = Listed])
  /\ UNCHANGED <<sessions, used, staged, index, cleaner, admin, clock, budget>>
\* PruneOldSnapshots lists the namespace and chooses what goes; its error is dropped.
FinalizePrune(w) ==
  /\ At(w, "final_prune")
  /\ \/ Surplus = {} /\ Advance(w, "final_files") /\ CatchUp
     \/ /\ Surplus # {}
        /\ Become(w, [worker[w] EXCEPT !.pc = "final_delete", !.listing = Listed, !.doomed = Surplus])
        /\ NoFailure
     \/ Advance(w, "final_files") /\ Failure
  /\ UNCHANGED <<stores, cleaner, admin, clock>>

\* What is still to be deleted; what an administrator deletes meanwhile is no longer there.
Doomed(w) == worker[w].doomed \cap Listed
EndPrune(w) == Become(w, Step("final_files", worker[w].upload, worker[w].sess))

\* The files go one by one, newest first, without another look at the directory.  A failed
\* deletion stops the loop; its error is dropped.
FinalizeDelete(w) ==
  /\ At(w, "final_delete")
  /\ \/ \E n \in Doomed(w) :
          /\ \A m \in Doomed(w) \ {n} : Newer(n, m)
          /\ files' = WithoutFiles({n})
          /\ IF Doomed(w) = {n} THEN EndPrune(w) /\ CatchUp ELSE UNCHANGED worker /\ NoFailure
     \/ Doomed(w) = {} /\ EndPrune(w) /\ CatchUp /\ UNCHANGED files
     \/ Doomed(w) # {} /\ EndPrune(w) /\ Failure /\ UNCHANGED files
  /\ UNCHANGED <<sessions, used, staged, index, cleaner, admin, clock>>

\* The listing the index is reconciled with.
FinalizeFiles(w) ==
  /\ At(w, "final_files")
  /\ \E listing \in SUBSET Names :
       /\ ListedOrNothing(listing)
       /\ Become(w, [worker[w] EXCEPT !.pc = "final_upsert", !.listing = listing])
  /\ UNCHANGED <<stores, cleaner, admin, clock>>

\* A failed UpsertSnapshot is logged and the request goes on.
FinalizeUpsert(w) ==
  /\ At(w, "final_upsert")
  /\ \/ index' = index \cup {worker[w].sess.archive} /\ NoFailure
     \/ UNCHANGED index /\ Failure
  /\ Advance(w, "final_reconcile")
  /\ UNCHANGED <<sessions, used, staged, files, cleaner, admin, clock>>

\* A failed reconcile is logged and the request goes on.
FinalizeReconcile(w) ==
  /\ At(w, "final_reconcile")
  /\ \/ index' = Reconciled(worker[w].listing) /\ NoFailure
     \/ UNCHANGED index /\ Failure
  /\ Become(w, Step("final_save", worker[w].upload,
                    Completed(worker[w].sess, worker[w].sess.archive)))
  /\ UNCHANGED <<sessions, used, staged, files, cleaner, admin, clock>>

\* The completed row is saved and the handler answers "ok".
FinalizeSave(w) ==
  /\ At(w, "final_save")
  /\ LET u == worker[w].upload
         s == worker[w].sess
     IN \/ CanSave(u, s) /\ Save(u, s) /\ NoFailure
        \/ ~CanSave(u, s) /\ UNCHANGED sessions /\ NoFailure
        \/ UNCHANGED sessions /\ Failure
  /\ Finish(w)
  /\ UNCHANGED <<used, staged, files, index, cleaner, admin, clock>>

-----------------------------------------------------------------------------
(* Time, the cleanup loop, the administrator and restarts *)

\* A session's lifetime runs out.  Lifetimes are hours, so none that was renewed during a
\* cleanup pass runs out again before the pass is over.
Expire(u) ==
  /\ Exists(u)
  /\ ~sessions[u].expired
  /\ cleaner = Idle
  /\ sessions' = [sessions EXCEPT ![u].expired = TRUE]
  /\ Spend("expiries")
  /\ UNCHANGED <<used, staged, files, index, worker, cleaner, admin, clock>>

ExpiredSessions == {u \in Uploads : Exists(u) /\ sessions[u].expired}

\* DeleteExpired: SELECT the expired rows, then DELETE whatever is expired by then.
CleanupSelect ==
  /\ cleaner = Idle
  /\ ExpiredSessions # {}
  /\ cleaner' = [pc |-> "selected", victims |-> ExpiredSessions]
  /\ UNCHANGED <<stores, worker, admin, clock, budget>>

CleanupDelete ==
  /\ cleaner.pc = "selected"
  /\ \/ /\ sessions' = [u \in Uploads |-> IF u \in ExpiredSessions THEN NoSession ELSE sessions[u]]
        /\ cleaner' = [cleaner EXCEPT !.pc = "deleted"]
        /\ NoFailure
     \/ UNCHANGED sessions /\ cleaner' = Idle /\ Failure
  /\ UNCHANGED <<used, staged, files, index, worker, admin, clock>>

\* The directories of the rows that were selected are removed, without the upload lock; one that
\* cannot be removed is left behind.
CleanupRemove ==
  /\ cleaner.pc = "deleted"
  /\ \E gone \in SUBSET cleaner.victims :
       /\ IF gone = cleaner.victims THEN NoFailure ELSE Failure
       /\ staged' = [u \in Uploads |-> IF u \in gone THEN NoFile ELSE staged[u]]
  /\ cleaner' = Idle
  /\ UNCHANGED <<sessions, used, files, index, worker, admin, clock>>

\* handleDeleteSnapshotForInstance: the file goes, then the index follows, without a lock.
DeleteSnapshot(a) ==
  /\ admin = Idle
  /\ a \in Deletable
  /\ Snap(a) \in Listed
  /\ files' = WithoutFiles({Snap(a)})
  /\ admin' = [pc |-> "removed"]
  /\ Disturb("deletes")
  /\ UNCHANGED <<sessions, used, staged, index, worker, cleaner, clock>>

DeleteList ==
  /\ admin.pc = "removed"
  /\ \E listing \in SUBSET Names :
       /\ ListedOrNothing(listing)
       /\ admin' = [pc |-> "listed", listing |-> listing]
  /\ UNCHANGED <<stores, worker, cleaner, clock>>

DeleteReconcile ==
  /\ admin.pc = "listed"
  /\ \/ index' = Reconciled(admin.listing) /\ NoFailure
     \/ UNCHANGED index /\ Failure
  /\ admin' = Idle
  /\ UNCHANGED <<sessions, used, staged, files, worker, cleaner, clock>>

\* Station stops and starts again.  PostgreSQL and the file systems keep what they have, so with
\* nothing under way there is nothing to see.
Restart ==
  /\ cleaner # Idle \/ admin # Idle \/ \E w \in Workers : ~At(w, "idle")
  /\ worker'  = [w \in Workers |-> Idle]
  /\ cleaner' = Idle
  /\ admin'   = Idle
  /\ Disturb("crashes")
  /\ UNCHANGED <<stores, clock>>

-----------------------------------------------------------------------------

Request(w) ==
  \/ \E a \in Archives : StartFresh(w, a) \/ StartResume(w, a) \/ StartMissing(w, a)
  \/ \E u \in Uploads : AppendBegin(w, u) \/ FinalizeBegin(w, u) \/ FinalizeMissing(w, u)

Handle(w) ==
  \/ StartSave(w) \/ StartDuplicate(w) \/ StartNoDuplicate(w) \/ StartReserve(w)
  \/ ReconcileList(w) \/ ReconcileApply(w) \/ DiscardRow(w) \/ DiscardStaged(w)
  \/ AppendWrite(w) \/ AppendSave(w)
  \/ FinalizeRefuse(w) \/ FinalizeReset(w) \/ FinalizeVerify(w)
  \/ FinalizeDuplicate(w) \/ FinalizeNoDuplicate(w)
  \/ FinalizeStore(w) \/ FinalizeCopy(w) \/ FinalizeCopied(w) \/ FinalizeRename(w)
  \/ FinalizeStoreError(w) \/ FinalizePrune(w) \/ FinalizeDelete(w) \/ FinalizeFiles(w)
  \/ FinalizeUpsert(w) \/ FinalizeReconcile(w) \/ FinalizeSave(w)

Cleanup == CleanupSelect \/ CleanupDelete \/ CleanupRemove

Administer == (\E a \in Archives : DeleteSnapshot(a)) \/ DeleteList \/ DeleteReconcile

Next ==
  \/ \E w \in Workers : Request(w) \/ Handle(w)
  \/ \E u \in Uploads : Expire(u)
  \/ Cleanup
  \/ Administer
  \/ Restart

Spec == Init /\ [][Next]_vars

-----------------------------------------------------------------------------
(* Properties *)

TypeOK ==
  /\ sessions \in [Uploads -> Session \cup {NoSession}]
  /\ used \subseteq Uploads
  /\ staged \in [Uploads -> File]
  /\ files \in [Names -> File]
  /\ index \subseteq Archives
  /\ worker \in [Workers -> WorkerState]
  /\ cleaner \in {Idle} \cup [pc : {"selected", "deleted"}, victims : SUBSET Uploads]
  /\ admin \in {Idle} \cup [pc : {"removed"}] \cup [pc : {"listed"}, listing : SUBSET Names]
  /\ clock \in Nat
  /\ budget \in [damaged : Nat, expiries : Nat, crashes : Nat, failures : Nat, deletes : Nat, settled : Int]

\* Every snapshot in the backup root is the archive the Scout declared, byte for byte, whatever
\* was damaged on the way, retried, cleaned up or interrupted: between the checksum and the move
\* into place nobody appends to archive.part, and no ".tmp" is renamed before it is complete.
StoredIsDeclared == \A a \in Archives : Snap(a) \in Listed => files[Snap(a)].data = Declared

\* A chunk is written where its offset says, or into a file that was removed after its handler had
\* read the size.  So no block of archive.part is behind its place: although two handlers may be
\* given a chunk for the same offset, none is written twice.  (Ahead of its place a block can be,
\* when the file was removed under the append; the checksum finds that.)
StagedInOrder ==
  /\ \A w \in Workers : At(w, "append_write") => Size(worker[w].upload) \in {0, worker[w].offset}
  /\ \A u \in Uploads : \A i \in 1..Size(u) : staged[u].data[i] \in {0} \cup i..Blocks

NamespaceQuiet == NamespaceFree /\ admin = Idle

\* Retention: with no finalize under way, the namespace holds at most KeepLast files, and at most
\* one more for each restart or error since retention last went through: however many there have
\* been before, the next finalize that gets through makes up for all of them.
RetentionHolds == NamespaceFree => Cardinality(Listed) <= KeepLast + (Interruptions - budget.settled)

\* No restart and no failing call so far, and no deletion by an administrator.
Undisturbed == Interruptions = 0 /\ budget.deletes = MaxDeletes

\* The index names no snapshot that is gone, with no finalize under way in an undisturbed Station.
IndexedIsStored == Undisturbed /\ NamespaceQuiet => \A a \in index : Snap(a) \in Listed

\* What retention relied on when it chose, and an administrator has deleted since.
Withdrawn ==
  UNION {(worker[w].listing \ worker[w].doomed) \ Listed : w \in {v \in Workers : At(v, "final_delete")}}

\* A snapshot disappears only when an administrator deletes it, or when KeepLast files were newer
\* as retention listed them: of these, none but what an administrator has deleted since are
\* missing.  Among them a ".tmp" counts that an interrupted copy has left; on one file system
\* there is none, and they are complete snapshots.
OnlySupersededGo ==
  [][\A a \in Archives :
       (Snap(a) \in Listed /\ Snap(a) \notin Listed') =>
         \/ admin = Idle /\ admin' # Idle
         \/ LET newer == {n \in Names : files'[n].mtime > files[Snap(a)].mtime}
            IN Cardinality(newer \cup Withdrawn) >= KeepLast]_vars

\* When finalize answers "ok" in an undisturbed Station, the snapshot it names is on disk, unless
\* it is this upload's own and retention has left KeepLast others.
FinalizedIsStored ==
  [][\A w \in Workers :
       (Undisturbed /\ At(w, "final_save") /\ sessions' # sessions) =>
         LET s == worker[w].sess
         IN \/ Snap(s.storedAs) \in Listed
            \/ s.storedAs = s.archive /\ Cardinality(Listed) >= KeepLast]_vars

\* A finalize waits for the namespace lock while it keeps the upload lock, and the handlers of a
\* completed session's cleanup take no lock: some request that has begun can always go on.
Begun(w)    == ~At(w, "idle")
NobodyStuck == (\E w \in Workers : Begun(w)) => \E w \in Workers : Begun(w) /\ ENABLED Handle(w)

-----------------------------------------------------------------------------
(* The abstract specification *)

VerifiedPcs == {"final_dup", "final_store", "final_copy", "final_rename"}
Verified ==
  {<<worker[w].upload, worker[w].sess.archive>> : w \in {v \in Workers : worker[v].pc \in VerifiedPcs}}

Store == INSTANCE SnapshotStore WITH
           arriving <- [u \in Uploads |-> staged[u].data],
           verified <- Verified,
           stored   <- [a \in Archives |-> files[Snap(a)].data]

\* Behind the locks, the copies of rows, the errors and the restarts there is a store in which data
\* is verified first and then stored, and nothing is added in between.
ImplementsStore == Store!Spec
=============================================================================
