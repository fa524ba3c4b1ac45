--------------------------- MODULE RestoreRequests ---------------------------
(***************************************************************************)
(* Restore requests: an administrator of Station asks a Scout to restore a *)
(* snapshot, and a user of that Scout accepts or rejects.                  *)
(*                                                                         *)
(* Station keeps a row per request for one hour (store/restore.go,         *)
(* api/restore.go).  Scout asks for the rows, records its decision,        *)
(* downloads, extracts file by file and records the completion             *)
(* (runner/restore.go, recovery/recovery.go, upload/restore.go,            *)
(* backup/archiver.go), all under its cycle lock.  A call may fail, its    *)
(* answer may be lost, and a call that timed out on Scout may reach        *)
(* Station much later.  Extraction puts the files of the archive in place  *)
(* and leaves every other file of the folder alone; the owner of the       *)
(* folder may change files at any time.                                    *)
(***************************************************************************)
EXTENDS Naturals, FiniteSets

CONSTANTS
  Ids,            \* requests
  Snapshots,      \* archives in Station's backup root
  SnapshotOf,     \* the archive a request names
  Files,          \* files in the one folder that is restored into
  FilesOf,        \* those that an archive holds
  NoOperation,    \* nobody holds Scout's cycle lock
  MaxDelayed,     \* bound: calls that arrive after Scout gave up on them
  MaxFailures,    \* bound: calls and file operations that fail
  MaxRestarts     \* bound: restarts of Scout

ASSUME RestoreAssumption ==
  /\ SnapshotOf \in [Ids -> Snapshots]
  /\ FilesOf \in [Snapshots -> SUBSET Files]
  /\ "local" \notin Snapshots
  /\ {MaxDelayed, MaxFailures, MaxRestarts} \subseteq Nat

VARIABLES
  row,            \* restore_requests: the status of each request
  stored,         \* the archives that exist
  delayed,        \* decisions on their way although Scout has given up
  operation,      \* DecideRestoreRequest under way: request, decision, place
  left,           \* files it has still to extract
  folder,         \* the destination: where the content of each file is from;
                  \* "local" is whatever its owner left there, or nothing
  answer,         \* what the user was told at the end of the last operation
  restored,       \* history: requests whose files have all been put in place
  dismissed,      \* history: requests rejected for the user after asking Station
  began,          \* history: the folder as the extraction under way found it
  edited,         \* history: files the owner changed after that extraction came by
  count           \* how often each bounded kind of event has happened

station == <<row, stored>>
scout == <<operation, left, folder>>
ended == <<left, answer, dismissed, began, edited>>
history == <<answer, restored, dismissed, began, edited>>
vars == <<station, delayed, scout, history, count>>

Statuses == {"accepted", "rejected", "completed"}
Rows == {"none", "pending", "gone"} \cup Statuses
Open == {"pending", "accepted"}
Events == {"delayed", "failure", "restart"}
Places == {"list", "reject", "accept", "download", "extract", "complete"}
Operations == [id : Ids, decision : {"accept", "reject"}, at : Places]

ASSUME NoOperationAssumption == NoOperation \notin Operations

TypeOK ==
  /\ row \in [Ids -> Rows]
  /\ stored \subseteq Snapshots
  /\ delayed \subseteq [id : Ids, status : Statuses]
  /\ operation \in Operations \cup {NoOperation}
  /\ left \subseteq Files
  /\ left # {} => operation # NoOperation
  /\ folder \in [Files -> Snapshots \cup {"local"}]
  /\ answer \in {"nothing", "error", "expired", "rejected", "restored"}
  /\ restored \subseteq Ids /\ dismissed \subseteq Ids
  /\ began \in [Files -> Snapshots \cup {"local"}] /\ edited \subseteq Files
  /\ count \in [Events -> Nat]

NoFolder == [f \in Files |-> "local"]

Init ==
  /\ row = [id \in Ids |-> "none"] /\ stored = Snapshots /\ delayed = {}
  /\ operation = NoOperation /\ left = {} /\ folder = NoFolder
  /\ answer = "nothing" /\ restored = {} /\ dismissed = {}
  /\ began = NoFolder /\ edited = {}
  /\ count = [kind \in Events |-> 0]

Counted(kind, bound) ==
  /\ count[kind] < bound
  /\ count' = [count EXCEPT ![kind] = @ + 1]

-----------------------------------------------------------------------------
(* Station. *)

\* handleRequestRestore: the snapshot is looked at, then the row is inserted.
RequestRestore(id) ==
  /\ row[id] = "none" /\ SnapshotOf[id] \in stored
  /\ row' = [row EXCEPT ![id] = "pending"]
  /\ UNCHANGED <<stored, delayed, scout, history, count>>

\* An hour is over: the row no longer counts, and the next listing deletes it.
Expire(id) ==
  /\ row[id] \notin {"none", "gone"}
  /\ row' = [row EXCEPT ![id] = "gone"]
  /\ UNCHANGED <<stored, delayed, scout, history, count>>

\* Retention, or an administrator.
DeleteSnapshot(s) ==
  /\ stored' = stored \ {s}
  /\ UNCHANGED <<row, delayed, scout, history, count>>

\* DecideRestoreRequest's UPDATE: what may follow on what. (Mutant: the statement
\* without its conditions on the status.)
MayBecomeAnything(was, status) == was \notin {"none", "gone"}
MayBecome(was, status) ==
  \/ was = "pending" /\ status \in {"accepted", "rejected"}
  \/ was = "accepted" /\ status \in Statuses

Decided(id, status) ==
  IF MayBecome(row[id], status) THEN [row EXCEPT ![id] = status] ELSE row

\* A decision that Scout has given up on arrives.
Arrive(message) ==
  /\ delayed' = delayed \ {message}
  /\ row' = Decided(message.id, message.status)
  /\ UNCHANGED <<stored, scout, history, count>>

-----------------------------------------------------------------------------
(* Scout: DecideRestoreRequest of the runner. *)

Over == operation' = NoOperation /\ left' = {} /\ began' = NoFolder /\ edited' = {}

Answer(what) ==
  /\ Over
  /\ answer' = what
  /\ dismissed' = IF what = "rejected" THEN dismissed \cup {operation.id} ELSE dismissed

\* The user decides, from a page that may be old, on a request that was listed
\* once. The cycle lock is free.
Begin(id, decision) ==
  /\ operation = NoOperation /\ row[id] # "none"
  /\ operation' = [id |-> id, decision |-> decision, at |-> "list"]
  /\ answer' = "nothing"
  /\ UNCHANGED <<station, delayed, left, folder, restored, dismissed, began, edited, count>>

At(place) == operation # NoOperation /\ operation.at = place
Go(place) == operation' = [operation EXCEPT !.at = place]

\* A request that is not listed is dismissed or refused.
AnswerGone == IF operation.decision = "reject" THEN "rejected" ELSE "expired"

\* ListRestoreRequests answered.
List ==
  /\ At("list")
  /\ IF row[operation.id] \in Open THEN Go(operation.decision) /\ UNCHANGED ended
                                  ELSE Answer(AnswerGone)
  /\ UNCHANGED <<station, delayed, folder, restored, count>>

\* Scout has at that time no URL of Station, no credential or no key: the list is
\* empty without a call, the user hears the same, and Station hears nothing.
ListUnconfigured ==
  /\ At("list")
  /\ Over
  /\ answer' = AnswerGone
  /\ UNCHANGED <<station, delayed, folder, restored, dismissed, count>>

\* What the runner does with Station's answer to a decision; changed says whether
\* the UPDATE found the row, which is 200 or 409.
\* (Mutant: an acceptance that was refused is repeated.)
AfterDecisionRepeating(changed) ==
  CASE At("reject") -> Answer("rejected")
    [] At("accept") /\ changed -> Go("download") /\ UNCHANGED ended
    [] At("accept") /\ ~changed -> UNCHANGED <<operation, ended>>
    [] At("complete") -> Answer(IF changed THEN "restored" ELSE "error")
AfterDecision(changed) ==
  CASE At("reject") -> Answer("rejected")
    [] At("accept") /\ changed -> Go("download") /\ UNCHANGED ended
    [] At("accept") /\ ~changed -> Answer("expired")
    [] At("complete") -> Answer(IF changed THEN "restored" ELSE "error")

\* The status each call brings.
StatusOf == [reject |-> "rejected", accept |-> "accepted", complete |-> "completed"]

Decide ==
  /\ operation # NoOperation /\ operation.at \in DOMAIN StatusOf
  /\ row' = Decided(operation.id, StatusOf[operation.at])
  /\ AfterDecision(MayBecome(row[operation.id], StatusOf[operation.at]))
  /\ UNCHANGED <<stored, delayed, folder, restored, count>>

\* The answer is lost after Station has decided.
DecideUnheard ==
  /\ operation # NoOperation /\ operation.at \in DOMAIN StatusOf
  /\ Counted("failure", MaxFailures)
  /\ row' = Decided(operation.id, StatusOf[operation.at])
  /\ Answer("error")
  /\ UNCHANGED <<stored, delayed, folder, restored>>

\* The call times out on Scout and reaches Station later.
DecideLate ==
  /\ operation # NoOperation /\ operation.at \in DOMAIN StatusOf
  /\ Counted("delayed", MaxDelayed)
  /\ delayed' = delayed \cup {[id |-> operation.id, status |-> StatusOf[operation.at]]}
  /\ Answer("error")
  /\ UNCHANGED <<station, folder, restored>>

\* A call or a file operation fails without effect: in RecoverRequest the archive
\* is removed and what has been extracted stays.
Fail ==
  /\ operation # NoOperation
  /\ Counted("failure", MaxFailures)
  /\ Answer("error")
  /\ UNCHANGED <<station, delayed, folder, restored>>

\* The destination leaves the scan root, crosses a symbolic link or is a runtime folder, or the key
\* of the Scout the snapshot is from is missing: refused before Station hears of an acceptance.
RefuseDestination ==
  /\ At("accept")
  /\ Answer("error")
  /\ UNCHANGED <<station, delayed, folder, restored, count>>

\* handleDownloadRestoreArchive: a live accepted request whose archive exists.
Downloadable(id) == row[id] = "accepted" /\ SnapshotOf[id] \in stored

Download ==
  /\ At("download")
  /\ IF Downloadable(operation.id)
     THEN /\ Go("extract") /\ left' = FilesOf[SnapshotOf[operation.id]] /\ began' = folder
          /\ UNCHANGED <<answer, dismissed, edited>>
     ELSE Answer("error")
  /\ UNCHANGED <<station, delayed, folder, restored, count>>

\* ExtractArchiveContext replaces one file of the archive by rename. (Mutant: an existing file is
\* left alone, as a restore that resumes would.)
ExtractMissing(f) ==
  IF folder[f] = "local" THEN [folder EXCEPT ![f] = SnapshotOf[operation.id]] ELSE folder
Extracted(f) == [folder EXCEPT ![f] = SnapshotOf[operation.id]]

Extract(f) ==
  /\ At("extract") /\ f \in left
  /\ folder' = Extracted(f)
  /\ left' = left \ {f} /\ edited' = edited \ {f}
  /\ UNCHANGED <<station, delayed, operation, answer, restored, dismissed, began, count>>

\* (Mutant: the completion is recorded while files are still missing.)
FinishEarly ==
  /\ At("extract") /\ Go("complete")
  /\ restored' = IF left = {} THEN restored \cup {operation.id} ELSE restored
  /\ UNCHANGED <<station, delayed, folder, ended, count>>

FinishExtract ==
  /\ At("extract") /\ left = {}
  /\ Go("complete")
  /\ restored' = restored \cup {operation.id}
  /\ UNCHANGED <<station, delayed, folder, ended, count>>

\* Scout is killed: the lock and the operation are gone, the files stay.
Restart ==
  /\ Counted("restart", MaxRestarts)
  /\ Over
  /\ UNCHANGED <<station, delayed, folder, answer, restored, dismissed>>

\* The owner of the folder changes or removes a file, also while it is restored.
EditFolder(f) ==
  /\ folder' = [folder EXCEPT ![f] = "local"]
  /\ edited' = IF At("extract") \/ At("complete") THEN edited \cup {f} ELSE edited
  /\ UNCHANGED <<station, delayed, operation, left, answer, restored, dismissed, began, count>>

Proceed ==
  List \/ ListUnconfigured \/ Decide \/ Download \/ FinishExtract \/ \E f \in Files : Extract(f)
Trouble == RefuseDestination \/ DecideUnheard \/ DecideLate \/ Fail \/ Restart

Next ==
  \/ \E id \in Ids : RequestRestore(id) \/ Expire(id)
                     \/ \E decision \in {"accept", "reject"} : Begin(id, decision)
  \/ \E s \in Snapshots : DeleteSnapshot(s)
  \/ \E message \in delayed : Arrive(message)
  \/ \E f \in Files : EditFolder(f)
  \/ Proceed \/ Trouble

Spec == Init /\ [][Next]_vars

\* Every call of Scout is answered or times out, and the goroutine goes on.
FairSpec == Spec /\ WF_vars(Proceed)

-----------------------------------------------------------------------------
(* Properties. *)

\* Station says "completed" only of a request whose files were all put in place,
\* whatever was lost, late or interrupted.
CompletedIsRestored == \A id \in Ids : row[id] = "completed" => id \in restored

\* Once a Scout that is connected to Station has told the user that a request is
\* rejected, nothing of it is ever written again: neither a late acceptance nor an
\* old page brings it back ("Reject dismisses it.", docs/scout/restore.mdx:112). (A
\* Scout that has no URL, credential or key says so too, but Station does not know.)
RejectedStaysRejected ==
  [][\A f \in Files : Extract(f) => operation.id \notin dismissed]_vars

\* When Scout reports success, every file of the requested snapshot is in place,
\* whatever was there and whichever attempt stopped half-way, and every other file
\* is as the restore found it ("replaces matching local files",
\* docs/scout/restore.mdx:110); but for what the owner has changed since.
RestoredIsExact ==
  [][(At("complete") /\ answer' = "restored")
       => \A f \in Files \ edited :
            folder[f] = IF f \in FilesOf[SnapshotOf[operation.id]]
                        THEN SnapshotOf[operation.id] ELSE began[f]]_vars

\* The cycle lock is released: a restore ends whatever fails.
OperationEnds == operation # NoOperation ~> operation = NoOperation
=============================================================================
