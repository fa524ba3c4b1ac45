----------------------- MODULE RestoreRequestsProofs -----------------------
(***************************************************************************)
(* Theorems about RestoreRequests, for any requests, snapshots, files and  *)
(* bounds.  "completed" is only ever sent by an operation that has put all *)
(* files in place (CompletedIsSent).  A dismissed request has a row that   *)
(* no call changes any more, so Station accepts it for no operation        *)
(* (DismissedIsSettled).  But for what the owner edits, the files that are *)
(* no longer to be extracted are those of the requested snapshot and the   *)
(* others are as they were, because the cycle lock keeps other operations  *)
(* out of the folder (ExtractedIsRight).                                   *)
(* An operation ends because its places have an order (Rank).              *)
(***************************************************************************)
EXTENDS RestoreRequests, TLAPS

\* A completion on its way, or about to be sent, is of a request that was restored.
CompletedIsSent ==
  /\ \A m \in delayed : m.status = "completed" => m.id \in restored
  /\ At("complete") => operation.id \in restored

\* A dismissed request is at an end on Station, and no operation goes on with it.
DismissedIsSettled ==
  /\ \A id \in dismissed : row[id] \in {"rejected", "completed", "gone"}
  /\ At("download") \/ At("extract") => operation.id \notin dismissed

\* An operation is about a request that was made.
Known == operation # NoOperation => row[operation.id] # "none"

\* The files that the operation is to put in place.
Wanted == FilesOf[SnapshotOf[operation.id]]

\* What has been extracted is in the folder, and only that was touched.
ExtractedIsRight ==
  /\ At("extract") => left \subseteq Wanted
  /\ At("complete") => left = {}
  /\ At("extract") \/ At("complete") =>
       \A f \in Files \ edited :
         /\ f \in Wanted \ left => folder[f] = SnapshotOf[operation.id]
         /\ f \notin Wanted => folder[f] = began[f]

RInv == /\ TypeOK
        /\ CompletedIsRestored
        /\ CompletedIsSent
        /\ DismissedIsSettled
        /\ Known
        /\ ExtractedIsRight

-----------------------------------------------------------------------------

LEMMA CountType ==
  ASSUME TypeOK, NEW kind \in Events, NEW bound, Counted(kind, bound)
  PROVE  count' \in [Events -> Nat]
BY DEF TypeOK, Counted

\* A decision that reaches Station changes one row, and only as the statement allows.
LEMMA DecidedChanges ==
  ASSUME TypeOK, NEW id \in Ids, NEW status \in Statuses, row' = Decided(id, status)
  PROVE  /\ row' \in [Ids -> Rows]
         /\ \A i \in Ids : \/ row'[i] = row[i]
                           \/ i = id /\ row[i] \in Open /\ row'[i] = status
         /\ status = "rejected" => row'[id] \notin Open
BY DEF TypeOK, Decided, MayBecome, Statuses, Rows, Open

\* The end of an operation.
LEMMA AnswerEnds ==
  ASSUME TypeOK, NEW what \in {"error", "expired", "rejected", "restored"}, Answer(what)
  PROVE  /\ operation' = NoOperation /\ left' = {}
         /\ began' \in [Files -> Snapshots \cup {"local"}] /\ edited' = {}
         /\ answer' \in {"nothing", "error", "expired", "rejected", "restored"}
         /\ what # "rejected" => dismissed' = dismissed
         /\ what = "rejected" => dismissed' = dismissed \cup {operation.id}
BY DEF Answer, Over, NoFolder

\* A step that keeps the operation's place, the folder and the history, and moves rows forward.
LEMMA StationPreserves ==
  ASSUME RInv,
         UNCHANGED <<scout, history, count>>,
         stored' \subseteq Snapshots,
         delayed' \subseteq delayed,
         row' \in [Ids -> Rows],
         \A i \in Ids : \/ row'[i] = row[i]
                        \/ row[i] = "none" /\ row'[i] = "pending"
                        \/ row[i] # "none" /\ row'[i] = "gone"
                        \/ row[i] \in Open /\ row'[i] \in Statuses /\ (row'[i] = "completed" => i \in restored)
  PROVE  RInv'
<1> USE DEF RInv, scout, history
<1>1. TypeOK'
  BY DEF TypeOK
<1>2. CompletedIsRestored'
  BY DEF CompletedIsRestored
<1>3. CompletedIsSent'
  BY DEF CompletedIsSent, At
<1>4. DismissedIsSettled'
  BY DEF DismissedIsSettled, At, Open, TypeOK
<1>5. Known'
  BY DEF Known, TypeOK, Statuses, Operations
<1>6. ExtractedIsRight'
  BY DEF ExtractedIsRight, At, Wanted
<1> QED BY <1>1, <1>2, <1>3, <1>4, <1>5, <1>6

LEMMA StationStep ==
  ASSUME RInv,
         \/ \E id \in Ids : RequestRestore(id) \/ Expire(id)
         \/ \E s \in Snapshots : DeleteSnapshot(s)
         \/ \E message \in delayed : Arrive(message)
  PROVE  RInv'
<1>1. ASSUME NEW id \in Ids, RequestRestore(id) PROVE RInv'
  BY <1>1, StationPreserves DEF RequestRestore, RInv, TypeOK, Rows
<1>2. ASSUME NEW id \in Ids, Expire(id) PROVE RInv'
  BY <1>2, StationPreserves DEF Expire, RInv, TypeOK, Rows
<1>3. ASSUME NEW s \in Snapshots, DeleteSnapshot(s) PROVE RInv'
  BY <1>3, StationPreserves DEF DeleteSnapshot, RInv, TypeOK
<1>4. ASSUME NEW message \in delayed, Arrive(message) PROVE RInv'
  <2>1. message.id \in Ids /\ message.status \in Statuses
    BY DEF RInv, TypeOK
  <2>2. message.status = "completed" => message.id \in restored
    BY DEF RInv, CompletedIsSent
  <2>3. row' = Decided(message.id, message.status)
    BY <1>4 DEF Arrive
  <2>4. /\ row' \in [Ids -> Rows]
        /\ \A i \in Ids : \/ row'[i] = row[i]
                          \/ i = message.id /\ row[i] \in Open /\ row'[i] = message.status
    BY <2>1, <2>3, DecidedChanges DEF RInv
  <2>5. /\ UNCHANGED <<scout, history, count>>
        /\ stored' \subseteq Snapshots
        /\ delayed' \subseteq delayed
    BY <1>4 DEF Arrive, RInv, TypeOK
  <2> QED BY <2>1, <2>2, <2>4, <2>5, StationPreserves
<1> QED BY <1>1, <1>2, <1>3, <1>4

-----------------------------------------------------------------------------
(* Scout *)

\* An operation that ends, whatever it has told Station.
LEMMA EndPreserves ==
  ASSUME RInv, operation # NoOperation,
         NEW what \in {"error", "expired", "rejected", "restored"}, Answer(what),
         UNCHANGED <<stored, folder, restored>>,
         count' \in [Events -> Nat],
         delayed' \subseteq [id : Ids, status : Statuses],
         \A m \in delayed' : m.status = "completed" => m.id \in restored,
         row' \in [Ids -> Rows],
         \A i \in Ids : \/ row'[i] = row[i]
                        \/ row[i] \in Open /\ row'[i] \in Statuses /\ (row'[i] = "completed" => i \in restored),
         what = "rejected" => row'[operation.id] \notin Open
  PROVE  RInv'
<1>1. operation \in Operations
  BY DEF RInv, TypeOK
<1>2. /\ operation' = NoOperation /\ left' = {}
      /\ began' \in [Files -> Snapshots \cup {"local"}] /\ edited' = {}
      /\ answer' \in {"nothing", "error", "expired", "rejected", "restored"}
      /\ dismissed' \subseteq Ids
      /\ \A id \in dismissed' : id \in dismissed \/ (id = operation.id /\ what = "rejected")
  BY <1>1, AnswerEnds DEF RInv, TypeOK, Operations
<1>3. TypeOK'
  BY <1>2 DEF RInv, TypeOK
<1>4. DismissedIsSettled'
  <2>1. row[operation.id] # "none" /\ operation.id \in Ids
    BY <1>1 DEF RInv, Known, Operations
  <2> QED BY <1>2, <2>1 DEF RInv, DismissedIsSettled, At, Open, Statuses, Rows
<1>5. CompletedIsRestored' /\ CompletedIsSent'
  BY <1>2 DEF RInv, CompletedIsRestored, CompletedIsSent, At
<1>6. Known' /\ ExtractedIsRight'
  BY <1>2 DEF Known, ExtractedIsRight, At
<1> QED BY <1>3, <1>4, <1>5, <1>6 DEF RInv

\* What each status reports is true, and the operation's place stands for it.
LEMMA Reported ==
  ASSUME RInv, operation # NoOperation, operation.at \in DOMAIN StatusOf
  PROVE  /\ operation \in Operations /\ operation.id \in Ids
         /\ StatusOf[operation.at] \in Statuses
         /\ StatusOf[operation.at] = "completed" => operation.id \in restored
         /\ operation.at = "reject" => StatusOf[operation.at] = "rejected"
         /\ operation.at \in {"reject", "accept", "complete"}
<1>1. operation.at \in {"reject", "accept", "complete"}
  BY DEF StatusOf
<1>2. StatusOf[operation.at] = "completed" => At("complete")
  BY <1>1 DEF StatusOf, At
<1> QED BY <1>1, <1>2 DEF RInv, TypeOK, Operations, CompletedIsSent, StatusOf, Statuses

\* The row after a call that has reached Station.
LEMMA RowAfterCall ==
  ASSUME RInv, operation # NoOperation, operation.at \in DOMAIN StatusOf,
         row' = Decided(operation.id, StatusOf[operation.at])
  PROVE  /\ row' \in [Ids -> Rows]
         /\ \A i \in Ids : \/ row'[i] = row[i]
                           \/ row[i] \in Open /\ row'[i] \in Statuses /\ (row'[i] = "completed" => i \in restored)
         /\ operation.at = "reject" => row'[operation.id] \notin Open
BY Reported, DecidedChanges DEF RInv

LEMMA DecideStep == RInv /\ Decide => RInv'
<1> SUFFICES ASSUME RInv, Decide PROVE RInv'
  OBVIOUS
<1>1. /\ operation # NoOperation /\ operation.at \in DOMAIN StatusOf
      /\ row' = Decided(operation.id, StatusOf[operation.at])
      /\ UNCHANGED <<stored, delayed, folder, restored, count>>
  BY DEF Decide
<1>2. operation.at \in {"reject", "accept", "complete"} /\ operation \in Operations
  BY <1>1, Reported
<1>3. ASSUME NEW what \in {"error", "expired", "rejected", "restored"}, Answer(what),
             what = "rejected" => operation.at = "reject"
      PROVE  RInv'
  BY <1>1, <1>3, RowAfterCall, EndPreserves DEF RInv, TypeOK, CompletedIsSent
<1>4. CASE At("accept") /\ MayBecome(row[operation.id], "accepted")
  <2>1. StatusOf[operation.at] = "accepted"
    BY <1>4 DEF At, StatusOf
  <2>2. Go("download") /\ UNCHANGED <<left, answer, dismissed, began, edited>>
    BY <1>4, <2>1 DEF Decide, AfterDecision, At, ended
  <2>3. /\ operation' \in Operations /\ operation'.id = operation.id /\ operation'.at = "download"
        /\ operation' # NoOperation
    BY <1>2, <2>2, NoOperationAssumption DEF Go, Operations, Places
  <2>4. operation.id \in Ids /\ row[operation.id] \in Open
    BY <1>2, <1>4 DEF MayBecome, Open, Operations
  <2>5. operation.id \notin dismissed
    BY <2>4 DEF RInv, DismissedIsSettled, Open
  <2>6. TypeOK'
    BY <1>1, <2>2, <2>3, RowAfterCall DEF RInv, TypeOK
  <2>7. CompletedIsRestored' /\ CompletedIsSent'
    BY <1>1, <2>3, RowAfterCall DEF RInv, CompletedIsRestored, CompletedIsSent, At
  <2>8. DismissedIsSettled'
    BY <1>1, <2>2, <2>3, <2>5, RowAfterCall DEF RInv, TypeOK, DismissedIsSettled, At, Open
  <2>9. Known' /\ ExtractedIsRight'
    BY <1>1, <2>3, <2>4, RowAfterCall DEF RInv, Known, ExtractedIsRight, At, Open, Statuses
  <2> QED BY <2>6, <2>7, <2>8, <2>9 DEF RInv
<1>5. CASE At("accept") /\ ~MayBecome(row[operation.id], "accepted")
  <2>1. StatusOf[operation.at] = "accepted"
    BY <1>5 DEF At, StatusOf
  <2>2. Answer("expired")
    BY <1>5, <2>1 DEF Decide, AfterDecision, At
  <2> QED BY <2>2, <1>3
<1>6. CASE At("reject")
  <2>1. Answer("rejected")
    BY <1>6 DEF Decide, AfterDecision, At
  <2> QED BY <2>1, <1>3, <1>6 DEF At
<1>7. CASE At("complete")
  <2>1. Answer("restored") \/ Answer("error")
    BY <1>7 DEF Decide, AfterDecision, At
  <2> QED BY <2>1, <1>3
<1> QED BY <1>1, <1>2, <1>4, <1>5, <1>6, <1>7 DEF At

LEMMA TroubleStep == RInv /\ Trouble => RInv'
<1> SUFFICES ASSUME RInv, Trouble PROVE RInv'
  OBVIOUS
<1>1. CASE RefuseDestination
  BY <1>1, EndPreserves DEF RefuseDestination, At, RInv, TypeOK, CompletedIsSent, station
<1>2. CASE DecideUnheard
  <2>1. /\ Answer("error") /\ operation # NoOperation
        /\ count' \in [Events -> Nat]
        /\ UNCHANGED <<stored, delayed, folder, restored>>
    BY <1>2, CountType DEF DecideUnheard, RInv, Events
  <2>2. /\ row' \in [Ids -> Rows]
        /\ \A i \in Ids : \/ row'[i] = row[i]
                          \/ row[i] \in Open /\ row'[i] \in Statuses /\ (row'[i] = "completed" => i \in restored)
    BY <1>2, RowAfterCall DEF DecideUnheard
  <2> QED BY <2>1, <2>2, EndPreserves DEF RInv, TypeOK, CompletedIsSent
<1>3. CASE DecideLate
  <2>1. /\ Answer("error") /\ operation # NoOperation
        /\ count' \in [Events -> Nat]
        /\ UNCHANGED <<row, stored, folder, restored>>
    BY <1>3, CountType DEF DecideLate, RInv, Events, station
  <2>2. /\ delayed' \subseteq [id : Ids, status : Statuses]
        /\ \A m \in delayed' : m.status = "completed" => m.id \in restored
    BY <1>3, Reported DEF DecideLate, RInv, TypeOK, CompletedIsSent
  <2> QED BY <2>1, <2>2, EndPreserves DEF RInv, TypeOK
<1>4. CASE Fail
  <2>1. /\ Answer("error") /\ operation # NoOperation
        /\ count' \in [Events -> Nat]
        /\ UNCHANGED <<row, stored, delayed, folder, restored>>
    BY <1>4, CountType DEF Fail, RInv, Events, station
  <2> QED BY <2>1, EndPreserves DEF RInv, TypeOK, CompletedIsSent
<1>5. CASE Restart
  <2>1. /\ count' \in [Events -> Nat] /\ operation' = NoOperation /\ left' = {}
        /\ began' \in [Files -> Snapshots \cup {"local"}] /\ edited' = {}
    BY <1>5, CountType DEF Restart, RInv, Events, Over, NoFolder
  <2> QED BY <1>5, <2>1 DEF Restart, RInv, TypeOK, CompletedIsRestored, CompletedIsSent,
               DismissedIsSettled, Known, ExtractedIsRight, At, station, history
<1> QED BY <1>1, <1>2, <1>3, <1>4, <1>5 DEF Trouble

LEMMA BeginStep ==
  ASSUME RInv, NEW id \in Ids, NEW decision \in {"accept", "reject"}, Begin(id, decision)
  PROVE  RInv'
<1>1. operation' = [id |-> id, decision |-> decision, at |-> "list"]
  BY DEF Begin
<1>2. operation' \in Operations /\ operation'.at = "list" /\ operation'.id = id
  BY <1>1 DEF Operations, Places
<1>3. operation' # NoOperation
  BY <1>2, NoOperationAssumption
<1>4. row[id] # "none" /\ left = {}
  BY DEF Begin, RInv, TypeOK
<1> QED BY <1>2, <1>3, <1>4 DEF Begin, RInv, TypeOK, CompletedIsRestored, CompletedIsSent,
             DismissedIsSettled, Known, ExtractedIsRight, At, station

LEMMA ListStep == RInv /\ List => RInv'
<1> SUFFICES ASSUME RInv, List PROVE RInv'
  OBVIOUS
<1>1. operation \in Operations /\ operation # NoOperation
  BY DEF List, At, RInv, TypeOK
<1>2. CASE row[operation.id] \in Open
  <2>1. operation'.at = operation.decision /\ operation'.id = operation.id /\ operation' \in Operations
    BY <1>1, <1>2 DEF List, Go, Operations, Places
  <2>2. operation' # NoOperation /\ operation'.at \in {"accept", "reject"}
    BY <1>1, <2>1, NoOperationAssumption DEF Operations
  <2> QED BY <1>2, <2>1, <2>2 DEF List, RInv, TypeOK, CompletedIsRestored, CompletedIsSent,
               DismissedIsSettled, Known, ExtractedIsRight, At, station, ended
<1>3. CASE row[operation.id] \notin Open
  <2>1. PICK what \in {"rejected", "expired"} : Answer(what)
    BY <1>3 DEF List, AnswerGone
  <2>2. /\ UNCHANGED <<row, stored, delayed, folder, restored, count>>
        /\ delayed' \subseteq [id : Ids, status : Statuses]
        /\ \A m \in delayed' : m.status = "completed" => m.id \in restored
    BY DEF List, station, RInv, TypeOK, CompletedIsSent
  <2> QED BY <1>1, <1>3, <2>1, <2>2, EndPreserves DEF RInv, TypeOK
<1> QED BY <1>2, <1>3

LEMMA ListUnconfiguredStep == RInv /\ ListUnconfigured => RInv'
<1> SUFFICES ASSUME RInv, ListUnconfigured PROVE RInv'
  OBVIOUS
<1>1. /\ operation' = NoOperation /\ left' = {}
      /\ began' \in [Files -> Snapshots \cup {"local"}] /\ edited' = {}
      /\ answer' \in {"rejected", "expired"}
  BY DEF ListUnconfigured, Over, NoFolder, AnswerGone
<1> QED BY <1>1 DEF ListUnconfigured, RInv, TypeOK, CompletedIsRestored, CompletedIsSent,
             DismissedIsSettled, Known, ExtractedIsRight, At, station

LEMMA DownloadStep == RInv /\ Download => RInv'
<1> SUFFICES ASSUME RInv, Download PROVE RInv'
  OBVIOUS
<1>1. operation \in Operations /\ operation # NoOperation /\ At("download")
  BY DEF Download, At, RInv, TypeOK
<1>2. CASE Downloadable(operation.id)
  <2>1. /\ operation'.at = "extract" /\ operation'.id = operation.id /\ operation' \in Operations
        /\ left' = Wanted /\ began' = folder
    BY <1>1, <1>2 DEF Download, Go, Operations, Places, Wanted
  <2>2. operation' # NoOperation
    BY <2>1, NoOperationAssumption
  <2>3. left' \subseteq Files /\ Wanted' = Wanted
    BY <1>1, <2>1, RestoreAssumption DEF Operations, Wanted
  <2> QED BY <1>1, <1>2, <2>1, <2>2, <2>3 DEF Download, RInv, TypeOK, CompletedIsRestored,
               CompletedIsSent, DismissedIsSettled, Known, ExtractedIsRight, At, station
<1>3. CASE ~Downloadable(operation.id)
  <2>1. Answer("error") /\ UNCHANGED <<row, stored, delayed, folder, restored, count>>
    BY <1>3 DEF Download, station
  <2> QED BY <1>1, <2>1, EndPreserves DEF RInv, TypeOK, CompletedIsSent
<1> QED BY <1>2, <1>3

LEMMA ExtractStep ==
  ASSUME RInv, \E f \in Files : Extract(f) \/ EditFolder(f)
  PROVE  RInv'
<1>1. ASSUME NEW f \in Files, Extract(f) PROVE RInv'
  <2>1. operation \in Operations /\ operation # NoOperation /\ At("extract")
    BY <1>1 DEF Extract, At, RInv, TypeOK
  <2>2. SnapshotOf[operation.id] \in Snapshots
    BY <2>1, RestoreAssumption DEF Operations
  <2>3. folder' \in [Files -> Snapshots \cup {"local"}]
    BY <1>1, <2>2 DEF Extract, Extracted, RInv, TypeOK
  <2>4. left \subseteq Wanted /\ left' = left \ {f} /\ edited' = edited \ {f} /\ Wanted' = Wanted
        /\ f \in left /\ operation' = operation /\ began' = began
    BY <1>1, <2>1 DEF Extract, RInv, ExtractedIsRight, Wanted
  <2>5. \A g \in Files \ edited' :
          /\ g \in Wanted \ left' => folder'[g] = SnapshotOf[operation.id]
          /\ g \notin Wanted => folder'[g] = began[g]
    BY <1>1, <2>1, <2>4 DEF Extract, Extracted, RInv, TypeOK, ExtractedIsRight
  <2>6. ExtractedIsRight'
    BY <2>1, <2>4, <2>5 DEF ExtractedIsRight, At
  <2> QED BY <1>1, <2>1, <2>3, <2>4, <2>6 DEF Extract, RInv, TypeOK, CompletedIsRestored,
               CompletedIsSent, DismissedIsSettled, Known, At, station, history
<1>2. ASSUME NEW f \in Files, EditFolder(f) PROVE RInv'
  <2>1. UNCHANGED <<station, delayed, operation, left, answer, restored, dismissed, began, count>>
    BY <1>2 DEF EditFolder
  <2>2. TypeOK'
    BY <1>2, <2>1 DEF EditFolder, RInv, TypeOK, station
  <2>3. ExtractedIsRight'
    BY <1>2, <2>1 DEF EditFolder, RInv, TypeOK, ExtractedIsRight, At, Wanted
  <2> QED BY <2>1, <2>2, <2>3 DEF RInv, CompletedIsRestored, CompletedIsSent,
               DismissedIsSettled, Known, At, station
<1> QED BY <1>1, <1>2

LEMMA FinishStep == RInv /\ FinishExtract => RInv'
<1> SUFFICES ASSUME RInv, FinishExtract PROVE RInv'
  OBVIOUS
<1>1. operation \in Operations /\ operation # NoOperation /\ At("extract") /\ operation.id \in Ids
  BY DEF FinishExtract, At, RInv, TypeOK, Operations
<1>2. operation'.at = "complete" /\ operation'.id = operation.id /\ operation' \in Operations
  BY <1>1 DEF FinishExtract, Go, Operations, Places
<1>3. operation' # NoOperation
  BY <1>2, NoOperationAssumption
<1> QED BY <1>1, <1>2, <1>3 DEF FinishExtract, RInv, TypeOK, CompletedIsRestored, CompletedIsSent,
             DismissedIsSettled, Known, ExtractedIsRight, At, station, ended, Wanted

LEMMA RInit == Init => RInv
BY RestoreAssumption DEF Init, RInv, TypeOK, CompletedIsRestored, CompletedIsSent, DismissedIsSettled,
   Known, ExtractedIsRight, At, Rows, Events, NoFolder

LEMMA RStep == RInv /\ [Next]_vars => RInv'
<1> SUFFICES ASSUME RInv, [Next]_vars PROVE RInv'
  OBVIOUS
<1>1. CASE UNCHANGED vars
  BY <1>1 DEF vars, station, scout, history, RInv, TypeOK, CompletedIsRestored, CompletedIsSent,
       DismissedIsSettled, Known, ExtractedIsRight, At, Wanted
<1>2. CASE Next
  BY <1>2, StationStep, BeginStep, ListStep, ListUnconfiguredStep, DecideStep, DownloadStep, ExtractStep, FinishStep,
     TroubleStep DEF Next, Proceed
<1> QED BY <1>1, <1>2

-----------------------------------------------------------------------------

\* Every reachable state of a restore is well typed.
THEOREM RestoreTypeCorrect == Spec => []TypeOK
BY RInit, RStep, PTL DEF Spec, RInv

\* Station calls a request completed only when Scout has put every file in place
\* (DecideRestoreRequest of the runner, RestoreRequestStore.Decide).
THEOREM CompletedAlwaysRestored == Spec => []CompletedIsRestored
<1>1. RInv => CompletedIsRestored
  BY DEF RInv
<1> QED BY <1>1, RInit, RStep, PTL DEF Spec

\* Nothing of a request is written after a Scout that asked Station has told its user that it is
\* rejected: its row is at an end, so no acceptance of it is ever confirmed again.
THEOREM RejectedAlwaysStays == Spec => RejectedStaysRejected
<1>1. RInv /\ [Next]_vars => [\A f \in Files : Extract(f) => operation.id \notin dismissed]_vars
  BY DEF RInv, DismissedIsSettled, Extract
<1> QED BY <1>1, RInit, RStep, PTL DEF Spec, RejectedStaysRejected

\* When Scout reports success, every file of the requested snapshot is in place, whatever an earlier
\* attempt left there, and every other file is as the restore found it, but for those that their
\* owner has changed since (ExtractArchiveContext under the cycle lock).
THEOREM RestoredAlwaysExact == Spec => RestoredIsExact
<1>1. RInv /\ [Next]_vars =>
        [(At("complete") /\ answer' = "restored")
           => \A f \in Files \ edited :
                folder[f] = IF f \in FilesOf[SnapshotOf[operation.id]]
                            THEN SnapshotOf[operation.id] ELSE began[f]]_vars
  BY DEF RInv, ExtractedIsRight, Wanted
<1> QED BY <1>1, RInit, RStep, PTL DEF Spec, RestoredIsExact

-----------------------------------------------------------------------------
(* Why an operation ends. *)

\* An operation goes through its places in one direction.
Rank == [list |-> 0, reject |-> 1, accept |-> 1, download |-> 2, extract |-> 3, complete |-> 4]

\* The operation is at a later place, or there are fewer files to extract at this one.
Advanced ==
  /\ operation' \in Operations /\ operation'.id = operation.id
  /\ \/ Rank[operation'.at] > Rank[operation.at]
     \/ operation'.at = operation.at /\ left' \subseteq left /\ left' # left

OperationAdvances ==
  operation # NoOperation =>
    \/ operation' = NoOperation
    \/ Advanced
    \/ ~Proceed /\ UNCHANGED <<operation, left>>

LEMMA ProceedAdvances ==
  ASSUME TypeOK, Proceed
  PROVE  operation' = NoOperation \/ Advanced
<1>1. CASE List
  <2>1. operation \in Operations /\ operation.at = "list" BY <1>1 DEF List, At, TypeOK
  <2>2. CASE Go(operation.decision)
    <3>1. operation' \in Operations /\ operation'.id = operation.id /\ operation'.at \in {"accept", "reject"}
      BY <2>1, <2>2 DEF Go, Operations, Places
    <3> QED BY <2>1, <3>1 DEF Advanced, Rank
  <2> QED BY <1>1, <2>2 DEF List, Answer, Over
<1>2. CASE Decide
  <2>1. operation \in Operations /\ operation.at \in {"reject", "accept", "complete"}
    BY <1>2 DEF Decide, StatusOf, TypeOK
  <2>2. CASE operation.at = "accept" /\ Go("download")
    <3>1. operation' \in Operations /\ operation'.id = operation.id /\ operation'.at = "download"
      BY <2>1, <2>2 DEF Go, Operations, Places
    <3> QED BY <2>2, <3>1 DEF Advanced, Rank
  <2>3. (operation.at = "accept" /\ Go("download")) \/ operation' = NoOperation
    BY <1>2, <2>1 DEF Decide, AfterDecision, Answer, Over, At
  <2> QED BY <2>2, <2>3
<1>3. CASE Download
  <2>1. operation \in Operations /\ operation.at = "download" BY <1>3 DEF Download, At, TypeOK
  <2>2. CASE Go("extract")
    <3>1. operation' \in Operations /\ operation'.id = operation.id /\ operation'.at = "extract"
      BY <2>1, <2>2 DEF Go, Operations, Places
    <3> QED BY <2>1, <3>1 DEF Advanced, Rank
  <2> QED BY <1>3, <2>2 DEF Download, Answer, Over
<1>4. CASE FinishExtract
  <2>1. operation \in Operations /\ operation.at = "extract" BY <1>4 DEF FinishExtract, At, TypeOK
  <2>2. operation' \in Operations /\ operation'.id = operation.id /\ operation'.at = "complete"
    BY <1>4, <2>1 DEF FinishExtract, Go, Operations, Places
  <2> QED BY <2>1, <2>2 DEF Advanced, Rank
<1>5. CASE \E f \in Files : Extract(f)
  <2>1. PICK f \in Files : Extract(f) BY <1>5
  <2>2. operation \in Operations /\ operation' = operation /\ f \in left /\ left' = left \ {f}
    BY <2>1 DEF Extract, At, TypeOK
  <2> QED BY <2>2 DEF Advanced
<1>6. CASE ListUnconfigured
  BY <1>6 DEF ListUnconfigured, Over
<1> QED BY <1>1, <1>2, <1>3, <1>4, <1>5, <1>6 DEF Proceed

\* Every step of DecideRestoreRequest ends the operation, takes it to a later place, or extracts one
\* more file; whatever else happens ends it or leaves it as it is. A decision that Station refuses is
\* never repeated, so with the weak fairness of its steps the cycle lock is released (OperationEnds).
THEOREM OperationsAdvance == Spec => [][OperationAdvances]_vars
<1>1. TypeOK /\ [Next]_vars => [OperationAdvances]_vars
  <2>1. ASSUME TypeOK, Proceed PROVE OperationAdvances
    BY <2>1, ProceedAdvances DEF OperationAdvances
  <2>2. ASSUME Trouble PROVE operation' = NoOperation
    BY <2>2 DEF Trouble, RefuseDestination, DecideUnheard, DecideLate, Fail, Restart, Answer, Over
  <2>3. ASSUME NEW id \in Ids, NEW decision \in {"accept", "reject"}, Begin(id, decision)
        PROVE  operation = NoOperation
    BY <2>3 DEF Begin
  <2>4. ASSUME NEW id \in Ids, RequestRestore(id) \/ Expire(id) PROVE UNCHANGED <<operation, left>>
    BY <2>4 DEF RequestRestore, Expire, scout
  <2>5. ASSUME NEW s \in Snapshots, DeleteSnapshot(s) PROVE UNCHANGED <<operation, left>>
    BY <2>5 DEF DeleteSnapshot, scout
  <2>6. ASSUME NEW m \in delayed, Arrive(m) PROVE UNCHANGED <<operation, left>>
    BY <2>6 DEF Arrive, scout
  <2>7. ASSUME NEW f \in Files, EditFolder(f) PROVE UNCHANGED <<operation, left>>
    BY <2>7 DEF EditFolder
  <2>8. ASSUME TypeOK, Next PROVE OperationAdvances
    BY <2>1, <2>2, <2>3, <2>4, <2>5, <2>6, <2>7, <2>8 DEF Next, OperationAdvances
  <2> QED BY <2>8
<1> QED BY <1>1, RestoreTypeCorrect, PTL DEF Spec
=============================================================================
