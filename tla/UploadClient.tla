---------------------------- MODULE UploadClient ----------------------------
(***************************************************************************)
(* Scout's upload of ONE staged backup to Station over a network that      *)
(* loses and delays requests: UploadArchive with its retries and its       *)
(* circuit breaker (app/scout/internal/services/upload/upload.go), and the *)
(* job runner around it, which calls UploadArchive again with the offset   *)
(* it saved (uploadPendingArchive, runner/runner.go).                      *)
(*                                                                         *)
(* Station is what a client can tell of StartUpload, AppendChunk and       *)
(* FinalizeUpload (station/internal/ingest/ingest.go): each is one step    *)
(* here; UploadIngest has their interleavings.  A request is answered,     *)
(* lost, or delayed: then the client has its timeout and Station handles   *)
(* the request whenever it arrives.  Archives are counted in blocks, and   *)
(* "damaged" says that a staged block is not what was sent.                *)
(*                                                                         *)
(* Delays are left out: a wait is a state from which time alone goes on.   *)
(* Large-upload approval is in JobRunner.                                  *)
(***************************************************************************)
EXTENDS Integers

CONSTANTS
  Blocks,            \* size of the archive, in blocks
  MinChunk,          \* minChunkSizeBytes, in blocks
  MaxChunk,          \* maxChunkSizeBytes, in blocks
  MaxRetryAttempts,  \* UploadRetryMaxAttempts
  FailureThreshold,  \* CircuitBreakerFailureThreshold
  Ids,               \* upload ids; an id of a session long gone may be handed out again
  NoId,
  MaxDelayed,        \* bound: requests that arrive after the client gave up on them
  MaxOthers,         \* bound: failures of other requests to Station
  MaxDamaged,        \* bound: chunks that are damaged on their way
  MaxExpiries,       \* bound: sessions whose lifetime runs out
  MaxInterruptions   \* bound: cancellations and restarts of Scout

ASSUME SizesAssumption ==
  /\ Blocks \in Nat \ {0}
  /\ MinChunk \in Nat \ {0}
  /\ MaxChunk \in Nat
  /\ MinChunk <= MaxChunk
ASSUME LimitsAssumption ==
  /\ MaxRetryAttempts \in Nat \ {0}
  /\ FailureThreshold \in Nat \ {0}
  /\ NoId \notin Ids
ASSUME BoundsAssumption ==
  /\ MaxDelayed \in Nat
  /\ MaxOthers \in Nat
  /\ MaxDamaged \in Nat
  /\ MaxExpiries \in Nat
  /\ MaxInterruptions \in Nat

VARIABLES
  keep,      \* the setting KeepLocalPending
  call,      \* the call of UploadArchive under way
  saved,     \* what the job state keeps of the upload between calls
  breaker,   \* the circuit breaker
  station,   \* the upload session Station has for the archive's idempotency key
  stored,    \* whether the backup root has the archive
  delayed,   \* requests still on their way
  budget     \* how much of each bound is left

vars == <<keep, call, saved, breaker, station, stored, delayed, budget>>

-----------------------------------------------------------------------------
(* State *)

Smaller(a, b) == IF a < b THEN a ELSE b
Larger(a, b)  == IF a > b THEN a ELSE b

Phases    == {"initiate", "chunk", "reconcile", "finalize"}
Outcomes  == {"none", "success", "retry", "manual"}

\* tries counts the failures of retryPhase, attempt those of the chunk loop.
Call == [pc : {"idle"} \cup Phases, id : Ids \cup {NoId}, offset : 0..Blocks,
         chunk : 0..MaxChunk, streak : 0..1, attempt : 0..(MaxRetryAttempts - 1),
         tries : 0..(MaxRetryAttempts - 1)]

NoCall == [pc |-> "idle", id |-> NoId, offset |-> 0, chunk |-> 0, streak |-> 0,
           attempt |-> 0, tries |-> 0]

\* UploadOffset, CurrentChunkSizeBytes (0 when there is none) and how the last call ended.
Saved    == [offset : 0..Blocks, chunk : 0..MaxChunk, outcome : Outcomes]
NewSaved == [offset |-> 0, chunk |-> 0, outcome |-> "none"]

Session   == [id : Ids \cup {NoId}, completed : BOOLEAN, size : 0..Blocks, damaged : BOOLEAN]
NoSession == [id |-> NoId, completed |-> FALSE, size |-> 0, damaged |-> FALSE]

Requests == [pc : {"chunk"}, id : Ids, offset : 0..Blocks, blocks : 1..MaxChunk]
       \cup [pc : {"finalize"}, id : Ids, offset : {Blocks}, blocks : {0}]

Spend(b) == budget[b] > 0 /\ budget' = [budget EXCEPT ![b] = @ - 1]

Init ==
  /\ keep    \in BOOLEAN
  /\ call    = NoCall
  /\ saved   = NewSaved
  /\ breaker = [failures |-> 0, state |-> "closed"]
  /\ station = NoSession
  /\ stored  = FALSE
  /\ delayed = {}
  /\ budget  = [delayed |-> MaxDelayed, others |-> MaxOthers, damaged |-> MaxDamaged, expiries |-> MaxExpiries,
                interruptions |-> MaxInterruptions]

-----------------------------------------------------------------------------
(* The circuit breaker *)

AllowedNever(b) == b.state = "closed"
\* BeforeRequest: an open breaker refuses until its cooldown is over.
Allowed(b) == b.state # "open"
Entered(b) == [b EXCEPT !.state = "closed"]

RecordSuccess == [failures |-> 0, state |-> "closed"]

\* Past the threshold the count no longer matters; it is capped there.
RecordFailure(b) ==
  LET failures == Smaller(b.failures + 1, FailureThreshold)
  IN [failures |-> failures,
      state |-> IF failures >= FailureThreshold THEN "open" ELSE b.state]

\* The cooldown ends; the count of failures stays.
Cooldown ==
  /\ breaker.state = "open"
  /\ breaker' = [breaker EXCEPT !.state = "cool"]
  /\ UNCHANGED <<keep, call, saved, station, stored, delayed, budget>>

\* Another request of the same client, such as the list of restore requests.
OtherRequest ==
  /\ Allowed(breaker)
  /\ \/ breaker' = RecordSuccess /\ UNCHANGED budget
     \/ breaker' = RecordFailure(Entered(breaker)) /\ Spend("others")
  /\ UNCHANGED <<keep, call, saved, station, stored, delayed>>

-----------------------------------------------------------------------------
(* The ends of a call *)

Return(outcome) ==
  /\ call' = NoCall
  /\ saved' = [saved EXCEPT !.outcome = outcome]

\* A retryable failure, after which Station has session s.  Without KeepLocalPending the archive
\* is discarded, and the next cycle builds another one, with an idempotency key that Station
\* has no session for.
GiveUp(s) ==
  /\ call' = NoCall
  /\ IF keep
     THEN /\ saved' = [saved EXCEPT !.outcome = "retry"]
          /\ station' = s
          /\ UNCHANGED stored
     ELSE /\ saved' = [NewSaved EXCEPT !.outcome = "retry"]
          /\ station' = NoSession
          /\ stored' = FALSE
ReturnRetry == GiveUp(station)

\* retryPhaseContext gives up after maxRetryAttempts failures of the same operation.
RetryPhase ==
  IF call.tries + 1 >= MaxRetryAttempts
  THEN ReturnRetry
  ELSE /\ call' = [call EXCEPT !.tries = @ + 1]
       /\ UNCHANGED <<saved, station, stored>>

RetryChunkForEver ==
  /\ call' = [call EXCEPT !.pc = "reconcile", !.attempt = 0, !.tries = 0]
  /\ UNCHANGED <<saved, station, stored>>
RetryChunkAsSent ==
  IF call.attempt + 1 >= MaxRetryAttempts
  THEN ReturnRetry
  ELSE /\ call' = [call EXCEPT !.pc = "reconcile", !.attempt = @ + 1, !.tries = 0,
                               !.offset = Smaller(@ + call.chunk, Blocks)]
       /\ UNCHANGED <<saved, station, stored>>
\* So does the chunk loop; before it tries again it asks Station where it is.
RetryChunk ==
  IF call.attempt + 1 >= MaxRetryAttempts
  THEN ReturnRetry
  ELSE /\ call' = [call EXCEPT !.pc = "reconcile", !.attempt = @ + 1, !.tries = 0]
       /\ UNCHANGED <<saved, station, stored>>

Retry == IF call.pc = "chunk" THEN RetryChunk ELSE RetryPhase

\* The progress callback: the runner saves the offset and the chunk size.
Progress(c) ==
  /\ call'  = c
  /\ saved' = [saved EXCEPT !.offset = c.offset, !.chunk = c.chunk]

NextPhase(offset) == IF offset < Blocks THEN "chunk" ELSE "finalize"

-----------------------------------------------------------------------------
(* What Station makes of a request *)

IdsInUse == {station.id, call.id} \cup {r.id : r \in delayed}

\* StartUpload: a session of the key goes on, a stored archive is reported as a duplicate,
\* and otherwise there is a new session.
Initiated ==
  IF station.id # NoId \/ stored
  THEN {station}
  ELSE {[NoSession EXCEPT !.id = i] : i \in Ids \ IdsInUse}

InitiateReply(s) ==
  [completed |-> s.completed \/ (s.id = NoId /\ stored),
   id |-> s.id,
   next |-> IF s.completed \/ s.id = NoId THEN Blocks ELSE s.size]

\* AppendChunk appends at the end of the staged data, and only there.
Appendable(r) == station.id = r.id /\ ~station.completed /\ station.size = r.offset
Appended(r, n, damage) ==
  IF Appendable(r)
  THEN [station EXCEPT !.size = @ + n, !.damaged = @ \/ damage]
  ELSE station

\* FinalizeUpload: data with another checksum is thrown away.
Complete(r)   == station.id = r.id /\ ~station.completed /\ station.size = Blocks
Finalized(r)  ==
  IF ~Complete(r) THEN station
  ELSE IF station.damaged THEN [station EXCEPT !.size = 0, !.damaged = FALSE]
  ELSE [station EXCEPT !.completed = TRUE]

ChunkRequest    == [pc |-> "chunk", id |-> call.id, offset |-> call.offset,
                    blocks |-> Smaller(call.chunk, Blocks - call.offset)]
FinalizeRequest == [pc |-> "finalize", id |-> call.id, offset |-> Blocks, blocks |-> 0]
Request == IF call.pc = "chunk" THEN ChunkRequest ELSE FinalizeRequest

\* A chunk is cut short when the connection breaks: Station keeps what has arrived.
Handle(r) ==
  IF r.pc = "finalize"
  THEN /\ station' = Finalized(r)
       /\ stored' = (stored \/ (Complete(r) /\ ~station.damaged))
       /\ UNCHANGED budget
  ELSE /\ \E n \in 1..r.blocks, damage \in BOOLEAN :
            /\ station' = Appended(r, n, damage)
            /\ IF damage /\ Appendable(r) THEN Spend("damaged") ELSE UNCHANGED budget
       /\ UNCHANGED stored

-----------------------------------------------------------------------------
(* Requests that are not answered *)

\* The breaker refuses, and nothing is sent.
Refused ==
  /\ call.pc # "idle"
  /\ ~Allowed(breaker)
  /\ Retry
  /\ UNCHANGED <<keep, breaker, delayed, budget>>

Failed == Allowed(breaker) /\ breaker' = RecordFailure(Entered(breaker))

\* No connection, or an answer 408, 425, 429 or 5xx: Station has done nothing.
Lost ==
  /\ call.pc # "idle"
  /\ Failed
  /\ Retry
  /\ UNCHANGED <<keep, delayed, budget>>

\* The client has its timeout while the request is on its way.
Delay ==
  /\ call.pc \in {"chunk", "finalize"}
  /\ Failed
  /\ Retry
  /\ delayed' = delayed \cup {Request}
  /\ Spend("delayed")
  /\ UNCHANGED keep

\* A delayed request arrives.
Arrive ==
  /\ \E r \in delayed :
       /\ Handle(r)
       /\ delayed' = delayed \ {r}
  /\ UNCHANGED <<keep, call, saved, breaker>>

-----------------------------------------------------------------------------
(* Requests that are answered *)

Answered == Allowed(breaker) /\ breaker' = RecordSuccess

\* initialChunkSize: the size of the last chunk, or else what Station recommends, within limits.
InitialChunks ==
  {Smaller(Larger(c, MinChunk), Blocks) : c \in IF saved.chunk = 0 THEN MinChunk..MaxChunk ELSE {saved.chunk}}

ResumeFrom(reply) == Larger(saved.offset, reply.next)
InitiateAnswered ==
  /\ call.pc = "initiate"
  /\ Answered
  /\ \E s \in Initiated :
       LET reply  == InitiateReply(s)
           offset == ResumeFrom(reply)
       IN /\ station' = s
          /\ IF reply.completed
             THEN Return("success")
             ELSE \E chunk \in InitialChunks :
                    Progress([NoCall EXCEPT !.pc = NextPhase(offset), !.id = reply.id,
                                            !.offset = offset, !.chunk = chunk])
  /\ UNCHANGED <<keep, stored, delayed, budget>>

\* Two chunks in a row double the chunk size.
Streak(c) ==
  IF c.streak = 1
  THEN [c EXCEPT !.streak = 0, !.chunk = Smaller(MaxChunk, 2 * @)]
  ELSE [c EXCEPT !.streak = 1]

ChunkAccepted ==
  /\ call.pc = "chunk"
  /\ Answered
  /\ LET r == ChunkRequest
         offset == IF station.completed THEN Blocks ELSE r.offset + r.blocks
     IN /\ station.id = r.id
        /\ station.completed \/ Appendable(r)
        /\ \E damage \in BOOLEAN :
             /\ station' = Appended(r, r.blocks, damage)
             /\ IF damage /\ Appendable(r) THEN Spend("damaged") ELSE UNCHANGED budget
        /\ Progress([Streak(call) EXCEPT !.pc = NextPhase(offset), !.offset = offset, !.attempt = 0])
  /\ UNCHANGED <<keep, stored, delayed>>

\* 409: Station is elsewhere.  Only an offset ahead of the client's own is taken over.
ChunkMismatch ==
  /\ call.pc = "chunk"
  /\ Answered
  /\ station.id = call.id
  /\ ~station.completed
  /\ station.size # call.offset
  /\ IF station.size > call.offset
     THEN /\ Progress([call EXCEPT !.pc = NextPhase(station.size), !.offset = station.size,
                                   !.streak = 0, !.attempt = 0])
          /\ UNCHANGED <<station, stored>>
     ELSE RetryChunk
  /\ UNCHANGED <<keep, delayed, budget>>

\* StartUpload again: a session that is new has another id, which the client does not take over.
ReconcileAnswered ==
  /\ call.pc = "reconcile"
  /\ Answered
  /\ \E s \in Initiated :
       LET offset == Larger(call.offset, InitiateReply(s).next)
           smaller == IF call.chunk > 2 * MinChunk THEN call.chunk \div 2 ELSE MinChunk
       IN /\ station' = s
          /\ Progress([call EXCEPT !.pc = NextPhase(offset), !.offset = offset,
                                   !.chunk = smaller, !.tries = 0])
  /\ UNCHANGED <<keep, stored, delayed, budget>>

FinalizeAcceptedUnchecked ==
  /\ call.pc = "finalize"
  /\ Answered
  /\ station.id = call.id
  /\ station' = Finalized(FinalizeRequest)
  /\ stored' = (stored \/ (Complete(FinalizeRequest) /\ ~station.damaged))
  /\ Return("success")
  /\ UNCHANGED <<keep, delayed, budget>>
FinalizeAccepted ==
  /\ call.pc = "finalize"
  /\ Answered
  /\ station.id = call.id
  /\ station.completed \/ (Complete(FinalizeRequest) /\ ~station.damaged)
  /\ station' = Finalized(FinalizeRequest)
  /\ stored' = (stored \/ Complete(FinalizeRequest))
  /\ Return("success")
  /\ UNCHANGED <<keep, delayed, budget>>

\* 409: another checksum, or data that is incomplete.  Both are retryable.
FinalizeConflict ==
  /\ call.pc = "finalize"
  /\ Answered
  /\ station.id = call.id
  /\ ~station.completed
  /\ \/ /\ station.size # Blocks
        /\ RetryPhase
     \/ /\ Complete(FinalizeRequest)
        /\ station.damaged
        /\ IF call.tries + 1 >= MaxRetryAttempts
           THEN GiveUp(Finalized(FinalizeRequest))
           ELSE /\ call' = [call EXCEPT !.tries = @ + 1]
                /\ station' = Finalized(FinalizeRequest)
                /\ UNCHANGED <<saved, stored>>
  /\ UNCHANGED <<keep, delayed, budget>>

\* 404: the session is gone.  That is not retryable, and the operator has to step in.
SessionGone ==
  /\ call.pc \in {"chunk", "finalize"}
  /\ Answered
  /\ station.id # call.id
  /\ Return("manual")
  /\ UNCHANGED <<keep, station, stored, delayed, budget>>

-----------------------------------------------------------------------------
(* The runner, the operator and the passage of time *)

\* The next cycle finds the staged backup due.
Begin ==
  /\ call.pc = "idle"
  /\ saved.outcome \in {"none", "retry"}
  /\ call' = [NoCall EXCEPT !.pc = "initiate"]
  /\ UNCHANGED <<keep, saved, breaker, station, stored, delayed, budget>>

\* The operator sends a backup that waits for manual intervention.
ForceSend ==
  /\ call.pc = "idle"
  /\ saved.outcome = "manual"
  /\ call' = [NoCall EXCEPT !.pc = "initiate"]
  /\ saved' = [saved EXCEPT !.outcome = "none"]
  /\ UNCHANGED <<keep, breaker, station, stored, delayed, budget>>

\* The operation is cancelled, or Scout stops: the archive stays staged.  A new process has a
\* new circuit breaker.
Interrupt ==
  /\ call.pc # "idle"
  /\ call' = NoCall
  /\ breaker' \in {breaker, RecordSuccess}
  /\ Spend("interruptions")
  /\ UNCHANGED <<keep, saved, station, stored, delayed>>

\* CleanupStaleUploads removes the session and what it has staged.
Expire ==
  /\ station.id # NoId
  /\ station' = NoSession
  /\ Spend("expiries")
  /\ UNCHANGED <<keep, call, saved, breaker, stored, delayed>>

-----------------------------------------------------------------------------

UploadArchive ==
  \/ Refused \/ Lost \/ Delay
  \/ InitiateAnswered \/ ReconcileAnswered
  \/ ChunkAccepted \/ ChunkMismatch
  \/ FinalizeAccepted \/ FinalizeConflict
  \/ SessionGone

Next ==
  \/ UploadArchive
  \/ Begin \/ ForceSend \/ Interrupt
  \/ Arrive \/ Expire
  \/ Cooldown \/ OtherRequest

Spec == Init /\ [][Next]_vars

\* A call runs on, a cooldown ends, and cycles come again.
FairSpec == Spec /\ WF_vars(UploadArchive) /\ WF_vars(Begin) /\ WF_vars(Cooldown)

\* A network that answers again and again when it is asked again and again.
FairNetwork ==
  /\ SF_vars(InitiateAnswered)
  /\ SF_vars(ReconcileAnswered)
  /\ SF_vars(ChunkAccepted \/ ChunkMismatch)
  /\ SF_vars(FinalizeAccepted \/ FinalizeConflict)

-----------------------------------------------------------------------------
(* Properties *)

TypeOK ==
  /\ keep \in BOOLEAN
  /\ call \in Call
  /\ saved \in Saved
  /\ breaker \in [failures : 0..FailureThreshold, state : {"closed", "open", "cool"}]
  /\ station \in Session
  /\ stored \in BOOLEAN
  /\ delayed \subseteq Requests
  /\ budget \in [delayed : Nat, others : Nat, damaged : Nat, expiries : Nat, interruptions : Nat]

\* A backup that Scout reports as uploaded, and whose archive it deletes, is in Station's backup
\* root, whatever was lost, repeated, delayed or damaged on the way.
SuccessIsStored == saved.outcome = "success" => stored

DataKept == budget.damaged = MaxDamaged /\ budget.expiries = MaxExpiries

\* As long as Station keeps what it received, Scout is never ahead of Station: what is resumed
\* after a retry, a cancellation or a restart leaves no gap.
NeverAhead ==
  DataKept =>
    /\ saved.offset <= station.size
    /\ call.pc \in {"chunk", "reconcile", "finalize"} =>
         call.id = station.id /\ call.offset <= station.size

\* A call of UploadArchive ends, also when Station never answers again.
CallsReturn == call.pc # "idle" ~> call.pc = "idle"

Delivered == saved.outcome = "success"

\* A staged backup that Scout keeps is delivered in the end over a network that answers again and
\* again, however often it fails in between, as long as Station keeps what it received.
DeliveredIfKept == keep => (FairNetwork => <>(Delivered \/ ~DataKept))

-----------------------------------------------------------------------------
(* What a comment says and the code does not do; see README.md. *)

\* ingest.go:435: "The retry restarts at offset 0, so the bad data must not stay to be appended
\* to."  A retry that restarts delivers the backup.
RetryRestarts == keep => (FairNetwork => <>(Delivered \/ budget.expiries < MaxExpiries))
=============================================================================
