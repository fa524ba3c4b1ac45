------------------------- MODULE UploadClientProofs -------------------------
(***************************************************************************)
(* Theorems about UploadClient, for archives, chunks, retry limits and     *)
(* bounds of any size.                                                     *)
(*                                                                         *)
(* The client keeps an offset of its own in two places, the call and the   *)
(* job state, and Station keeps the end of what it has staged.  Core says  *)
(* how they may differ; it needs that a session without an id has nothing  *)
(* staged, and that a completed one is whole.                              *)
(* A call ends because every step of it comes Closer to an end.            *)
(***************************************************************************)
EXTENDS UploadClient, TLAPS

Active == call.pc \in {"chunk", "reconcile", "finalize"}

\* The offsets and the session.
Core ==
  /\ call \in Call /\ saved \in Saved /\ station \in Session /\ stored \in BOOLEAN
  /\ Active => call.id # NoId /\ call.chunk >= 1
  /\ call.pc = "chunk" => call.offset < Blocks
  /\ station.completed => stored /\ station.size = Blocks
  /\ station.id = NoId => station.size = 0
  /\ saved.outcome = "success" => stored
  /\ DataKept => /\ ~station.damaged
                 /\ saved.offset <= station.size
                 /\ Active => call.id = station.id /\ call.offset <= station.size

\* The breaker, the requests on their way and the bounds.
Around ==
  /\ keep \in BOOLEAN
  /\ breaker \in [failures : 0..FailureThreshold, state : {"closed", "open", "cool"}]
  /\ delayed \subseteq Requests
  /\ \A r \in delayed : r.offset + r.blocks <= Blocks
  /\ budget \in [delayed : Nat, others : Nat, damaged : Nat, expiries : Nat, interruptions : Nat]
  /\ budget.damaged <= MaxDamaged /\ budget.expiries <= MaxExpiries

IInv == Core /\ Around

LEMMA NoCallType == NoCall \in Call /\ NoCall.pc = "idle" /\ NoCall.id = NoId
BY SizesAssumption, LimitsAssumption DEF NoCall, Call

LEMMA NoSessionType ==
  /\ NoSession \in Session /\ ~NoSession.completed /\ ~NoSession.damaged
  /\ NoSession.id = NoId /\ NoSession.size = 0
BY SizesAssumption DEF NoSession, Session

-----------------------------------------------------------------------------
(* Ends and retries of a call *)

\* The archive is kept, and the call is over.
LEMMA EndCore ==
  ASSUME Core, call' = NoCall, saved' \in Saved, saved'.offset = saved.offset,
         UNCHANGED <<station, stored>>, saved'.outcome = "success" => stored, DataKept' => DataKept
  PROVE  Core'
BY NoCallType DEF Core, Active

\* The archive is not kept.
LEMMA DiscardCore ==
  ASSUME Core, call' = NoCall, saved' \in Saved, saved'.offset = 0, saved'.outcome = "retry",
         station' = NoSession, stored' = FALSE
  PROVE  Core'
<1>1. stored' \in BOOLEAN OBVIOUS
<1>2. call' \in Call /\ station' \in Session /\ ~station'.completed /\ ~station'.damaged /\ station'.size = 0
      /\ ~Active' /\ call'.pc # "chunk" /\ saved'.outcome # "success"
  BY NoCallType, NoSessionType DEF Active
<1> QED BY <1>1, <1>2 DEF Core

\* The archive is kept unless KeepLocalPending is off; Station may have thrown its data away.
LEMMA GiveUpCore ==
  ASSUME Core, NEW s \in Session, GiveUp(s),
         s.completed => stored /\ s.size = Blocks,
         s.id = NoId => s.size = 0,
         DataKept' => ~s.damaged /\ saved.offset <= s.size
  PROVE  Core'
<1>0. saved \in Saved /\ stored \in BOOLEAN BY DEF Core
<1>1. CASE keep
  <2>1. saved' = [saved EXCEPT !.outcome = "retry"] BY <1>1 DEF GiveUp
  <2>2. saved' \in Saved /\ saved'.offset = saved.offset /\ saved'.outcome = "retry"
    BY <1>0, <2>1 DEF Saved, Outcomes
  <2>3. call' = NoCall /\ station' = s /\ stored' = stored BY <1>1 DEF GiveUp
  <2> QED BY <1>0, <2>2, <2>3, NoCallType DEF Core, Active
<1>2. CASE ~keep
  <2>1. saved' = [NewSaved EXCEPT !.outcome = "retry"] BY <1>2 DEF GiveUp
  <2>2. saved' \in Saved /\ saved'.offset = 0 /\ saved'.outcome = "retry"
    BY <2>1, SizesAssumption DEF NewSaved, Saved, Outcomes
  <2> QED BY <1>2, <2>2, DiscardCore DEF GiveUp
<1> QED BY <1>1, <1>2

LEMMA ReturnRetryCore ==
  ASSUME Core, ReturnRetry, DataKept' => DataKept
  PROVE  Core'
BY GiveUpCore DEF ReturnRetry, Core

\* The call tries again, from where it was.
LEMMA AgainCore ==
  ASSUME Core, call.pc # "idle", call' \in Call,
         call'.id = call.id, call'.offset = call.offset, call'.chunk = call.chunk,
         call'.pc = call.pc \/ (call'.pc = "reconcile" /\ call.pc = "chunk"),
         UNCHANGED <<saved, station, stored>>, DataKept' => DataKept
  PROVE  Core'
<1>1. Active' => Active BY DEF Active
<1>2. call'.pc = "chunk" => call.pc = "chunk" OBVIOUS
<1>3. stored' \in BOOLEAN /\ saved' \in Saved /\ station' \in Session BY DEF Core
<1> QED BY <1>1, <1>2, <1>3 DEF Core

LEMMA RetryPhaseCore ==
  ASSUME Core, call.pc # "idle", RetryPhase, DataKept' => DataKept
  PROVE  Core'
<1>0. call \in Call BY DEF Core
<1>1. CASE call.tries + 1 >= MaxRetryAttempts BY <1>1, ReturnRetryCore DEF RetryPhase
<1>2. CASE ~(call.tries + 1 >= MaxRetryAttempts)
  <2>1. call' = [call EXCEPT !.tries = @ + 1] /\ UNCHANGED <<saved, station, stored>>
    BY <1>2 DEF RetryPhase
  <2>2. call.tries + 1 \in 0..(MaxRetryAttempts - 1) BY <1>0, <1>2, LimitsAssumption DEF Call
  <2>3. call' \in Call /\ call'.pc = call.pc /\ call'.id = call.id /\ call'.offset = call.offset
        /\ call'.chunk = call.chunk
    BY <1>0, <2>1, <2>2 DEF Call
  <2> QED BY <2>1, <2>3, AgainCore
<1> QED BY <1>1, <1>2

LEMMA RetryChunkCore ==
  ASSUME Core, call.pc = "chunk", RetryChunk, DataKept' => DataKept
  PROVE  Core'
<1>0. call \in Call BY DEF Core
<1>1. CASE call.attempt + 1 >= MaxRetryAttempts BY <1>1, ReturnRetryCore DEF RetryChunk
<1>2. CASE ~(call.attempt + 1 >= MaxRetryAttempts)
  <2>1. call' = [call EXCEPT !.pc = "reconcile", !.attempt = @ + 1, !.tries = 0]
        /\ UNCHANGED <<saved, station, stored>>
    BY <1>2 DEF RetryChunk
  <2>2. call.attempt + 1 \in 0..(MaxRetryAttempts - 1) /\ 0 \in 0..(MaxRetryAttempts - 1)
    BY <1>0, <1>2, LimitsAssumption DEF Call
  <2>3. call' \in Call /\ call'.pc = "reconcile" /\ call'.id = call.id /\ call'.offset = call.offset
        /\ call'.chunk = call.chunk
    BY <1>0, <2>1, <2>2 DEF Call, Phases
  <2> QED BY <2>1, <2>3, AgainCore
<1> QED BY <1>1, <1>2

LEMMA RetryCore ==
  ASSUME Core, call.pc # "idle", Retry, DataKept' => DataKept
  PROVE  Core'
BY RetryPhaseCore, RetryChunkCore DEF Retry

-----------------------------------------------------------------------------
(* Bounds *)

LEMMA SpendType ==
  ASSUME Around, NEW b \in {"delayed", "others", "damaged", "expiries", "interruptions"}, Spend(b)
  PROVE  /\ budget' \in [delayed : Nat, others : Nat, damaged : Nat, expiries : Nat, interruptions : Nat]
         /\ budget'.damaged <= budget.damaged /\ budget'.expiries <= budget.expiries
         /\ b \in {"damaged", "expiries"} => ~DataKept'
BY BoundsAssumption DEF Around, Spend, DataKept

\* Bounds are only spent, so what Station has lost stays lost.
LEMMA BudgetStep ==
  ASSUME Around,
         \/ UNCHANGED budget
         \/ \E b \in {"delayed", "others", "damaged", "expiries", "interruptions"} : Spend(b)
  PROVE  /\ budget' \in [delayed : Nat, others : Nat, damaged : Nat, expiries : Nat, interruptions : Nat]
         /\ budget'.damaged <= MaxDamaged /\ budget'.expiries <= MaxExpiries
         /\ DataKept' => DataKept
<1>0. MaxDamaged \in Nat /\ MaxExpiries \in Nat BY BoundsAssumption
<1>1. CASE UNCHANGED budget BY <1>1 DEF Around, DataKept
<1>2. ASSUME NEW b \in {"delayed", "others", "damaged", "expiries", "interruptions"}, Spend(b)
      PROVE  /\ budget' \in [delayed : Nat, others : Nat, damaged : Nat, expiries : Nat, interruptions : Nat]
             /\ budget'.damaged <= budget.damaged /\ budget'.expiries <= budget.expiries
  BY <1>2, SpendType
<1>3. CASE \E b \in {"delayed", "others", "damaged", "expiries", "interruptions"} : Spend(b)
  BY <1>0, <1>2, <1>3 DEF Around, DataKept
<1> QED BY <1>1, <1>3

-----------------------------------------------------------------------------
(* What Station makes of a request *)

LEMMA AppendedIs ==
  ASSUME Core, NEW r \in Requests, r.pc = "chunk", r.offset + r.blocks <= Blocks,
         NEW n \in 1..r.blocks, NEW damage \in BOOLEAN
  PROVE  /\ Appended(r, n, damage) \in Session
         /\ Appended(r, n, damage).id = station.id
         /\ Appended(r, n, damage).completed = station.completed
         /\ Appendable(r) => /\ Appended(r, n, damage).size = station.size + n
                             /\ Appended(r, n, damage).damaged = (station.damaged \/ damage)
                             /\ station.id # NoId /\ ~station.completed
         /\ ~Appendable(r) => Appended(r, n, damage) = station
<1>0. station \in Session BY DEF Core
<1>1. CASE Appendable(r)
  <2>1. Appended(r, n, damage) = [station EXCEPT !.size = @ + n, !.damaged = @ \/ damage]
    BY <1>1 DEF Appended
  <2>2. r.offset \in 0..Blocks /\ r.blocks \in Nat /\ r.id \in Ids /\ n \in Nat /\ n <= r.blocks
    BY SizesAssumption DEF Requests
  <2>3. station.size + n \in 0..Blocks BY <1>1, <2>2, SizesAssumption DEF Appendable
  <2>4. Appended(r, n, damage) \in Session BY <1>0, <2>1, <2>3 DEF Session
  <2> QED BY <1>0, <1>1, <2>1, <2>2, <2>4, LimitsAssumption DEF Session, Appendable
<1>2. CASE ~Appendable(r) BY <1>0, <1>2 DEF Appended
<1> QED BY <1>1, <1>2

LEMMA FinalizedIs ==
  ASSUME Core, NEW r, r.id # NoId
  PROVE  /\ Finalized(r) \in Session
         /\ Finalized(r).id = station.id
         /\ Finalized(r).completed => /\ Finalized(r).size = Blocks
                                      /\ stored \/ (Complete(r) /\ ~station.damaged)
         /\ ~station.damaged => ~Finalized(r).damaged /\ Finalized(r).size = station.size
         /\ station.id = NoId => Finalized(r) = station
         /\ station.completed => Finalized(r) = station
<1>0. station \in Session BY DEF Core
<1>1. CASE ~Complete(r) BY <1>0, <1>1 DEF Finalized, Core
<1>a. Complete(r) => station.id # NoId /\ ~station.completed /\ station.size = Blocks BY DEF Complete
<1>2. CASE Complete(r) /\ station.damaged
  <2>1. PICK s : s = [station EXCEPT !.size = 0, !.damaged = FALSE] OBVIOUS
  <2>2. 0 \in 0..Blocks BY SizesAssumption
  <2>a. s \in Session /\ s.id = station.id /\ (s.completed <=> station.completed)
    BY <1>0, <2>1, <2>2 DEF Session
  <2>3. Finalized(r) = s BY <1>2, <2>1 DEF Finalized
  <2> QED BY <1>2, <1>a, <2>a, <2>3
<1>3. CASE Complete(r) /\ ~station.damaged
  <2>1. PICK s : s = [station EXCEPT !.completed = TRUE] OBVIOUS
  <2>2. s \in Session /\ s.id = station.id /\ s.size = station.size /\ s.damaged = station.damaged
    BY <1>0, <2>1 DEF Session
  <2>3. Finalized(r) = s BY <1>3, <2>1 DEF Finalized
  <2> QED BY <1>3, <1>a, <2>2, <2>3
<1> QED BY <1>1, <1>2, <1>3

\* Core after a step of Station alone: nothing is lost while DataKept holds.
LEMMA StationCore ==
  ASSUME Core, UNCHANGED <<call, saved>>, station' \in Session, stored' \in BOOLEAN,
         stored => stored', station'.id = station.id,
         station'.completed => stored' /\ station'.size = Blocks,
         station'.id = NoId => station'.size = 0,
         DataKept' => DataKept /\ ~station'.damaged /\ station.size <= station'.size
  PROVE  Core'
<1>1. Active' = Active BY DEF Active
<1>2. station.size \in Nat /\ station'.size \in Nat /\ call.offset \in Nat /\ saved.offset \in Nat
  BY SizesAssumption DEF Core, Session, Call, Saved
<1>3. call' \in Call /\ saved' \in Saved BY DEF Core
<1>4. /\ Active' => call'.id # NoId /\ call'.chunk >= 1
      /\ call'.pc = "chunk" => call'.offset < Blocks
      /\ saved'.outcome = "success" => stored'
  BY <1>1 DEF Core
<1>5. ASSUME DataKept'
      PROVE  /\ saved'.offset <= station'.size
             /\ Active' => call'.id = station'.id /\ call'.offset <= station'.size
  BY <1>1, <1>2, <1>5 DEF Core
<1> QED BY <1>3, <1>4, <1>5 DEF Core

LEMMA ArriveCore ==
  ASSUME Core, Around, NEW r \in delayed, Handle(r), UNCHANGED <<call, saved>>
  PROVE  Core'
<1>0. r \in Requests /\ r.offset + r.blocks <= Blocks /\ r.id # NoId /\ r.pc \in {"chunk", "finalize"}
  BY LimitsAssumption DEF Around, Requests
<1>a. station \in Session /\ stored \in BOOLEAN /\ station.size \in Nat BY SizesAssumption DEF Core, Session
<1>1. CASE r.pc = "finalize"
  <2>1. station' = Finalized(r) /\ stored' = (stored \/ (Complete(r) /\ ~station.damaged)) /\ UNCHANGED budget
    BY <1>1 DEF Handle
  <2>2. DataKept' => DataKept /\ ~station.damaged BY <2>1 DEF DataKept, Core
  <2>3. stored' \in BOOLEAN /\ (stored => stored') BY <2>1
  <2>4. /\ station' \in Session /\ station'.id = station.id
        /\ station'.completed => station'.size = Blocks /\ (stored \/ (Complete(r) /\ ~station.damaged))
        /\ ~station.damaged => ~station'.damaged /\ station'.size = station.size
        /\ station.id = NoId => station' = station
    BY <1>0, <2>1, FinalizedIs
  <2>5. station'.completed => stored' /\ station'.size = Blocks BY <2>1, <2>4
  <2>6. station'.id = NoId => station'.size = 0 BY <2>4 DEF Core
  <2>7. DataKept' => DataKept /\ ~station'.damaged /\ station.size <= station'.size BY <1>a, <2>2, <2>4
  <2> QED BY <2>3, <2>4, <2>5, <2>6, <2>7, StationCore
<1>2. CASE r.pc = "chunk"
  <2>1. PICK n \in 1..r.blocks, damage \in BOOLEAN :
          /\ station' = Appended(r, n, damage)
          /\ IF damage /\ Appendable(r) THEN Spend("damaged") ELSE UNCHANGED budget
    BY <1>2 DEF Handle
  <2>2. UNCHANGED stored BY <1>2 DEF Handle
  <2>3. DataKept' => DataKept /\ ~(damage /\ Appendable(r)) BY <2>1, BudgetStep, SpendType
  <2>4. n \in Nat BY <1>0, SizesAssumption DEF Requests
  <2>5. CASE Appendable(r)
    <3>1. /\ station' \in Session /\ station'.id = station.id /\ ~station'.completed /\ station.id # NoId
          /\ station'.size = station.size + n /\ station'.damaged = (station.damaged \/ damage)
      BY <1>0, <1>2, <2>1, <2>5, AppendedIs
    <3>2. DataKept' => ~station'.damaged BY <2>3, <2>5, <3>1 DEF Core
    <3> QED BY <1>a, <2>2, <2>3, <2>4, <3>1, <3>2, StationCore
  <2>6. CASE ~Appendable(r)
    <3>1. station' = station BY <1>0, <1>2, <2>1, <2>6, AppendedIs
    <3> QED BY <1>a, <2>2, <2>3, <3>1, StationCore DEF Core
  <2> QED BY <2>5, <2>6
<1> QED BY <1>0, <1>1, <1>2

-----------------------------------------------------------------------------
(* Answers *)

LEMMA InitiatedIs ==
  ASSUME Core, NEW s \in Initiated
  PROVE  /\ s \in Session
         /\ s.completed => stored /\ s.size = Blocks
         /\ s.id = NoId => s.size = 0 /\ stored
         /\ \/ s = station
            \/ station.id = NoId /\ s.id # NoId /\ s.size = 0 /\ ~s.completed /\ ~s.damaged
         /\ InitiateReply(s).completed => stored /\ s = station
         /\ ~InitiateReply(s).completed => s.id # NoId
         /\ InitiateReply(s).id = s.id
         /\ InitiateReply(s).next \in 0..Blocks
         /\ s.id # NoId => InitiateReply(s).next = s.size
<1>0. station \in Session BY DEF Core
<1>1. \/ s = station /\ (station.id # NoId \/ stored)
      \/ /\ station.id = NoId /\ s.id # NoId /\ s.size = 0 /\ ~s.completed /\ ~s.damaged
         /\ s \in Session
  <2>1. CASE station.id # NoId \/ stored BY <2>1 DEF Initiated
  <2>2. CASE ~(station.id # NoId \/ stored)
    <3>1. PICK i \in Ids : s = [NoSession EXCEPT !.id = i] BY <2>2 DEF Initiated
    <3>2. s \in Session /\ s.id = i /\ s.size = 0 /\ ~s.completed /\ ~s.damaged
      BY <3>1, NoSessionType DEF Session
    <3> QED BY <2>2, <3>2, LimitsAssumption
  <2> QED BY <2>1, <2>2
<1>2. s \in Session BY <1>0, <1>1
<1>3. /\ s.completed => stored /\ s.size = Blocks
      /\ s.id = NoId => s.size = 0 /\ stored
  BY <1>1 DEF Core
<1>4. /\ InitiateReply(s).id = s.id
      /\ InitiateReply(s).completed <=> (s.completed \/ (s.id = NoId /\ stored))
      /\ InitiateReply(s).next = IF s.completed \/ s.id = NoId THEN Blocks ELSE s.size
  BY DEF InitiateReply
<1>5. InitiateReply(s).next \in 0..Blocks BY <1>2, <1>4, SizesAssumption DEF Session
<1> QED BY <1>1, <1>2, <1>3, <1>4, <1>5

\* The client goes on from an offset that it also saves.
LEMMA ProgressCore ==
  ASSUME Core, NEW c \in Call, Progress(c), c.pc \in {"chunk", "finalize"},
         c.id # NoId, c.chunk >= 1, c.pc = "chunk" => c.offset < Blocks,
         station' \in Session, UNCHANGED stored,
         station'.completed => stored /\ station'.size = Blocks,
         station'.id = NoId => station'.size = 0,
         DataKept' => ~station'.damaged /\ c.id = station'.id /\ c.offset <= station'.size
  PROVE  Core'
<1>0. saved \in Saved /\ c.offset \in 0..Blocks /\ c.chunk \in 0..MaxChunk BY DEF Core, Call
<1>1. call' = c /\ saved' = [saved EXCEPT !.offset = c.offset, !.chunk = c.chunk] BY DEF Progress
<1>2. saved' \in Saved /\ saved'.offset = c.offset /\ saved'.outcome = saved.outcome BY <1>0, <1>1 DEF Saved
<1>3. stored' \in BOOLEAN /\ (saved'.outcome = "success" => stored') BY <1>2 DEF Core
<1> QED BY <1>1, <1>2, <1>3 DEF Core, Active

LEMMA NextPhaseIs ==
  ASSUME NEW offset \in 0..Blocks
  PROVE  NextPhase(offset) \in {"chunk", "finalize"} /\ (NextPhase(offset) = "chunk" => offset < Blocks)
BY SizesAssumption DEF NextPhase

LEMMA InitiateCore ==
  ASSUME Core, Around, InitiateAnswered
  PROVE  Core'
<1>0. saved \in Saved /\ DataKept' = DataKept /\ UNCHANGED stored BY DEF InitiateAnswered, Core, DataKept
<1>1. PICK s \in Initiated :
        /\ station' = s
        /\ IF InitiateReply(s).completed
           THEN Return("success")
           ELSE \E chunk \in InitialChunks :
                  Progress([NoCall EXCEPT !.pc = NextPhase(ResumeFrom(InitiateReply(s))), !.id = InitiateReply(s).id,
                                          !.offset = ResumeFrom(InitiateReply(s)), !.chunk = chunk])
  BY DEF InitiateAnswered
<1>2. CASE InitiateReply(s).completed
  <2>1. stored /\ station' = station BY <1>1, <1>2, InitiatedIs
  <2>2. call' = NoCall /\ saved' = [saved EXCEPT !.outcome = "success"] BY <1>1, <1>2 DEF Return
  <2>3. saved' \in Saved /\ saved'.offset = saved.offset BY <1>0, <2>2 DEF Saved, Outcomes
  <2> QED BY <1>0, <2>1, <2>2, <2>3, EndCore
<1>3. CASE ~InitiateReply(s).completed
  <2>1. /\ s \in Session /\ s.id # NoId /\ InitiateReply(s).id = s.id /\ InitiateReply(s).next = s.size
        /\ s.completed => stored /\ s.size = Blocks
        /\ s = station \/ (station.id = NoId /\ s.size = 0 /\ ~s.damaged)
    BY <1>1, <1>3, InitiatedIs
  <2>2. PICK offset : offset = ResumeFrom(InitiateReply(s)) OBVIOUS
  <2>3. saved.offset \in 0..Blocks /\ s.size \in 0..Blocks /\ s.id \in Ids
    BY <1>0, <2>1 DEF Saved, Session
  <2>4. offset \in 0..Blocks /\ (saved.offset <= s.size => offset = s.size)
    BY <2>1, <2>2, <2>3, SizesAssumption DEF ResumeFrom, Larger
  <2>5. PICK chunk \in InitialChunks :
          Progress([NoCall EXCEPT !.pc = NextPhase(offset), !.id = s.id, !.offset = offset, !.chunk = chunk])
    BY <1>1, <1>3, <2>1, <2>2
  <2>6. chunk \in 0..MaxChunk /\ chunk >= 1
    <3>1. PICK c \in 0..MaxChunk : chunk = Smaller(Larger(c, MinChunk), Blocks)
      BY <1>0, SizesAssumption DEF InitialChunks, Saved
    <3> QED BY <3>1, SizesAssumption DEF Smaller, Larger
  <2>7. PICK c : c = [NoCall EXCEPT !.pc = NextPhase(offset), !.id = s.id, !.offset = offset, !.chunk = chunk]
    OBVIOUS
  <2>8. NextPhase(offset) \in {"chunk", "finalize"} /\ (NextPhase(offset) = "chunk" => offset < Blocks)
    BY <2>4, NextPhaseIs
  <2>9. c \in Call /\ c.pc = NextPhase(offset) /\ c.id = s.id /\ c.offset = offset /\ c.chunk = chunk
    BY <2>3, <2>4, <2>6, <2>7, <2>8, NoCallType DEF Call, Phases
  <2>10. DataKept => ~s.damaged /\ offset <= s.size
    <3>1. DataKept => ~station.damaged /\ saved.offset <= station.size /\ (station.id = NoId => station.size = 0)
      BY DEF Core
    <3> QED BY <2>1, <2>3, <2>4, <3>1
  <2>11. Progress(c) BY <2>5, <2>7
  <2> QED BY <1>0, <1>1, <2>1, <2>6, <2>8, <2>9, <2>10, <2>11, ProgressCore
<1> QED BY <1>2, <1>3

LEMMA ReconcileCore ==
  ASSUME Core, Around, ReconcileAnswered
  PROVE  Core'
<1>0. /\ call \in Call /\ call.pc = "reconcile" /\ Active
      /\ DataKept' = DataKept /\ UNCHANGED stored
  BY DEF ReconcileAnswered, Core, DataKept, Active
<1>b. PICK s \in Initiated :
        LET offset == Larger(call.offset, InitiateReply(s).next)
            smaller == IF call.chunk > 2 * MinChunk THEN call.chunk \div 2 ELSE MinChunk
        IN /\ station' = s
           /\ Progress([call EXCEPT !.pc = NextPhase(offset), !.offset = offset,
                                    !.chunk = smaller, !.tries = 0])
  BY DEF ReconcileAnswered
<1>1. PICK offset, smaller :
        /\ offset = Larger(call.offset, InitiateReply(s).next)
        /\ smaller = IF call.chunk > 2 * MinChunk THEN call.chunk \div 2 ELSE MinChunk
        /\ station' = s
        /\ Progress([call EXCEPT !.pc = NextPhase(offset), !.offset = offset, !.chunk = smaller, !.tries = 0])
  BY <1>b
<1>2. /\ s \in Session /\ InitiateReply(s).next \in 0..Blocks
      /\ s.id # NoId => InitiateReply(s).next = s.size
      /\ s.completed => stored /\ s.size = Blocks
      /\ s.id = NoId => s.size = 0
      /\ s = station \/ station.id = NoId
  BY InitiatedIs
<1>3. call.offset \in 0..Blocks /\ s.size \in 0..Blocks /\ call.chunk \in 0..MaxChunk
  BY <1>0, <1>2 DEF Call, Session
<1>4. offset \in 0..Blocks /\ (call.offset <= InitiateReply(s).next => offset = InitiateReply(s).next)
  BY <1>1, <1>2, <1>3, SizesAssumption DEF Larger
<1>5. smaller \in 0..MaxChunk /\ smaller >= 1 BY <1>1, <1>3, SizesAssumption
<1>6. NextPhase(offset) \in {"chunk", "finalize"} /\ (NextPhase(offset) = "chunk" => offset < Blocks)
  BY <1>4, NextPhaseIs
<1>7. PICK c : c = [call EXCEPT !.pc = NextPhase(offset), !.offset = offset, !.chunk = smaller, !.tries = 0]
  OBVIOUS
<1>a. 0 \in 0..(MaxRetryAttempts - 1) /\ NextPhase(offset) \in {"idle"} \cup Phases
  BY <1>6, LimitsAssumption DEF Phases
<1>8. c \in Call /\ c.pc = NextPhase(offset) /\ c.id = call.id /\ c.offset = offset /\ c.chunk = smaller
  BY <1>0, <1>4, <1>5, <1>7, <1>a DEF Call
<1>9. DataKept => ~s.damaged /\ call.id = s.id /\ offset <= s.size
  <2>1. DataKept => ~station.damaged /\ call.id = station.id /\ call.offset <= station.size /\ call.id # NoId
    BY <1>0 DEF Core
  <2> QED BY <1>2, <1>3, <1>4, <2>1
<1>10. call.id # NoId BY <1>0 DEF Core
<1>11. Progress(c) BY <1>1, <1>7
<1> QED BY <1>0, <1>1, <1>2, <1>5, <1>6, <1>8, <1>9, <1>10, <1>11, ProgressCore

LEMMA RequestIs ==
  ASSUME Core, call.pc \in {"chunk", "finalize"}
  PROVE  /\ Request \in Requests /\ Request.id = call.id /\ Request.pc = call.pc
         /\ Request.offset + Request.blocks <= Blocks
         /\ call.pc = "chunk" => Request = ChunkRequest /\ Request.offset = call.offset /\ Request.blocks >= 1
         /\ call.pc = "finalize" => Request = FinalizeRequest
<1>0. call \in Call /\ call.id \in Ids /\ call.chunk \in 1..MaxChunk /\ call.offset \in 0..Blocks
  BY SizesAssumption DEF Core, Active, Call
<1>1. CASE call.pc = "chunk"
  <2>1. call.offset < Blocks BY <1>1 DEF Core
  <2>2. PICK b : b = Smaller(call.chunk, Blocks - call.offset) OBVIOUS
  <2>3. b \in 1..MaxChunk /\ call.offset + b <= Blocks BY <1>0, <2>1, <2>2, SizesAssumption DEF Smaller
  <2>4. Request = [pc |-> "chunk", id |-> call.id, offset |-> call.offset, blocks |-> b]
        /\ Request = ChunkRequest
    BY <1>1, <2>2 DEF Request, ChunkRequest
  <2> QED BY <1>0, <1>1, <2>3, <2>4 DEF Requests
<1>2. CASE call.pc = "finalize"
  <2>1. Request = [pc |-> "finalize", id |-> call.id, offset |-> Blocks, blocks |-> 0]
        /\ Request = FinalizeRequest
    BY <1>2 DEF Request, FinalizeRequest
  <2> QED BY <1>0, <1>2, <2>1, SizesAssumption DEF Requests
<1> QED BY <1>1, <1>2

LEMMA StreakIs ==
  ASSUME Core, call.pc = "chunk"
  PROVE  Streak(call) \in Call /\ Streak(call).id = call.id /\ Streak(call).chunk >= 1
<1>0. call \in Call /\ call.chunk \in 1..MaxChunk BY SizesAssumption DEF Core, Active, Call
<1>a. 0 \in 0..1 /\ 1 \in 0..1 OBVIOUS
<1>1. CASE call.streak = 1
  <2>1. PICK n : n = Smaller(MaxChunk, 2 * call.chunk) OBVIOUS
  <2>2. n \in 0..MaxChunk /\ n >= 1 BY <1>0, <2>1, SizesAssumption DEF Smaller
  <2>3. Streak(call) = [call EXCEPT !.streak = 0, !.chunk = n] BY <1>1, <2>1 DEF Streak
  <2> QED BY <1>0, <1>a, <2>2, <2>3 DEF Call
<1>2. CASE call.streak # 1
  <2>1. Streak(call) = [call EXCEPT !.streak = 1] BY <1>2 DEF Streak
  <2> QED BY <1>0, <1>a, <2>1 DEF Call
<1> QED BY <1>1, <1>2

LEMMA ChunkCore ==
  ASSUME Core, Around, ChunkAccepted
  PROVE  Core'
<1>0. /\ call \in Call /\ call.pc = "chunk" /\ Active /\ call.id # NoId /\ UNCHANGED stored
      /\ station \in Session
  BY DEF ChunkAccepted, Core, Active
<1>1. PICK r : r = ChunkRequest OBVIOUS
<1>2. /\ r \in Requests /\ r.id = call.id /\ r.pc = "chunk" /\ r.offset + r.blocks <= Blocks
      /\ r.offset = call.offset /\ r.blocks >= 1
  BY <1>0, <1>1, RequestIs
<1>a. PICK offset : offset = IF station.completed THEN Blocks ELSE r.offset + r.blocks OBVIOUS
<1>b. /\ station.id = r.id /\ (station.completed \/ Appendable(r))
      /\ Progress([Streak(call) EXCEPT !.pc = NextPhase(offset), !.offset = offset, !.attempt = 0])
  BY <1>1, <1>a DEF ChunkAccepted
<1>c. PICK damage \in BOOLEAN :
        /\ station' = Appended(r, r.blocks, damage)
        /\ IF damage /\ Appendable(r) THEN Spend("damaged") ELSE UNCHANGED budget
  BY <1>1 DEF ChunkAccepted
<1>3. /\ offset = IF station.completed THEN Blocks ELSE r.offset + r.blocks
      /\ station.id = r.id
      /\ station.completed \/ Appendable(r)
      /\ station' = Appended(r, r.blocks, damage)
      /\ IF damage /\ Appendable(r) THEN Spend("damaged") ELSE UNCHANGED budget
      /\ Progress([Streak(call) EXCEPT !.pc = NextPhase(offset), !.offset = offset, !.attempt = 0])
  BY <1>a, <1>b, <1>c
<1>4. r.blocks \in Nat /\ r.blocks \in 1..r.blocks /\ r.offset \in Nat BY <1>2, SizesAssumption DEF Requests
<1>5. offset \in 0..Blocks BY <1>2, <1>3, <1>4, SizesAssumption
<1>6. NextPhase(offset) \in {"chunk", "finalize"} /\ (NextPhase(offset) = "chunk" => offset < Blocks)
  BY <1>5, NextPhaseIs
<1>7. PICK c : c = [Streak(call) EXCEPT !.pc = NextPhase(offset), !.offset = offset, !.attempt = 0] OBVIOUS
<1>8. 0 \in 0..(MaxRetryAttempts - 1) /\ NextPhase(offset) \in {"idle"} \cup Phases
  BY <1>6, LimitsAssumption DEF Phases
<1>9. c \in Call /\ c.pc = NextPhase(offset) /\ c.id = call.id /\ c.offset = offset /\ c.chunk >= 1
  BY <1>0, <1>5, <1>7, <1>8, StreakIs DEF Call
<1>10. DataKept' => DataKept /\ ~(damage /\ Appendable(r)) BY <1>3, BudgetStep, SpendType
<1>11. Progress(c) BY <1>3, <1>7
<1>12. CASE Appendable(r)
  <2>1. /\ station' \in Session /\ station'.id = station.id /\ ~station'.completed /\ ~station.completed
        /\ station'.size = station.size + r.blocks /\ (station'.damaged => station.damaged \/ damage)
        /\ station.size = r.offset
    BY <1>2, <1>3, <1>4, <1>12, AppendedIs DEF Appendable
  <2>2. DataKept' => ~station'.damaged BY <1>10, <1>12, <2>1 DEF Core
  <2>3. c.offset <= station'.size /\ c.id = station'.id BY <1>2, <1>3, <1>4, <1>9, <2>1
  <2> QED BY <1>0, <1>6, <1>9, <1>11, <2>1, <2>2, <2>3, ProgressCore
<1>13. CASE ~Appendable(r)
  <2>1. station' = station /\ station.completed BY <1>2, <1>3, <1>4, <1>13, AppendedIs
  <2>2. station.size = Blocks /\ stored BY <2>1 DEF Core
  <2>3. c.offset <= station'.size /\ c.id = station'.id BY <1>2, <1>3, <1>5, <1>9, <2>1, <2>2, SizesAssumption
  <2>4. DataKept' => ~station.damaged BY <1>10 DEF Core
  <2> QED BY <1>0, <1>2, <1>3, <1>6, <1>9, <1>11, <2>1, <2>2, <2>3, <2>4, ProgressCore
<1> QED BY <1>12, <1>13

LEMMA MismatchCore ==
  ASSUME Core, Around, ChunkMismatch
  PROVE  Core'
<1>0. /\ call \in Call /\ call.pc = "chunk" /\ Active /\ call.id # NoId /\ station \in Session
      /\ station.id = call.id /\ call.chunk >= 1 /\ DataKept' = DataKept
  BY DEF ChunkMismatch, Core, Active, DataKept
<1>1. CASE station.size > call.offset
  <2>1. UNCHANGED <<station, stored>> BY <1>1 DEF ChunkMismatch
  <2>2. PICK c : c = [call EXCEPT !.pc = NextPhase(station.size), !.offset = station.size, !.streak = 0, !.attempt = 0]
    OBVIOUS
  <2>3. station.size \in 0..Blocks BY <1>0 DEF Session
  <2>4. NextPhase(station.size) \in {"chunk", "finalize"} /\ (NextPhase(station.size) = "chunk" => station.size < Blocks)
    BY <2>3, NextPhaseIs
  <2>5. 0 \in 0..1 /\ 0 \in 0..(MaxRetryAttempts - 1) /\ NextPhase(station.size) \in {"idle"} \cup Phases
    BY <2>4, LimitsAssumption DEF Phases
  <2>6. c \in Call /\ c.pc = NextPhase(station.size) /\ c.id = call.id /\ c.offset = station.size
        /\ c.chunk = call.chunk
    BY <1>0, <2>2, <2>3, <2>5 DEF Call
  <2>7. Progress(c) BY <1>1, <2>2 DEF ChunkMismatch
  <2>8. /\ station'.completed => stored /\ station'.size = Blocks
        /\ station'.id = NoId => station'.size = 0
        /\ DataKept => ~station'.damaged
    BY <2>1 DEF Core
  <2> QED BY <1>0, <2>1, <2>3, <2>4, <2>6, <2>7, <2>8, ProgressCore, SizesAssumption
<1>2. CASE ~(station.size > call.offset) BY <1>0, <1>2, RetryChunkCore DEF ChunkMismatch
<1> QED BY <1>1, <1>2

\* A call that ends with an answer.
LEMMA ReturnCore ==
  ASSUME Core, NEW outcome \in Outcomes, Return(outcome),
         station' \in Session, stored' \in BOOLEAN,
         station'.completed => stored' /\ station'.size = Blocks,
         station'.id = NoId => station'.size = 0,
         outcome = "success" => stored',
         DataKept' => ~station'.damaged /\ saved.offset <= station'.size
  PROVE  Core'
<1>0. saved \in Saved BY DEF Core
<1>1. saved' = [saved EXCEPT !.outcome = outcome] /\ call' = NoCall BY DEF Return
<1>2. saved' \in Saved /\ saved'.offset = saved.offset /\ saved'.outcome = outcome BY <1>0, <1>1 DEF Saved
<1>3. call' \in Call /\ ~Active' /\ call'.pc # "chunk" BY <1>1, NoCallType DEF Active
<1> QED BY <1>2, <1>3 DEF Core

LEMMA FinalizeCore ==
  ASSUME Core, Around, FinalizeAccepted \/ FinalizeConflict \/ SessionGone
  PROVE  Core'
<1>0. /\ call \in Call /\ call.pc \in {"chunk", "finalize"} /\ call.id # NoId /\ DataKept' = DataKept
      /\ station \in Session /\ stored \in BOOLEAN
  BY DEF FinalizeAccepted, FinalizeConflict, SessionGone, Core, Active, DataKept
<1>a. FinalizeRequest.id = call.id BY DEF FinalizeRequest
<1>b. station.size \in Nat /\ saved.offset \in Nat BY SizesAssumption DEF Core, Session, Saved
<1>f. PICK s : s = Finalized(FinalizeRequest) OBVIOUS
<1>g. /\ s \in Session /\ s.id = station.id
      /\ s.completed => s.size = Blocks /\ (stored \/ (Complete(FinalizeRequest) /\ ~station.damaged))
      /\ ~station.damaged => ~s.damaged /\ s.size = station.size
      /\ station.id = NoId => s = station
      /\ station.completed => s = station
  BY <1>0, <1>a, <1>f, FinalizedIs
<1>1. ASSUME FinalizeAccepted PROVE Core'
  <2>1. /\ station.completed \/ (Complete(FinalizeRequest) /\ ~station.damaged)
        /\ station' = s /\ stored' = (stored \/ Complete(FinalizeRequest)) /\ Return("success")
    BY <1>1, <1>f DEF FinalizeAccepted
  <2>2. stored' \in BOOLEAN /\ stored' BY <2>1 DEF Core
  <2>3. station'.id = NoId => station'.size = 0 BY <1>g, <2>1 DEF Core
  <2>4. DataKept' => ~station'.damaged /\ saved.offset <= station'.size BY <1>0, <1>g, <2>1 DEF Core
  <2> QED BY <1>g, <2>1, <2>2, <2>3, <2>4, ReturnCore DEF Outcomes
<1>2. ASSUME FinalizeConflict PROVE Core'
  <2>1. CASE RetryPhase BY <1>0, <2>1, RetryPhaseCore
  <2>2. CASE station.damaged /\ GiveUp(s)
    <3>1. ~DataKept' BY <1>0, <2>2 DEF Core
    <3>2. ~s.completed BY <1>2, <2>2, <1>f DEF FinalizeConflict, Finalized, Session, Core
    <3>3. s.id = NoId => s.size = 0 BY <1>g DEF Core
    <3> QED BY <1>g, <2>2, <3>1, <3>2, <3>3, GiveUpCore
  <2>3. CASE /\ station.damaged /\ ~(call.tries + 1 >= MaxRetryAttempts)
             /\ call' = [call EXCEPT !.tries = @ + 1]
             /\ station' = s
             /\ UNCHANGED <<saved, stored>>
    <3>1. ~DataKept' BY <1>0, <2>3 DEF Core
    <3>2. call.tries + 1 \in 0..(MaxRetryAttempts - 1) BY <1>0, <2>3, LimitsAssumption DEF Call
    <3>3. call' \in Call /\ call'.pc = call.pc /\ call'.id = call.id /\ call'.offset = call.offset
          /\ call'.chunk = call.chunk
      BY <1>0, <2>3, <3>2 DEF Call
    <3>4. ~station.completed BY <1>2 DEF FinalizeConflict
    <3>5. ~s.completed BY <2>3, <1>f, <3>4 DEF Finalized, Session, Core
    <3>6. Active' = Active BY <3>3 DEF Active
    <3>7. s.id = NoId => s.size = 0 BY <1>g DEF Core
    <3> QED BY <1>g, <2>3, <3>1, <3>3, <3>5, <3>6, <3>7 DEF Core
  <2> QED BY <1>2, <1>f, <2>1, <2>2, <2>3 DEF FinalizeConflict
<1>3. ASSUME SessionGone PROVE Core'
  <2>1. UNCHANGED <<station, stored>> /\ Return("manual") BY <1>3 DEF SessionGone
  <2>2. DataKept' => ~station'.damaged /\ saved.offset <= station'.size BY <1>0, <2>1 DEF Core
  <2>3. station' \in Session /\ (station'.completed => stored' /\ station'.size = Blocks)
        /\ (station'.id = NoId => station'.size = 0) /\ stored' \in BOOLEAN
    BY <2>1 DEF Core
  <2> QED BY <2>1, <2>2, <2>3, ReturnCore DEF Outcomes
<1> QED BY <1>1, <1>2, <1>3

LEMMA CallerCore ==
  ASSUME Core, Around, Begin \/ ForceSend \/ Interrupt \/ Expire \/ Cooldown \/ OtherRequest, DataKept' => DataKept
  PROVE  Core'
<1>0. saved \in Saved /\ stored \in BOOLEAN BY DEF Core
<1>1. [NoCall EXCEPT !.pc = "initiate"] \in Call /\ [NoCall EXCEPT !.pc = "initiate"].pc = "initiate"
  BY NoCallType DEF Call, Phases
<1>2. ASSUME call' \in Call, call'.pc \in {"idle", "initiate"}, saved' \in Saved, saved'.offset = saved.offset,
             saved'.outcome = "success" => saved.outcome = "success", UNCHANGED <<station, stored>>
      PROVE  Core'
  BY <1>2 DEF Core, Active
<1>3. CASE Begin BY <1>0, <1>1, <1>2, <1>3 DEF Begin
<1>4. CASE ForceSend
  <2>1. saved' = [saved EXCEPT !.outcome = "none"] BY <1>4 DEF ForceSend
  <2>2. saved' \in Saved /\ saved'.offset = saved.offset /\ saved'.outcome = "none"
    BY <1>0, <2>1 DEF Saved, Outcomes
  <2> QED BY <1>1, <1>2, <1>4, <2>2 DEF ForceSend
<1>5. CASE Interrupt BY <1>0, <1>2, <1>5, NoCallType DEF Interrupt
<1>6. CASE Expire
  <2>1. ~DataKept' BY <1>6, SpendType DEF Expire
  <2>2. UNCHANGED <<call, saved, stored>> /\ station' = NoSession BY <1>6 DEF Expire
  <2>3. Active' = Active BY <2>2 DEF Active
  <2> QED BY <2>1, <2>2, <2>3, NoSessionType DEF Core
<1>7. CASE Cooldown \/ OtherRequest
  <2>1. UNCHANGED <<call, saved, station, stored>> BY <1>7 DEF Cooldown, OtherRequest
  <2> QED BY <2>1 DEF Core, Active
<1> QED BY <1>3, <1>4, <1>5, <1>6, <1>7

-----------------------------------------------------------------------------
(* Breaker, requests on their way and bounds *)

LEMMA BudgetChanges ==
  ASSUME Next
  PROVE  \/ UNCHANGED budget
         \/ \E b \in {"delayed", "others", "damaged", "expiries", "interruptions"} : Spend(b)
<1>1. CASE Refused \/ Lost \/ Delay BY <1>1 DEF Refused, Lost, Delay
<1>2. CASE InitiateAnswered \/ ReconcileAnswered \/ ChunkMismatch \/ FinalizeAccepted \/ FinalizeConflict \/ SessionGone
  BY <1>2 DEF InitiateAnswered, ReconcileAnswered, ChunkMismatch, FinalizeAccepted, FinalizeConflict, SessionGone
<1>3. CASE ChunkAccepted
  <2>1. \E damage \in BOOLEAN : IF damage /\ Appendable(ChunkRequest) THEN Spend("damaged") ELSE UNCHANGED budget
    BY <1>3 DEF ChunkAccepted
  <2> QED BY <2>1
<1>4. CASE Arrive
  <2>1. PICK r \in delayed : Handle(r) BY <1>4 DEF Arrive
  <2> QED BY <2>1 DEF Handle
<1>5. CASE Begin \/ ForceSend \/ Interrupt \/ Expire \/ Cooldown \/ OtherRequest
  BY <1>5 DEF Begin, ForceSend, Interrupt, Expire, Cooldown, OtherRequest
<1> QED BY <1>1, <1>2, <1>3, <1>4, <1>5 DEF Next, UploadArchive

LEMMA BreakerStep ==
  ASSUME Around, Next
  PROVE  breaker' \in [failures : 0..FailureThreshold, state : {"closed", "open", "cool"}]
<1> DEFINE Breakers == [failures : 0..FailureThreshold, state : {"closed", "open", "cool"}]
<1>0. breaker \in Breakers BY DEF Around
<1>1. RecordSuccess \in Breakers BY LimitsAssumption DEF RecordSuccess
<1>2. RecordFailure(Entered(breaker)) \in Breakers
  <2>1. Entered(breaker) \in Breakers BY <1>0 DEF Entered
  <2>2. PICK b \in Breakers : b = Entered(breaker) BY <2>1
  <2>3. PICK f : f = Smaller(b.failures + 1, FailureThreshold) OBVIOUS
  <2>4. f \in 0..FailureThreshold BY <2>2, <2>3, LimitsAssumption DEF Smaller
  <2>5. RecordFailure(b) = [failures |-> f, state |-> IF f >= FailureThreshold THEN "open" ELSE b.state]
    BY <2>3 DEF RecordFailure
  <2> QED BY <2>2, <2>4, <2>5
<1>3. CASE Refused \/ Lost \/ Delay BY <1>0, <1>2, <1>3 DEF Refused, Lost, Delay, Failed
<1>4. CASE InitiateAnswered \/ ReconcileAnswered \/ ChunkAccepted \/ ChunkMismatch \/ FinalizeAccepted
           \/ FinalizeConflict \/ SessionGone
  BY <1>1, <1>4 DEF InitiateAnswered, ReconcileAnswered, ChunkAccepted, ChunkMismatch, FinalizeAccepted,
                    FinalizeConflict, SessionGone, Answered
<1>5. CASE Begin \/ ForceSend \/ Interrupt \/ Arrive \/ Expire
  BY <1>0, <1>1, <1>5 DEF Begin, ForceSend, Interrupt, Arrive, Expire
<1>6. CASE Cooldown BY <1>0, <1>6 DEF Cooldown
<1>7. CASE OtherRequest BY <1>1, <1>2, <1>7 DEF OtherRequest
<1> QED BY <1>3, <1>4, <1>5, <1>6, <1>7 DEF Next, UploadArchive

LEMMA AroundStep ==
  ASSUME Core, Around, Next
  PROVE  Around' /\ (DataKept' => DataKept)
<1>1. /\ budget' \in [delayed : Nat, others : Nat, damaged : Nat, expiries : Nat, interruptions : Nat]
      /\ budget'.damaged <= MaxDamaged /\ budget'.expiries <= MaxExpiries
      /\ DataKept' => DataKept
  BY BudgetChanges, BudgetStep
<1>2. delayed' \subseteq Requests /\ \A r \in delayed' : r.offset + r.blocks <= Blocks
  <2>1. CASE Delay
    <3>1. call.pc \in {"chunk", "finalize"} /\ delayed' = delayed \cup {Request} BY <2>1 DEF Delay
    <3>2. Request \in Requests /\ Request.offset + Request.blocks <= Blocks BY <3>1, RequestIs
    <3> QED BY <3>1, <3>2 DEF Around
  <2>2. ASSUME delayed' \subseteq delayed
        PROVE  delayed' \subseteq Requests /\ \A r \in delayed' : r.offset + r.blocks <= Blocks
    BY <2>2 DEF Around
  <2>3. CASE Refused \/ Lost \/ InitiateAnswered \/ ReconcileAnswered \/ ChunkAccepted \/ ChunkMismatch
             \/ FinalizeAccepted \/ FinalizeConflict \/ SessionGone
    BY <2>2, <2>3 DEF Refused, Lost, InitiateAnswered, ReconcileAnswered, ChunkAccepted, ChunkMismatch,
                      FinalizeAccepted, FinalizeConflict, SessionGone
  <2>4. CASE Begin \/ ForceSend \/ Interrupt \/ Arrive \/ Expire \/ Cooldown \/ OtherRequest
    BY <2>2, <2>4 DEF Begin, ForceSend, Interrupt, Arrive, Expire, Cooldown, OtherRequest
  <2> QED BY <2>1, <2>3, <2>4 DEF Next, UploadArchive
<1>3. UNCHANGED keep
  <2>1. CASE Refused \/ Lost \/ Delay BY <2>1 DEF Refused, Lost, Delay
  <2>2. CASE InitiateAnswered \/ ReconcileAnswered \/ ChunkAccepted \/ ChunkMismatch
             \/ FinalizeAccepted \/ FinalizeConflict \/ SessionGone
    BY <2>2 DEF InitiateAnswered, ReconcileAnswered, ChunkAccepted, ChunkMismatch,
                FinalizeAccepted, FinalizeConflict, SessionGone
  <2>3. CASE Begin \/ ForceSend \/ Interrupt \/ Arrive \/ Expire \/ Cooldown \/ OtherRequest
    BY <2>3 DEF Begin, ForceSend, Interrupt, Arrive, Expire, Cooldown, OtherRequest
  <2> QED BY <2>1, <2>2, <2>3 DEF Next, UploadArchive
<1>4. breaker' \in [failures : 0..FailureThreshold, state : {"closed", "open", "cool"}] BY BreakerStep
<1> QED BY <1>1, <1>2, <1>3, <1>4 DEF Around

LEMMA Start == Init => IInv
<1> SUFFICES ASSUME Init PROVE IInv OBVIOUS
<1>1. saved \in Saved /\ saved.offset = 0 /\ saved.outcome = "none"
  BY SizesAssumption DEF Init, NewSaved, Saved, Outcomes
<1>2. call = NoCall /\ station = NoSession /\ ~stored /\ stored \in BOOLEAN BY DEF Init
<1>3. Core BY <1>1, <1>2, NoCallType, NoSessionType DEF Core, Active
<1>4. /\ breaker \in [failures : 0..FailureThreshold, state : {"closed", "open", "cool"}]
      /\ delayed = {}
  BY LimitsAssumption DEF Init
<1>5. /\ budget \in [delayed : Nat, others : Nat, damaged : Nat, expiries : Nat, interruptions : Nat]
      /\ budget.damaged <= MaxDamaged /\ budget.expiries <= MaxExpiries
  BY BoundsAssumption DEF Init
<1>6. keep \in BOOLEAN BY DEF Init
<1> QED BY <1>3, <1>4, <1>5, <1>6 DEF IInv, Around

LEMMA Invariance == Spec => []IInv
<1>1. IInv /\ [Next]_vars => IInv'
  <2>1. ASSUME IInv, Next PROVE IInv'
    <3>0. Core /\ Around BY <2>1 DEF IInv
    <3>1. Around' /\ (DataKept' => DataKept) BY <2>1, <3>0, AroundStep
    <3>2. Core'
      <4>1. CASE Refused \/ Lost \/ Delay
        <5>1. call.pc # "idle" /\ Retry BY <4>1 DEF Refused, Lost, Delay
        <5> QED BY <3>0, <3>1, <5>1, RetryCore
      <4>2. CASE Arrive
        <5>1. PICK r \in delayed : Handle(r) BY <4>2 DEF Arrive
        <5>2. UNCHANGED <<call, saved>> BY <4>2 DEF Arrive
        <5> QED BY <3>0, <5>1, <5>2, ArriveCore
      <4> QED BY <2>1, <3>0, <3>1, <4>1, <4>2, InitiateCore, ReconcileCore, ChunkCore, MismatchCore, FinalizeCore,
                 CallerCore DEF Next, UploadArchive
    <3> QED BY <3>1, <3>2 DEF IInv
  <2>2. ASSUME IInv, UNCHANGED vars PROVE IInv'
    BY <2>2 DEF vars, IInv, Core, Around, Active, DataKept
  <2> QED BY <2>1, <2>2
<1> QED BY Start, <1>1, PTL DEF Spec

-----------------------------------------------------------------------------
(* Theorems *)

\* The call, the saved state, the breaker and the session keep their types: no offset or chunk
\* leaves the archive, and no counter passes its limit.
THEOREM ClientTypeCorrect == Spec => []TypeOK
<1>1. IInv => TypeOK BY DEF IInv, Core, Around, TypeOK
<1> QED BY Invariance, <1>1, PTL

\* Scout takes a backup for uploaded only when Station has it.
THEOREM SuccessAlwaysStored == Spec => []SuccessIsStored
<1>1. IInv => SuccessIsStored BY DEF IInv, Core, SuccessIsStored
<1> QED BY Invariance, <1>1, PTL

\* As long as Station keeps what it received, neither the offset of a call nor the one that
\* survives a restart of Scout is ahead of Station.
THEOREM NeverGetsAhead == Spec => []NeverAhead
<1>1. IInv => NeverAhead BY DEF IInv, Core, Active, NeverAhead
<1> QED BY Invariance, <1>1, PTL

-----------------------------------------------------------------------------
(* Why a call ends: what every step of it brings nearer to an end *)

\* Initiation and reconciliation come before the chunks they make room for.
Before == [initiate |-> 2, reconcile |-> 1, chunk |-> 0, finalize |-> 0]

\* d is a later state of a call than c: more of the archive is sent, or more of the attempts at
\* this offset are used up, or the phase is a later one, or more of its own tries are.
Closer(d, c) ==
  \/ d.offset > c.offset
  \/ d.offset = c.offset /\ d.attempt > c.attempt
  \/ d.offset = c.offset /\ d.attempt = c.attempt /\ Before[d.pc] < Before[c.pc]
  \/ d.offset = c.offset /\ d.attempt = c.attempt /\ d.pc = c.pc /\ d.tries > c.tries

CallShortens ==
  call.pc # "idle" =>
    \/ call'.pc = "idle"
    \/ Closer(call', call)
    \/ ~UploadArchive /\ call' = call

\* A call starts from nothing.
Fresh == call.pc = "initiate" => call.offset = 0 /\ call.attempt = 0

\* What a step of UploadArchive makes of the call.
Nearer ==
  \/ call' = NoCall
  \/ /\ Closer(call', call)
     /\ call'.pc = "initiate" => call.pc = "initiate" /\ call'.offset = call.offset /\ call'.attempt = call.attempt

LEMMA RetryPhaseNearer ==
  ASSUME Core, call.pc # "idle", RetryPhase
  PROVE  Nearer
<1>0. call \in Call BY DEF Core
<1>1. CASE call.tries + 1 >= MaxRetryAttempts BY <1>1 DEF RetryPhase, ReturnRetry, GiveUp, Nearer
<1>2. CASE ~(call.tries + 1 >= MaxRetryAttempts)
  <2>1. call' = [call EXCEPT !.tries = @ + 1] BY <1>2 DEF RetryPhase
  <2>2. call'.tries = call.tries + 1 /\ call.tries \in Nat /\ call'.pc = call.pc
        /\ call'.offset = call.offset /\ call'.attempt = call.attempt
    BY <1>0, <2>1, LimitsAssumption DEF Call
  <2> QED BY <2>2 DEF Nearer, Closer
<1> QED BY <1>1, <1>2

LEMMA RetryChunkNearer ==
  ASSUME Core, call.pc = "chunk", RetryChunk
  PROVE  Nearer
<1>0. call \in Call BY DEF Core
<1>1. CASE call.attempt + 1 >= MaxRetryAttempts BY <1>1 DEF RetryChunk, ReturnRetry, GiveUp, Nearer
<1>2. CASE ~(call.attempt + 1 >= MaxRetryAttempts)
  <2>1. call' = [call EXCEPT !.pc = "reconcile", !.attempt = @ + 1, !.tries = 0] BY <1>2 DEF RetryChunk
  <2>2. call'.attempt = call.attempt + 1 /\ call.attempt \in Nat /\ call'.pc = "reconcile"
        /\ call'.offset = call.offset
    BY <1>0, <2>1, LimitsAssumption DEF Call
  <2> QED BY <2>2 DEF Nearer, Closer
<1> QED BY <1>1, <1>2

LEMMA InitiateNearer ==
  ASSUME Core, Around, Fresh, InitiateAnswered
  PROVE  Nearer
<1>0. call \in Call /\ saved \in Saved /\ call.pc = "initiate" /\ call.offset = 0 /\ call.attempt = 0
  BY DEF Core, InitiateAnswered, Fresh
<1>1. PICK s \in Initiated :
        IF InitiateReply(s).completed
        THEN Return("success")
        ELSE \E chunk \in InitialChunks :
               Progress([NoCall EXCEPT !.pc = NextPhase(ResumeFrom(InitiateReply(s))), !.id = InitiateReply(s).id,
                                       !.offset = ResumeFrom(InitiateReply(s)), !.chunk = chunk])
  BY DEF InitiateAnswered
<1>2. CASE InitiateReply(s).completed BY <1>1, <1>2 DEF Return, Nearer
<1>3. CASE ~InitiateReply(s).completed
  <2>1. PICK offset : offset = ResumeFrom(InitiateReply(s)) OBVIOUS
  <2>2. InitiateReply(s).next \in 0..Blocks BY InitiatedIs
  <2>3. offset \in 0..Blocks BY <1>0, <2>1, <2>2, SizesAssumption DEF ResumeFrom, Larger, Saved
  <2>4. \E chunk \in InitialChunks :
          call' = [NoCall EXCEPT !.pc = NextPhase(offset), !.id = InitiateReply(s).id, !.offset = offset, !.chunk = chunk]
    BY <1>1, <1>3, <2>1 DEF Progress
  <2>5. call'.pc = NextPhase(offset) /\ call'.offset = offset /\ call'.attempt = 0
    BY <2>4 DEF NoCall
  <2>6. call'.pc \in {"chunk", "finalize"} BY <2>3, <2>5, NextPhaseIs
  <2> QED BY <1>0, <2>3, <2>5, <2>6 DEF Nearer, Closer, Before
<1> QED BY <1>2, <1>3

LEMMA ReconcileNearer ==
  ASSUME Core, Around, ReconcileAnswered
  PROVE  Nearer
<1>0. call \in Call /\ call.pc = "reconcile" BY DEF Core, ReconcileAnswered
<1>1. PICK s \in Initiated :
        LET offset == Larger(call.offset, InitiateReply(s).next)
            smaller == IF call.chunk > 2 * MinChunk THEN call.chunk \div 2 ELSE MinChunk
        IN Progress([call EXCEPT !.pc = NextPhase(offset), !.offset = offset, !.chunk = smaller, !.tries = 0])
  BY DEF ReconcileAnswered
<1>2. PICK offset, smaller :
        /\ offset = Larger(call.offset, InitiateReply(s).next)
        /\ Progress([call EXCEPT !.pc = NextPhase(offset), !.offset = offset, !.chunk = smaller, !.tries = 0])
  BY <1>1
<1>3. InitiateReply(s).next \in 0..Blocks BY InitiatedIs
<1>4. offset \in 0..Blocks /\ offset >= call.offset /\ call.offset \in 0..Blocks /\ call.attempt \in Nat
  BY <1>0, <1>2, <1>3, SizesAssumption, LimitsAssumption DEF Larger, Call
<1>5. call'.pc = NextPhase(offset) /\ call'.offset = offset /\ call'.attempt = call.attempt
  BY <1>0, <1>2 DEF Progress, Call
<1>6. call'.pc \in {"chunk", "finalize"} BY <1>4, <1>5, NextPhaseIs
<1> QED BY <1>0, <1>4, <1>5, <1>6 DEF Nearer, Closer, Before

LEMMA ChunkNearer ==
  ASSUME Core, Around, ChunkAccepted
  PROVE  Nearer
<1>0. call \in Call /\ call.pc = "chunk" /\ call.offset < Blocks /\ call.offset \in 0..Blocks
  BY DEF ChunkAccepted, Core, Call
<1>1. PICK offset :
        /\ offset = IF station.completed THEN Blocks ELSE ChunkRequest.offset + ChunkRequest.blocks
        /\ Progress([Streak(call) EXCEPT !.pc = NextPhase(offset), !.offset = offset, !.attempt = 0])
  BY DEF ChunkAccepted
<1>2. ChunkRequest \in Requests /\ ChunkRequest.offset = call.offset /\ ChunkRequest.blocks >= 1
      /\ ChunkRequest.offset + ChunkRequest.blocks <= Blocks /\ ChunkRequest.pc = "chunk"
  BY <1>0, RequestIs
<1>3. ChunkRequest.blocks \in Nat BY <1>2, SizesAssumption DEF Requests
<1>4. offset \in 0..Blocks /\ offset > call.offset BY <1>0, <1>1, <1>2, <1>3, SizesAssumption
<1>5. call'.offset = offset /\ call'.pc = NextPhase(offset)
  BY <1>0, <1>1, StreakIs DEF Progress, Call
<1>6. call'.pc # "initiate" BY <1>4, <1>5, NextPhaseIs
<1> QED BY <1>4, <1>5, <1>6 DEF Nearer, Closer

LEMMA MismatchNearer ==
  ASSUME Core, Around, ChunkMismatch
  PROVE  Nearer
<1>0. call \in Call /\ station \in Session /\ call.pc = "chunk" BY DEF ChunkMismatch, Core
<1>1. CASE station.size > call.offset
  <2>1. call' = [call EXCEPT !.pc = NextPhase(station.size), !.offset = station.size, !.streak = 0, !.attempt = 0]
    BY <1>1 DEF ChunkMismatch, Progress
  <2>2. call'.offset = station.size /\ call'.pc = NextPhase(station.size) BY <1>0, <2>1 DEF Call
  <2>3. call'.pc # "initiate" BY <1>0, <2>2, NextPhaseIs DEF Session
  <2> QED BY <1>1, <2>2, <2>3 DEF Nearer, Closer
<1>2. CASE ~(station.size > call.offset) BY <1>0, <1>2, RetryChunkNearer DEF ChunkMismatch
<1> QED BY <1>1, <1>2

LEMMA FinalizeNearer ==
  ASSUME Core, FinalizeAccepted \/ FinalizeConflict \/ SessionGone
  PROVE  Nearer
<1>0. call \in Call BY DEF Core
<1>1. CASE FinalizeAccepted \/ SessionGone BY <1>1 DEF FinalizeAccepted, SessionGone, Return, Nearer
<1>2. CASE FinalizeConflict
  <2>1. call.pc = "finalize" BY <1>2 DEF FinalizeConflict
  <2>2. CASE RetryPhase BY <2>1, <2>2, RetryPhaseNearer
  <2>3. CASE GiveUp(Finalized(FinalizeRequest)) BY <2>3 DEF GiveUp, Nearer
  <2>4. CASE call' = [call EXCEPT !.tries = @ + 1]
    <3>1. call'.tries = call.tries + 1 /\ call.tries \in Nat /\ call'.pc = call.pc
          /\ call'.offset = call.offset /\ call'.attempt = call.attempt
      BY <1>0, <2>4, LimitsAssumption DEF Call
    <3> QED BY <3>1 DEF Nearer, Closer
  <2> QED BY <1>2, <2>2, <2>3, <2>4 DEF FinalizeConflict
<1> QED BY <1>1, <1>2

LEMMA UploadNearer ==
  ASSUME Core, Around, Fresh, UploadArchive
  PROVE  Nearer
<1>1. CASE Refused \/ Lost \/ Delay
  <2>1. call.pc # "idle" /\ Retry BY <1>1 DEF Refused, Lost, Delay
  <2> QED BY <2>1, RetryPhaseNearer, RetryChunkNearer DEF Retry
<1> QED BY <1>1, InitiateNearer, ReconcileNearer, ChunkNearer, MismatchNearer, FinalizeNearer DEF UploadArchive

\* The other steps begin a call, end it, or leave it alone.
LEMMA OthersKeepCall ==
  ASSUME Next, ~UploadArchive
  PROVE  \/ call' = call
         \/ call' = NoCall
         \/ call.pc = "idle" /\ call' = [NoCall EXCEPT !.pc = "initiate"]
BY DEF Next, Begin, ForceSend, Interrupt, Arrive, Expire, Cooldown, OtherRequest

LEMMA FreshAlways == Spec => []Fresh
<1>1. Init => Fresh BY DEF Init, NoCall, Fresh
<1>2. IInv /\ Fresh /\ [Next]_vars => Fresh'
  <2>1. ASSUME IInv, Fresh, UploadArchive PROVE Fresh'
    BY <2>1, UploadNearer, NoCallType DEF IInv, Nearer, Fresh
  <2>2. ASSUME Fresh, Next, ~UploadArchive PROVE Fresh'
    BY <2>2, OthersKeepCall, NoCallType DEF Fresh, NoCall
  <2>3. ASSUME Fresh, UNCHANGED vars PROVE Fresh' BY <2>3 DEF Fresh, vars
  <2> QED BY <2>1, <2>2, <2>3
<1> QED BY <1>1, <1>2, Invariance, PTL DEF Spec

\* Every step of a call of UploadArchive ends it or brings it nearer to an end, also when nothing
\* is answered, when Station is behind, and when its data are thrown away: no retry, reconciliation
\* or resumption starts a round that could go on for ever.  With the weak fairness of UploadArchive
\* this is why calls return (CallsReturn).
THEOREM CallsShorten == Spec => [][CallShortens]_vars
<1>1. IInv /\ Fresh /\ [Next]_vars => [CallShortens]_vars
  <2>1. ASSUME IInv, Fresh, UploadArchive PROVE CallShortens
    BY <2>1, UploadNearer, NoCallType DEF IInv, Nearer, CallShortens
  <2>2. ASSUME Next, ~UploadArchive PROVE CallShortens
    BY <2>2, OthersKeepCall, NoCallType DEF CallShortens
  <2> QED BY <2>1, <2>2
<1> QED BY <1>1, Invariance, FreshAlways, PTL DEF Spec
=============================================================================
