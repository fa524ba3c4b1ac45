------------------------- MODULE ScoutControlProofs -------------------------
(***************************************************************************)
(* Theorems about ScoutControl, for any schedules, delays and bounds.      *)
(*                                                                         *)
(* PlanHolds says when the loop may rely on the plan it computed: a new    *)
(* schedule either is announced by a token, or its token is still to come. *)
(* Agreement says, for each place a settings request may have reached,     *)
(* which of the runner, the scheduler and the database have its draft.     *)
(* ToRequest and ToStop are the ways of the loop to what it owes.          *)
(***************************************************************************)
EXTENDS ScoutControl, TLAPS

PlanHolds ==
  /\ loop \in {"publish", "select"} /\ ~wakeCh /\ ~Waking => plan.cron = sched
  /\ loop = "select" /\ ~wakeCh /\ ~Waking => nextRunAt = plan.at

\* What the planned time was computed for is still so when it comes.
PlanIsLate ==
  loop \in {"publish", "select"} =>
    IF lastCompletedAt = None THEN plan.at >= StartupDelay
                              ELSE plan.at >= lastCompletedAt + MinimumGap

HooksAgree == settings.hooks = stored.hooks \/ unsaved

Agree ==
  /\ settings.cron = sched
  /\ (settings.cron = stored.cron /\ settings.paused = stored.paused) \/ lost
  /\ HooksAgree

Under(kind, at) == handler # NoHandler /\ handler.kind = kind /\ handler.at = at

Agreement ==
  /\ handler = NoHandler => Agree
  /\ handler # NoHandler =>
       \/ Under("save", "update") /\ Agree /\ handler.draft.hooks = settings.hooks
       \/ /\ handler.kind = "save" /\ handler.at \in {"reload", "wake", "store"}
          /\ settings = handler.draft /\ HooksAgree
          /\ handler.at = "reload" \/ sched = settings.cron
       \/ /\ Under("pause", "update") /\ Agree
          /\ handler.draft.cron = settings.cron /\ handler.draft.hooks = settings.hooks
       \/ /\ Under("pause", "store") /\ HooksAgree
          /\ settings = handler.draft /\ sched = settings.cron
       \/ /\ Under("hooks", "store") /\ Agree
          /\ handler.draft.cron = settings.cron /\ handler.draft.paused = settings.paused
       \/ /\ Under("hooks", "update") /\ stored = handler.draft
          /\ settings.cron = stored.cron /\ settings.paused = stored.paused /\ settings.cron = sched

IInv == PausedMeansNoCycle /\ PlanHolds /\ PlanIsLate /\ Agreement

-----------------------------------------------------------------------------
(* Types *)

LEMMA NextAfterType ==
  ASSUME NEW cron \in Schedules, NEW t \in Nat
  PROVE  NextAfter(cron, t) \in Nat
<1>1. Period[cron] \in Nat /\ Period[cron] > 0 BY SchedulerAssumption
<1>2. PICK p \in Nat : p = Period[cron] /\ p > 0 BY <1>1
<1>3. t \div p \in Nat BY <1>2, SMT
<1>4. PICK q \in Nat : q = t \div p + 1 BY <1>3
<1>5. q * p \in Nat BY SMT
<1> QED BY <1>2, <1>4, <1>5 DEF NextAfter

LEMMA NextRunAtType ==
  ASSUME TypeOK, NEW cron \in Schedules
  PROVE  /\ NextRunAt(cron) \in Nat
         /\ IF lastCompletedAt = None THEN NextRunAt(cron) >= StartupDelay
                                      ELSE NextRunAt(cron) >= lastCompletedAt + MinimumGap
<1>0. /\ clock \in Nat /\ MaxClock \in Nat /\ StartupDelay \in Nat /\ MinimumGap \in Nat
      /\ lastCompletedAt \in Nat \cup {None} /\ None \notin Nat
  BY SchedulerAssumption DEF TypeOK, SchedulerTypeOK
<1>1. CASE lastCompletedAt = None
  BY <1>0, <1>1, NextAfterType DEF NextRunAt, Later
<1>2. CASE lastCompletedAt # None
  <2>1. NextAfter(cron, lastCompletedAt) \in Nat BY <1>0, <1>2, NextAfterType
  <2> QED BY <1>0, <1>2, <2>1 DEF NextRunAt, Later
<1> QED BY <1>1, <1>2

LEMMA LoopType ==
  ASSUME TypeOK, Loop, UNCHANGED control
  PROVE  TypeOK'
<1> USE SchedulerAssumption
<1>1. CASE LoopTop BY <1>1 DEF LoopTop, TypeOK, SchedulerTypeOK, LoopPc, mailbox, control
<1>2. CASE LoopConsume BY <1>2 DEF LoopConsume, TypeOK, SchedulerTypeOK, LoopPc, mailbox, control
<1>3. CASE LoopPlan
  <2>1. NextRunAt(sched) \in Nat BY NextRunAtType DEF TypeOK, SchedulerTypeOK
  <2>2. plan' \in [at : Nat, cron : Schedules] /\ plan' # None
    BY <1>3, <2>1 DEF LoopPlan, TypeOK, SchedulerTypeOK
  <2> QED BY <1>3, <2>2 DEF LoopPlan, TypeOK, SchedulerTypeOK, LoopPc, mailbox, control
<1>4. CASE LoopPublish BY <1>4 DEF LoopPublish, TypeOK, SchedulerTypeOK, LoopPc, mailbox, control
<1>5. CASE LoopSelectStop \/ LoopSelectWake \/ LoopSelectTimer
  BY <1>5, ZenonT(60) DEF LoopSelectStop, LoopSelectWake, LoopSelectTimer, TypeOK, SchedulerTypeOK, LoopPc, mailbox, control
<1>6. CASE LoopBegin \/ LoopEnd
  BY <1>6 DEF LoopBegin, LoopEnd, TypeOK, SchedulerTypeOK, LoopPc, mailbox, control
<1> QED BY <1>1, <1>2, <1>3, <1>4, <1>5, <1>6 DEF Loop

LEMMA RequestType ==
  ASSUME TypeOK, RequestRunNow \/ RunNowWakes \/ Stop \/ StopReturns \/ Tick, UNCHANGED control
  PROVE  TypeOK'
<1> USE SchedulerAssumption
<1>1. CASE RequestRunNow \/ RunNowWakes
  <2>1. MaxRequests \in Nat /\ requests \in 0..MaxRequests /\ wakers \in 0..requests
    BY DEF TypeOK, SchedulerTypeOK
  <2>2. requests' \in 0..MaxRequests /\ wakers' \in 0..requests'
    BY <1>1, <2>1 DEF RequestRunNow, RunNowWakes
  <2>3. {runNowRequested', wakeCh', stopCh'} \subseteq BOOLEAN
    BY <1>1 DEF RequestRunNow, RunNowWakes, TypeOK, SchedulerTypeOK
  <2>4. UNCHANGED <<clock, loop, state, sched, nextRunAt, plan, lastCompletedAt, stopper>>
    BY <1>1 DEF RequestRunNow, RunNowWakes
  <2>5. SchedulerTypeOK' BY <2>2, <2>3, <2>4 DEF TypeOK, SchedulerTypeOK
  <2> QED BY <2>4, <2>5 DEF TypeOK, control
<1>2. CASE Stop \/ StopReturns
  BY <1>2, ZenonT(60) DEF Stop, StopReturns, TypeOK, SchedulerTypeOK, LoopPc, mailbox, control
<1>3. CASE Tick BY <1>3 DEF Tick, TypeOK, SchedulerTypeOK, LoopPc, mailbox, control
<1> QED BY <1>1, <1>2, <1>3

LEMMA CycleType ==
  ASSUME TypeOK, RunCycle \/ Other
  PROVE  TypeOK'
<1> USE SchedulerAssumption, ControlAssumption
<1>1. CASE CycleSkipped
  BY <1>1 DEF CycleSkipped, Move, TypeOK, SchedulerTypeOK, LoopPc, mailbox, control
<1>2. CASE CycleBegins \/ CycleFinishes
  BY <1>2 DEF CycleBegins, CycleFinishes, Move, Busy, TypeOK, SchedulerTypeOK, LoopPc, mailbox
<1>3. CASE OtherBegins \/ OtherFinishes
  BY <1>3 DEF OtherBegins, OtherFinishes, Busy, Counted, TypeOK, SchedulerTypeOK, LoopPc, schedulerVars
<1> QED BY <1>1, <1>2, <1>3 DEF RunCycle, Other

\* A settings request on its way.
LEMMA ProceedType ==
  ASSUME TypeOK, handler # NoHandler, NEW place \in {"update", "reload", "wake", "store", "done"},
         Proceed(place)
  PROVE  handler' \in [kind : Kinds, at : {"update", "reload", "wake", "store"}, draft : Settings]
                        \cup {NoHandler}
BY DEF TypeOK, Proceed

LEMMA ChangeType ==
  ASSUME TypeOK, Change
  PROVE  TypeOK'
<1> USE SchedulerAssumption, ControlAssumption
<1>0. handler # NoHandler => handler.draft \in Settings /\ handler.kind \in Kinds BY DEF TypeOK
<1>a. \A kind : AfterUpdate(kind) \in {"reload", "store", "done"} /\ AfterStore(kind) \in {"update", "done"}
  BY DEF AfterUpdate, AfterStore
<1>1. ASSUME UpdateSettings PROVE TypeOK'
  <2>1. handler' \in [kind : Kinds, at : {"update", "reload", "wake", "store"}, draft : Settings]
                      \cup {NoHandler}
    BY <1>1, <1>a, ProceedType DEF UpdateSettings
  <2> QED BY <1>0, <1>1, <2>1 DEF UpdateSettings, TypeOK, SchedulerTypeOK, schedulerVars
<1>2. ASSUME RefuseSettings PROVE TypeOK'
  BY <1>2 DEF RefuseSettings, TypeOK, SchedulerTypeOK, schedulerVars
<1>3. ASSUME Reload PROVE TypeOK'
  <2>1. handler' \in [kind : Kinds, at : {"update", "reload", "wake", "store"}, draft : Settings]
                      \cup {NoHandler}
    BY <1>3, ProceedType DEF Reload
  <2>2. handler.draft.cron \in Schedules BY <1>0, <1>3 DEF Reload, Settings
  <2> QED BY <1>3, <2>1, <2>2 DEF Reload, ReloadSettings, TypeOK, SchedulerTypeOK
<1>4. ASSUME WakeAfterReload PROVE TypeOK'
  <2>1. handler' \in [kind : Kinds, at : {"update", "reload", "wake", "store"}, draft : Settings]
                      \cup {NoHandler}
    BY <1>4, ProceedType DEF WakeAfterReload
  <2> QED BY <1>4, <2>1 DEF WakeAfterReload, ReloadWakes, TypeOK, SchedulerTypeOK, mailbox
<1>5. ASSUME StoreSettings PROVE TypeOK'
  <2>1. handler' \in [kind : Kinds, at : {"update", "reload", "wake", "store"}, draft : Settings]
                      \cup {NoHandler}
    BY <1>5, <1>a, ProceedType DEF StoreSettings
  <2> QED BY <1>0, <1>5, <2>1 DEF StoreSettings, TypeOK, SchedulerTypeOK, schedulerVars
<1>6. ASSUME StoreFails PROVE TypeOK'
  BY <1>6 DEF StoreFails, TypeOK, SchedulerTypeOK, schedulerVars
<1> QED BY <1>1, <1>2, <1>3, <1>4, <1>5, <1>6 DEF Change

LEMMA DraftType ==
  ASSUME TypeOK, NEW kind \in Kinds, NEW draft \in Drafts(kind)
  PROVE  /\ draft \in Settings
         /\ kind = "save" => draft.hooks = settings.hooks
         /\ kind = "pause" => draft.cron = settings.cron /\ draft.hooks = settings.hooks
         /\ kind = "hooks" => draft.cron = settings.cron /\ draft.paused = settings.paused
<1>0. settings \in Settings BY DEF TypeOK
<1>1. CASE kind = "save" BY <1>1 DEF Drafts, Settings
<1>2. CASE kind = "pause"
  <2>1. PICK p \in BOOLEAN : draft = [settings EXCEPT !.paused = p] BY <1>2 DEF Drafts
  <2> QED BY <1>0, <1>2, <2>1 DEF Settings
<1>3. CASE kind = "hooks"
  <2>1. draft = [settings EXCEPT !.hooks = "some"] BY <1>3 DEF Drafts
  <2> QED BY <1>0, <1>3, <2>1 DEF Settings
<1> QED BY <1>1, <1>2, <1>3 DEF Kinds

LEMMA TypeStep == TypeOK /\ [Next]_vars => TypeOK'
<1> USE SchedulerAssumption, ControlAssumption
<1>1. ASSUME TypeOK, UNCHANGED vars PROVE TypeOK'
  BY <1>1 DEF vars, schedulerVars, control, TypeOK, SchedulerTypeOK
<1>2. ASSUME TypeOK, Schedule PROVE TypeOK'
  BY <1>2, LoopType, RequestType DEF Schedule
<1>3. ASSUME TypeOK, Restart PROVE TypeOK'
  <2>1. stored.cron \in Schedules BY <1>3 DEF TypeOK, Settings
  <2>2. events' \in 0..MaxEvents BY <1>3 DEF Restart, Counted, TypeOK
  <2>3. requests' \in 0..MaxRequests /\ wakers' \in 0..requests' /\ clock' \in 0..MaxClock
    BY <1>3 DEF Restart, TypeOK, SchedulerTypeOK
  <2>4. SchedulerTypeOK' BY <1>3, <2>1, <2>3 DEF Restart, TypeOK, SchedulerTypeOK, LoopPc
  <2> QED BY <1>3, <2>2, <2>4 DEF Restart, TypeOK
<1>4. ASSUME TypeOK, NEW kind \in Kinds, Receive(kind) PROVE TypeOK'
  <2>1. PICK draft \in Drafts(kind) : handler' = [kind |-> kind, at |-> FirstPlace(kind), draft |-> draft]
    BY <1>4 DEF Receive
  <2>2. FirstPlace(kind) \in {"update", "store"} BY DEF FirstPlace
  <2>3. handler' \in [kind : Kinds, at : {"update", "reload", "wake", "store"}, draft : Settings]
    BY <1>4, <2>1, <2>2, DraftType
  <2> QED BY <1>4, <2>3 DEF Receive, Counted, TypeOK, SchedulerTypeOK, schedulerVars
<1> QED BY <1>1, <1>2, <1>3, <1>4, CycleType, ChangeType DEF Next

-----------------------------------------------------------------------------
(* Agreement: a step of a request carries its draft to one place. *)

LEMMA ProceedTo ==
  ASSUME TypeOK, handler # NoHandler, NEW place \in {"update", "reload", "wake", "store"}, Proceed(place)
  PROVE  /\ handler' # NoHandler /\ handler'.at = place
         /\ handler'.kind = handler.kind /\ handler'.draft = handler.draft
<1>1. handler \in [kind : Kinds, at : {"update", "reload", "wake", "store"}, draft : Settings] BY DEF TypeOK
<1>2. handler' = [handler EXCEPT !.at = place] BY DEF Proceed
<1>3. /\ handler'.at = place /\ handler'.kind = handler.kind /\ handler'.draft = handler.draft
  BY <1>1, <1>2
<1>4. handler'.kind # "none" BY <1>1, <1>3 DEF Kinds
<1> QED BY <1>3, <1>4 DEF NoHandler

LEMMA AgreementStep ==
  ASSUME TypeOK, Agreement, Next
  PROVE  Agreement'
<1>1. ASSUME UNCHANGED <<handler, settings, stored, unsaved, lost, sched>> PROVE Agreement'
  BY <1>1 DEF Agreement, Agree, HooksAgree, Under
<1>2. ASSUME Schedule \/ RunCycle \/ Other PROVE Agreement'
  <2>1. UNCHANGED sched
    BY <1>2 DEF Schedule, RunCycle, Other, Loop, LoopTop, LoopConsume, LoopPlan, LoopPublish, LoopSelectStop,
                LoopSelectWake, LoopSelectTimer, LoopBegin, LoopEnd, RequestRunNow, RunNowWakes, Stop, StopReturns,
                Tick, CycleSkipped, CycleBegins, CycleFinishes, Move, OtherBegins, OtherFinishes,
                mailbox, schedulerVars
  <2>2. UNCHANGED <<handler, settings, stored, unsaved, lost>>
    BY <1>2 DEF Schedule, RunCycle, Other, CycleSkipped, CycleBegins, CycleFinishes, OtherBegins, OtherFinishes,
                control
  <2> QED BY <1>1, <2>1, <2>2
<1>3. ASSUME UpdateSettings PROVE Agreement'
  <2>0. /\ handler # NoHandler /\ handler.at = "update" /\ Proceed(AfterUpdate(handler.kind))
        /\ settings' = handler.draft /\ stored' = stored /\ sched' = sched
        /\ unsaved' = (unsaved /\ handler.kind # "hooks") /\ lost' = lost
    BY <1>3 DEF UpdateSettings, schedulerVars
  <2>1. CASE handler.kind = "save"
    <3>1. AfterUpdate(handler.kind) = "reload" BY <2>1 DEF AfterUpdate
    <3> QED BY <2>0, <2>1, <3>1, ProceedTo DEF Agreement, Agree, HooksAgree, Under
  <2>2. CASE handler.kind = "pause"
    <3>1. AfterUpdate(handler.kind) = "store" BY <2>2 DEF AfterUpdate, FirstPlace
    <3> QED BY <2>0, <2>2, <3>1, ProceedTo DEF Agreement, Agree, HooksAgree, Under
  <2>3. CASE handler.kind = "hooks"
    <3>1. handler' = NoHandler BY <2>0, <2>3 DEF AfterUpdate, FirstPlace, Proceed
    <3> QED BY <2>0, <2>3, <3>1 DEF Agreement, Agree, HooksAgree, Under
  <2> QED BY <2>0, <2>1, <2>2, <2>3 DEF TypeOK, Kinds
<1>4. ASSUME RefuseSettings PROVE Agreement'
  BY <1>4 DEF RefuseSettings, Agreement, Agree, HooksAgree, Under, schedulerVars
<1>5. ASSUME Reload PROVE Agreement'
  <2>1. handler' # NoHandler /\ handler'.at = "wake" /\ handler'.kind = handler.kind
        /\ handler'.draft = handler.draft
    BY <1>5, ProceedTo DEF Reload
  <2> QED BY <1>5, <2>1 DEF Reload, ReloadSettings, Agreement, HooksAgree, Under
<1>6. ASSUME WakeAfterReload PROVE Agreement'
  <2>1. handler' # NoHandler /\ handler'.at = "store" /\ handler'.kind = handler.kind
        /\ handler'.draft = handler.draft
    BY <1>6, ProceedTo DEF WakeAfterReload
  <2> QED BY <1>6, <2>1 DEF WakeAfterReload, ReloadWakes, mailbox, Agreement, HooksAgree, Under
<1>7. ASSUME StoreSettings PROVE Agreement'
  <2>0. /\ handler # NoHandler /\ handler.at = "store" /\ Proceed(AfterStore(handler.kind))
        /\ stored' = handler.draft /\ settings' = settings /\ sched' = sched
        /\ unsaved' = (unsaved /\ handler.kind = "hooks") /\ lost' = FALSE
    BY <1>7 DEF StoreSettings, schedulerVars
  <2>1. CASE handler.kind = "hooks"
    <3>1. AfterStore(handler.kind) = "update" BY <2>1 DEF AfterStore, FirstPlace
    <3> QED BY <2>0, <2>1, <3>1, ProceedTo DEF Agreement, Agree, HooksAgree, Under
  <2>2. CASE handler.kind # "hooks"
    <3>1. handler' = NoHandler BY <2>0, <2>2 DEF AfterStore, FirstPlace, Proceed
    <3> QED BY <2>0, <2>2, <3>1 DEF Agreement, Agree, HooksAgree, Under
  <2> QED BY <2>1, <2>2
<1>8. ASSUME Restart PROVE Agreement'
  BY <1>8 DEF Restart, Agreement, Agree, HooksAgree
<1>9. ASSUME NEW kind \in Kinds, Receive(kind) PROVE Agreement'
  <2>1. PICK draft \in Drafts(kind) : handler' = [kind |-> kind, at |-> FirstPlace(kind), draft |-> draft]
    BY <1>9 DEF Receive
  <2>2. Agree' BY <1>9 DEF Receive, Agreement, Agree, HooksAgree, schedulerVars
  <2>3. UNCHANGED settings BY <1>9 DEF Receive
  <2>4. handler' # NoHandler
    <3>1. handler'.kind # "none" BY <2>1 DEF Kinds
    <3> QED BY <3>1 DEF NoHandler
  <2>5. handler'.kind = kind /\ handler'.at = FirstPlace(kind) /\ handler'.draft = draft BY <2>1
  <2> QED BY <2>2, <2>3, <2>4, <2>5, DraftType DEF Agreement, Agree, HooksAgree, Under, FirstPlace, Kinds
<1>10. ASSUME StoreFails PROVE Agreement'
  <2>1. /\ handler # NoHandler /\ handler.at = "store" /\ handler' = NoHandler
        /\ UNCHANGED <<settings, stored, unsaved, sched>>
        /\ lost' = (lost \/ handler.kind # "hooks")
    BY <1>10 DEF StoreFails, FirstPlace, schedulerVars
  <2> QED BY <2>1 DEF Agreement, Agree, HooksAgree, Under
<1> QED BY <1>2, <1>3, <1>4, <1>5, <1>6, <1>7, <1>8, <1>9, <1>10 DEF Next, Change

-----------------------------------------------------------------------------
(* The plan and the pause. *)

LEMMA PlanStep ==
  ASSUME TypeOK, PlanHolds, PlanIsLate, Next
  PROVE  PlanHolds' /\ PlanIsLate'
<1>1. ASSUME Schedule PROVE PlanHolds' /\ PlanIsLate'
  <2>0. UNCHANGED Waking BY <1>1 DEF Schedule, control, Waking
  <2>1. CASE LoopPlan
    <3>1. plan'.at = NextRunAt(sched) /\ plan'.cron = sched BY <2>1 DEF LoopPlan
    <3>2. sched \in Schedules BY DEF TypeOK, SchedulerTypeOK
    <3> QED BY <2>1, <3>1, <3>2, NextRunAtType DEF LoopPlan, PlanHolds, PlanIsLate, mailbox
  <2>2. CASE LoopTop \/ LoopConsume \/ LoopPublish
    BY <2>0, <2>2 DEF LoopTop, LoopConsume, LoopPublish, PlanHolds, PlanIsLate, mailbox
  <2>3. CASE LoopSelectStop \/ LoopSelectWake \/ LoopSelectTimer \/ LoopBegin \/ LoopEnd
    BY <2>3 DEF LoopSelectStop, LoopSelectWake, LoopSelectTimer, LoopBegin, LoopEnd, PlanHolds, PlanIsLate
  <2>4. CASE RequestRunNow \/ RunNowWakes \/ Tick
    BY <2>0, <2>4 DEF RequestRunNow, RunNowWakes, Tick, PlanHolds, PlanIsLate, mailbox
  <2>5. CASE Stop \/ StopReturns
    BY <2>5 DEF Stop, StopReturns, PlanHolds, PlanIsLate
  <2> QED BY <1>1, <2>1, <2>2, <2>3, <2>4, <2>5 DEF Schedule, Loop
<1>2. ASSUME RunCycle PROVE PlanHolds' /\ PlanIsLate'
  BY <1>2 DEF RunCycle, CycleSkipped, CycleBegins, CycleFinishes, Move, PlanHolds, PlanIsLate
<1>3. ASSUME UNCHANGED schedulerVars, ~Waking PROVE PlanHolds' /\ PlanIsLate'
  BY <1>3 DEF schedulerVars, PlanHolds, PlanIsLate
<1>4. ASSUME UNCHANGED <<schedulerVars, handler>> PROVE PlanHolds' /\ PlanIsLate'
  BY <1>4 DEF schedulerVars, PlanHolds, PlanIsLate, Waking
<1>5. ASSUME Reload PROVE PlanHolds' /\ PlanIsLate'
  <2>1. Waking' BY <1>5, ProceedTo DEF Reload, Waking
  <2> QED BY <1>5, <2>1 DEF Reload, ReloadSettings, PlanHolds, PlanIsLate
<1>6. ASSUME WakeAfterReload PROVE PlanHolds' /\ PlanIsLate'
  BY <1>6 DEF WakeAfterReload, ReloadWakes, PlanHolds, PlanIsLate, mailbox
<1>7. ASSUME UpdateSettings \/ RefuseSettings \/ StoreSettings \/ StoreFails PROVE PlanHolds' /\ PlanIsLate'
  BY <1>3, <1>7 DEF UpdateSettings, RefuseSettings, StoreSettings, StoreFails, Waking
<1>8. ASSUME Restart PROVE PlanHolds' /\ PlanIsLate'
  BY <1>8 DEF Restart, PlanHolds, PlanIsLate
<1>9. ASSUME NEW kind \in Kinds, Receive(kind) PROVE PlanHolds' /\ PlanIsLate'
  BY <1>3, <1>9 DEF Receive, Waking
<1>10. ASSUME Other PROVE PlanHolds' /\ PlanIsLate'
  BY <1>4, <1>10 DEF Other, OtherBegins, OtherFinishes
<1> QED BY <1>1, <1>2, <1>5, <1>6, <1>7, <1>8, <1>9, <1>10 DEF Next, Change

\* The cycle lock keeps a pause from the runner while a cycle is at work.
LEMMA PauseStep ==
  ASSUME TypeOK, PausedMeansNoCycle, Next
  PROVE  PausedMeansNoCycle'
<1>1. ASSUME Schedule PROVE PausedMeansNoCycle'
  <2>1. loop' # "cycle" \/ loop' = loop
    BY <1>1 DEF Schedule, Loop, LoopTop, LoopConsume, LoopPlan, LoopPublish, LoopSelectStop,
                LoopSelectWake, LoopSelectTimer, LoopBegin, LoopEnd, RequestRunNow, RunNowWakes, Stop, StopReturns,
                Tick
  <2> QED BY <1>1, <2>1 DEF Schedule, control, PausedMeansNoCycle
<1>2. ASSUME RunCycle PROVE PausedMeansNoCycle'
  BY <1>2 DEF RunCycle, CycleSkipped, CycleBegins, CycleFinishes, Move, control, PausedMeansNoCycle
<1>3. ASSUME UpdateSettings PROVE PausedMeansNoCycle'
  <2>1. loop # "cycle" BY <1>3 DEF UpdateSettings, Busy, TypeOK
  <2> QED BY <1>3, <2>1 DEF UpdateSettings, PausedMeansNoCycle, schedulerVars
<1>4. ASSUME Restart PROVE PausedMeansNoCycle' BY <1>4 DEF Restart, PausedMeansNoCycle
<1>5. ASSUME UNCHANGED <<loop, settings>> PROVE PausedMeansNoCycle' BY <1>5 DEF PausedMeansNoCycle
<1>6. ASSUME Other \/ RefuseSettings \/ StoreSettings \/ StoreFails PROVE PausedMeansNoCycle'
  BY <1>5, <1>6 DEF Other, OtherBegins, OtherFinishes, RefuseSettings, StoreSettings, StoreFails, schedulerVars
<1>7. ASSUME Reload \/ WakeAfterReload PROVE PausedMeansNoCycle'
  BY <1>5, <1>7 DEF Reload, ReloadSettings, WakeAfterReload, ReloadWakes, mailbox
<1>8. ASSUME NEW kind \in Kinds, Receive(kind) PROVE PausedMeansNoCycle'
  BY <1>5, <1>8 DEF Receive, schedulerVars
<1> QED BY <1>1, <1>2, <1>3, <1>4, <1>6, <1>7, <1>8 DEF Next, Change

LEMMA Start == Init => TypeOK /\ IInv
<1> SUFFICES ASSUME Init PROVE TypeOK /\ IInv OBVIOUS
<1>1. settings \in Settings /\ settings.cron \in Schedules /\ ~settings.paused BY DEF Init, Settings
<1>2. TypeOK
  <2>1. MaxClock \in Nat /\ MaxRequests \in Nat /\ MaxEvents \in Nat
    BY SchedulerAssumption, ControlAssumption
  <2>2. loop = "top" /\ sched \in Schedules BY <1>1 DEF Init, SchedulerInit
  <2>a. /\ clock = 0 /\ state = "idle" /\ nextRunAt = None /\ plan = None /\ lastCompletedAt = None
        /\ stopper = "idle" /\ wakers = 0 /\ requests = 0
    BY DEF Init, SchedulerInit
  <2>b. {runNowRequested, wakeCh, stopCh} \subseteq BOOLEAN BY DEF Init, SchedulerInit
  <2>3. SchedulerTypeOK BY <2>1, <2>2, <2>a, <2>b DEF SchedulerTypeOK, LoopPc
  <2>4. stored \in Settings /\ handler = NoHandler /\ cycleLock = "free" /\ ~unsaved /\ unsaved \in BOOLEAN
        /\ lost \in BOOLEAN
        /\ events = 0
    BY <1>1 DEF Init
  <2> QED BY <1>1, <2>1, <2>2, <2>3, <2>4 DEF TypeOK
<1>3. IInv
  BY <1>1 DEF Init, SchedulerInit, IInv, PausedMeansNoCycle, PlanHolds, PlanIsLate, Agreement, Agree,
                HooksAgree
<1> QED BY <1>2, <1>3

LEMMA Invariance == Spec => [](TypeOK /\ IInv)
<1>1. TypeOK /\ IInv /\ [Next]_vars => (TypeOK /\ IInv)'
  <2>1. CASE Next BY <2>1, TypeStep, AgreementStep, PlanStep, PauseStep DEF IInv
  <2>2. CASE UNCHANGED vars
    BY <2>2, TypeStep DEF vars, schedulerVars, control, IInv, PausedMeansNoCycle, PlanHolds, PlanIsLate,
                          Agreement, Agree, HooksAgree, Under, Waking
  <2> QED BY <2>1, <2>2
<1> QED BY Start, <1>1, PTL DEF Spec

-----------------------------------------------------------------------------
(* Theorems *)

\* The scheduler's loop, the runner's settings and lock, and the requests keep their types.
THEOREM ControlTypeCorrect == Spec => []TypeOK
BY Invariance, PTL

\* No cycle is at work while uploads are paused, however a pause, the scheduler and other
\* holders of the cycle lock interleave.
THEOREM PausedNeverCycles == Spec => []PausedMeansNoCycle
<1>1. IInv => PausedMeansNoCycle BY DEF IInv
<1> QED BY Invariance, <1>1, PTL

\* Between two settings requests the scheduler follows the runner, and a restart changes nothing
\* but hooks that were refused and, after a save that failed, what it was to store.
THEOREM SettingsAlwaysAgree == Spec => []SettingsAgree
<1>1. IInv => SettingsAgree BY DEF IInv, SettingsAgree, Agreement, Agree, HooksAgree
<1> QED BY Invariance, <1>1, PTL

\* The scheduler never sleeps on a plan of an older schedule without a token that wakes it.
THEOREM PlanAlwaysCurrent == Spec => []PlanIsCurrent
<1>1. IInv => PlanIsCurrent BY DEF IInv, PlanIsCurrent, PlanHolds
<1> QED BY Invariance, <1>1, PTL

\* The timer never starts a cycle within the minimum gap or the startup delay, also when cycles
\* end late and schedules change.
THEOREM GapAlwaysKept == Spec => GapKept
<1>1. TypeOK /\ IInv /\ [Next]_vars =>
        [LoopSelectTimer => IF lastCompletedAt = None THEN clock >= StartupDelay
                                                      ELSE clock >= lastCompletedAt + MinimumGap]_vars
  <2>1. ASSUME TypeOK, PlanIsLate, LoopSelectTimer
        PROVE  IF lastCompletedAt = None THEN clock >= StartupDelay
                                         ELSE clock >= lastCompletedAt + MinimumGap
    <3>1. /\ clock \in Nat /\ plan.at \in Nat /\ StartupDelay \in Nat /\ MinimumGap \in Nat
          /\ lastCompletedAt \in Nat \cup {None} /\ clock >= plan.at /\ loop = "select"
      BY <2>1, SchedulerAssumption DEF LoopSelectTimer, TypeOK, SchedulerTypeOK
    <3> QED BY <2>1, <3>1 DEF PlanIsLate
  <2> QED BY <2>1 DEF IInv
<1> QED BY Invariance, <1>1, PTL DEF Spec, GapKept

-----------------------------------------------------------------------------
(* Why a run-now request is served and Stop returns *)

\* A request that the loop no longer looks at before it sleeps has a token, there or still to come.
WakeUpComes == runNowRequested /\ loop \in {"plan", "publish", "select"} => wakeCh \/ wakers > 0

\* Only Stop closes stopCh, and only then the loop ends.
StopIsClosed == /\ stopper # "idle" => stopCh
                /\ loop = "exited" => stopCh

\* The way of the loop to the next look at runNowRequested, and, once stopCh is closed, to its end.
ToRequest == [plan |-> 0, publish |-> 1, select |-> 2, begin |-> 3, lock |-> 4, cycle |-> 5, end |-> 6,
              top |-> 7, consume |-> 8, exited |-> 9]
ToStop == [consume |-> 0, plan |-> 1, publish |-> 2, select |-> 3, begin |-> 4, lock |-> 5, cycle |-> 6,
           end |-> 7, top |-> 8, exited |-> 9]

RunNowAdvances ==
  runNowRequested /\ ~stopCh =>
    \/ ~runNowRequested'
    \/ ToRequest[loop'] > ToRequest[loop]
    \/ ~(Loop \/ RunCycle) /\ UNCHANGED <<loop, runNowRequested>>

StopAdvances ==
  stopCh =>
    \/ Restart
    \/ stopCh' /\ ToStop[loop'] > ToStop[loop]
    \/ ~(Loop \/ RunCycle) /\ UNCHANGED <<loop, stopCh>>

\* The steps that do not move the loop.
LEMMA OthersKeepLoop ==
  ASSUME Next, ~Loop, ~RunCycle, ~Restart
  PROVE  /\ loop' = loop
         /\ wakeCh => wakeCh'
         /\ runNowRequested => runNowRequested'
         /\ UNCHANGED <<runNowRequested, wakers>> \/ RequestRunNow \/ RunNowWakes
         /\ UNCHANGED <<stopCh, stopper>> \/ Stop \/ StopReturns
<1>1. CASE Schedule
  <2>1. CASE RequestRunNow BY <2>1 DEF RequestRunNow
  <2>2. CASE RunNowWakes BY <2>2 DEF RunNowWakes
  <2>3. CASE Stop BY <2>3 DEF Stop
  <2>4. CASE StopReturns BY <2>4 DEF StopReturns
  <2>5. CASE Tick BY <2>5 DEF Tick, mailbox
  <2> QED BY <1>1, <2>1, <2>2, <2>3, <2>4, <2>5 DEF Schedule
<1>2. CASE Other \/ \E kind \in Kinds : Receive(kind)
  BY <1>2 DEF Other, OtherBegins, OtherFinishes, Receive, schedulerVars
<1>3. CASE Change
  <2>1. CASE UpdateSettings \/ RefuseSettings \/ StoreSettings \/ StoreFails
    BY <2>1 DEF UpdateSettings, RefuseSettings, StoreSettings, StoreFails, schedulerVars
  <2>2. CASE Reload BY <2>2 DEF Reload, ReloadSettings
  <2>3. CASE WakeAfterReload BY <2>3 DEF WakeAfterReload, ReloadWakes, mailbox
  <2> QED BY <1>3, <2>1, <2>2, <2>3 DEF Change
<1> QED BY <1>1, <1>2, <1>3 DEF Next

\* The steps that do.
LEMMA LoopMoves ==
  ASSUME TypeOK, Loop \/ RunCycle
  PROVE  /\ UNCHANGED <<wakers, stopCh, stopper>>
         /\ \/ loop = "top" /\ loop' = (IF stopCh THEN "exited" ELSE "consume") /\ UNCHANGED <<runNowRequested, wakeCh>>
            \/ loop = "consume" /\ runNowRequested /\ ~runNowRequested' /\ loop' = "begin"
            \/ loop = "consume" /\ ~runNowRequested /\ ~runNowRequested' /\ loop' = "plan"
            \/ loop = "plan" /\ loop' = "publish" /\ UNCHANGED <<runNowRequested, wakeCh>>
            \/ loop = "publish" /\ loop' = "select" /\ UNCHANGED <<runNowRequested, wakeCh>>
            \/ loop = "select" /\ stopCh /\ loop' = "exited" /\ UNCHANGED runNowRequested
            \/ loop = "select" /\ loop' \in {"top", "begin"} /\ UNCHANGED runNowRequested
            \/ loop = "begin" /\ loop' = "lock" /\ UNCHANGED runNowRequested
            \/ loop = "lock" /\ loop' \in {"cycle", "end"} /\ UNCHANGED runNowRequested
            \/ loop = "cycle" /\ loop' = "end" /\ UNCHANGED runNowRequested
            \/ loop = "end" /\ loop' = "top" /\ UNCHANGED runNowRequested
<1>1. CASE LoopTop BY <1>1 DEF LoopTop, mailbox
<1>2. CASE LoopConsume
  <2>1. runNowRequested \in BOOLEAN BY DEF TypeOK, SchedulerTypeOK
  <2> QED BY <1>2, <2>1 DEF LoopConsume
<1>3. CASE LoopPlan BY <1>3 DEF LoopPlan, mailbox
<1>4. CASE LoopPublish BY <1>4 DEF LoopPublish, mailbox
<1>5. CASE LoopSelectStop \/ LoopSelectWake \/ LoopSelectTimer
  BY <1>5 DEF LoopSelectStop, LoopSelectWake, LoopSelectTimer, mailbox
<1>6. CASE LoopBegin \/ LoopEnd BY <1>6 DEF LoopBegin, LoopEnd, mailbox
<1>7. CASE RunCycle
  BY <1>7 DEF RunCycle, CycleSkipped, CycleBegins, CycleFinishes, Move, control, mailbox
<1> QED BY <1>1, <1>2, <1>3, <1>4, <1>5, <1>6, <1>7 DEF Loop

LEMMA LoopStep ==
  ASSUME TypeOK, WakeUpComes, StopIsClosed, Next
  PROVE  WakeUpComes' /\ StopIsClosed'
<1>0. wakers \in Nat /\ wakeCh \in BOOLEAN /\ stopCh \in BOOLEAN /\ stopCh' \in BOOLEAN
  <2>1. TypeOK' BY TypeStep
  <2> QED BY <2>1, SchedulerAssumption DEF TypeOK, SchedulerTypeOK
<1>1. CASE Loop \/ RunCycle BY <1>1, LoopMoves DEF WakeUpComes, StopIsClosed
<1>2. CASE Restart BY <1>2 DEF Restart, WakeUpComes, StopIsClosed
<1>3. CASE ~Loop /\ ~RunCycle /\ ~Restart
  <2>1. WakeUpComes'
    <3>1. CASE UNCHANGED <<runNowRequested, wakers>> BY <1>0, <1>3, <3>1, OthersKeepLoop DEF WakeUpComes
    <3>2. CASE RequestRunNow BY <1>0, <3>2 DEF RequestRunNow, WakeUpComes
    <3>3. CASE RunNowWakes BY <3>3 DEF RunNowWakes, WakeUpComes
    <3> QED BY <1>3, <3>1, <3>2, <3>3, OthersKeepLoop
  <2>2. StopIsClosed'
    <3>1. CASE Stop \/ StopReturns BY <3>1 DEF Stop, StopReturns, StopIsClosed
    <3> QED BY <1>3, <3>1, OthersKeepLoop DEF StopIsClosed
  <2> QED BY <2>1, <2>2
<1> QED BY <1>1, <1>2, <1>3

\* RequestRunNow sets its field first and puts its token into wakeCh later, and a full wakeCh drops
\* it; a new schedule and Stop use the same channel.  Yet the loop never sleeps on a
\* request without a token that is there or on its way, and never ends unless it is stopped.
THEOREM WakeUpNeverLost == Spec => [](WakeUpComes /\ StopIsClosed)
<1>1. Init => WakeUpComes /\ StopIsClosed BY DEF Init, SchedulerInit, WakeUpComes, StopIsClosed
<1>2. TypeOK /\ WakeUpComes /\ StopIsClosed /\ [Next]_vars => (WakeUpComes /\ StopIsClosed)'
  <2>1. CASE UNCHANGED vars BY <2>1 DEF vars, schedulerVars, WakeUpComes, StopIsClosed
  <2> QED BY <2>1, LoopStep
<1> QED BY <1>1, <1>2, ControlTypeCorrect, PTL DEF Spec

\* As long as a request waits, every step of the loop and of the cycle it runs leads towards the
\* place where the loop looks at the request, and nothing leads back: at most the cycle under way,
\* or one that the timer has just begun, comes before it.  With WakeUpNeverLost and the weak fairness
\* of the loop this is why the request is served (RunNowIsServed).
THEOREM RunNowIsAhead == Spec => [][RunNowAdvances]_vars
<1>1. TypeOK /\ StopIsClosed /\ [Next]_vars => [RunNowAdvances]_vars
  <2>1. ASSUME TypeOK, Loop \/ RunCycle, runNowRequested, ~stopCh, runNowRequested'
        PROVE  ToRequest[loop'] > ToRequest[loop]
    <3>1. \/ loop = "top" /\ loop' = "consume"
          \/ loop = "plan" /\ loop' = "publish"
          \/ loop = "publish" /\ loop' = "select"
          \/ loop = "select" /\ loop' \in {"top", "begin"}
          \/ loop = "begin" /\ loop' = "lock"
          \/ loop = "lock" /\ loop' \in {"cycle", "end"}
          \/ loop = "cycle" /\ loop' = "end"
          \/ loop = "end" /\ loop' = "top"
      BY <2>1, LoopMoves
    <3> QED BY ONLY <3>1 DEF ToRequest
  <2>2. ASSUME Restart PROVE ~runNowRequested' BY <2>2 DEF Restart
  <2>3. ASSUME TypeOK, Next, ~Loop, ~RunCycle, ~Restart, runNowRequested PROVE UNCHANGED <<loop, runNowRequested>>
    BY <2>3, OthersKeepLoop DEF RequestRunNow, RunNowWakes
  <2> QED BY <2>1, <2>2, <2>3 DEF RunNowAdvances
<1> QED BY <1>1, ControlTypeCorrect, WakeUpNeverLost, PTL DEF Spec

\* Once stopCh is closed, every step of the loop and of the cycle it runs leads towards the end of
\* the loop, and stopCh stays closed: at most one more cycle is begun, when the timer wins the select,
\* and none after that.  With the weak fairness of the loop this is why Stop returns (StopEnds).
THEOREM StopIsAhead == Spec => [][StopAdvances]_vars
<1>1. TypeOK /\ [Next]_vars => [StopAdvances]_vars
  <2>1. ASSUME TypeOK, Loop \/ RunCycle, stopCh PROVE stopCh' /\ ToStop[loop'] > ToStop[loop]
    <3>1. \/ loop = "top" /\ loop' = "exited"
          \/ loop = "consume" /\ loop' \in {"begin", "plan"}
          \/ loop = "plan" /\ loop' = "publish"
          \/ loop = "publish" /\ loop' = "select"
          \/ loop = "select" /\ loop' \in {"top", "begin", "exited"}
          \/ loop = "begin" /\ loop' = "lock"
          \/ loop = "lock" /\ loop' \in {"cycle", "end"}
          \/ loop = "cycle" /\ loop' = "end"
          \/ loop = "end" /\ loop' = "top"
      BY <2>1, LoopMoves
    <3>2. stopCh' BY <2>1, LoopMoves
    <3>3. ToStop[loop'] > ToStop[loop] BY ONLY <3>1 DEF ToStop
    <3> QED BY <3>2, <3>3
  <2>2. ASSUME Next, TypeOK, ~Loop, ~RunCycle, ~Restart, stopCh PROVE UNCHANGED <<loop, stopCh>>
    <3>1. loop' = loop /\ stopCh' BY <2>2, OthersKeepLoop DEF Stop, StopReturns
    <3>2. TypeOK' BY <2>2, TypeStep
    <3> QED BY <2>2, <3>1, <3>2 DEF TypeOK, SchedulerTypeOK
  <2> QED BY <2>1, <2>2 DEF StopAdvances
<1> QED BY <1>1, ControlTypeCorrect, PTL DEF Spec
=============================================================================
