---------------------------- MODULE ScoutControl ----------------------------
(***************************************************************************)
(* How the parts of Scout that a user steers fit together: the scheduler,  *)
(* the runner's settings and cycle lock, the settings row in the database, *)
(* and the HTTP handlers that change settings                              *)
(* (scout/internal/api/system.go, runner/runner.go, store/settings.go).    *)
(*                                                                         *)
(* A change of settings goes to three places, one after the other: the     *)
(* runner (which refuses it while a backup or a recovery holds the cycle   *)
(* lock), the scheduler, and the database, from which a restart reads it.  *)
(***************************************************************************)
EXTENDS Scheduler

CONSTANTS
  MaxEvents       \* bound: changes of settings, other operations and restarts

ASSUME ControlAssumption == MaxEvents \in Nat

VARIABLES
  cycleLock,      \* who holds r.cycleLock
  settings,       \* r.Settings
  stored,         \* the row of app_settings
  handler,        \* the settings request under way: its kind, its place, its draft
  unsaved,        \* history: a refused request has already stored its draft
  lost,           \* history: the last settings that were answered are not in the row
  events          \* how many bounded events have happened

control == <<cycleLock, settings, stored, handler, unsaved, lost, events>>
vars == <<schedulerVars, control>>

Settings == [cron : Schedules, paused : BOOLEAN, hooks : {"none", "some"}]
Kinds == {"save", "pause", "hooks"}
NoHandler == [kind |-> "none"]
Busy == cycleLock # "free"

TypeOK ==
  /\ SchedulerTypeOK
  /\ cycleLock \in {"free", "cycle", "other"}
  /\ (cycleLock = "cycle") <=> (loop = "cycle")
  /\ settings \in Settings /\ stored \in Settings
  /\ handler \in [kind : Kinds, at : {"update", "reload", "wake", "store"},
                  draft : Settings] \cup {NoHandler}
  /\ unsaved \in BOOLEAN /\ lost \in BOOLEAN
  /\ events \in 0..MaxEvents

Counted == events < MaxEvents /\ events' = events + 1

\* main: the settings come from the row, and the scheduler starts with them.
Init ==
  /\ settings \in {s \in Settings : s.hooks = "none" /\ ~s.paused}
  /\ stored = settings
  /\ SchedulerInit(settings.cron)
  /\ cycleLock = "free" /\ handler = NoHandler
  /\ unsaved = FALSE /\ lost = FALSE
  /\ events = 0

-----------------------------------------------------------------------------
(* RunCycle, called by the scheduler's loop. *)

Move(to) ==
  /\ loop' = to
  /\ UNCHANGED <<clock, state, nextRunAt, plan, lastCompletedAt, wakeCh, mailbox>>

\* The lock is taken, or uploads are paused: the cycle is skipped. The scheduler
\* ignores the result.
CycleSkipped ==
  /\ loop = "lock" /\ (Busy \/ settings.paused)
  /\ Move("end")
  /\ UNCHANGED control

CycleBegins ==
  /\ loop = "lock" /\ ~Busy /\ ~settings.paused
  /\ Move("cycle")
  /\ cycleLock' = "cycle"
  /\ UNCHANGED <<settings, stored, handler, unsaved, lost, events>>

CycleFinishes ==
  /\ loop = "cycle"
  /\ Move("end")
  /\ cycleLock' = "free"
  /\ UNCHANGED <<settings, stored, handler, unsaved, lost, events>>

\* A forced send or a recovery holds the same lock.
OtherBegins ==
  /\ ~Busy /\ cycleLock' = "other"
  /\ Counted
  /\ UNCHANGED <<schedulerVars, settings, stored, handler, unsaved, lost>>

OtherFinishes ==
  /\ cycleLock = "other" /\ cycleLock' = "free"
  /\ UNCHANGED <<schedulerVars, settings, stored, handler, unsaved, lost, events>>

-----------------------------------------------------------------------------
(* The handlers that change settings. One request at a time.              *)

\* The order in which each handler visits the places. (Mutant: a pause is stored
\* before the runner has accepted it, as hooks are.)
FirstPlaceStoring(kind) == IF kind \in {"hooks", "pause"} THEN "store" ELSE "update"
FirstPlace(kind) == IF kind = "hooks" THEN "store" ELSE "update"
AfterUpdate(kind) ==
  IF kind = "save" THEN "reload"
  ELSE IF FirstPlace(kind) = "update" THEN "store" ELSE "done"
AfterStore(kind) == IF FirstPlace(kind) = "store" THEN "update" ELSE "done"

\* On to the next place, or to the answer.
Proceed(place) ==
  handler' = IF place = "done" THEN NoHandler ELSE [handler EXCEPT !.at = place]

\* handleSaveSettings brings a whole set of settings (the fields that it does not
\* show keep their values); the others read the runner's and change one field.
Drafts(kind) ==
  CASE kind = "save"  -> {s \in Settings : s.hooks = settings.hooks}
    [] kind = "pause" -> {[settings EXCEPT !.paused = p] : p \in BOOLEAN}
    [] kind = "hooks" -> {[settings EXCEPT !.hooks = "some"]}

Receive(kind) ==
  /\ handler = NoHandler
  /\ Counted
  /\ \E draft \in Drafts(kind) :
       handler' = [kind |-> kind, at |-> FirstPlace(kind), draft |-> draft]
  /\ UNCHANGED <<schedulerVars, cycleLock, settings, stored, unsaved, lost>>

\* UpdateSettings: TryLock, then applySettings; the request is refused when the
\* lock is taken. (Mutant: the settings are replaced under a running cycle.)
UpdateUnlocked ==
  /\ handler # NoHandler /\ handler.at = "update"
  /\ settings' = handler.draft
  /\ Proceed(AfterUpdate(handler.kind))
  /\ UNCHANGED <<schedulerVars, cycleLock, stored, unsaved, lost, events>>

UpdateSettings ==
  /\ handler # NoHandler /\ handler.at = "update" /\ ~Busy
  /\ settings' = handler.draft
  /\ unsaved' = (unsaved /\ handler.kind # "hooks")
  /\ Proceed(AfterUpdate(handler.kind))
  /\ UNCHANGED <<schedulerVars, cycleLock, stored, lost, events>>

RefuseSettings ==
  /\ handler # NoHandler /\ handler.at = "update" /\ Busy
  /\ handler' = NoHandler
  /\ unsaved' = (unsaved \/ handler.kind = "hooks")
  /\ UNCHANGED <<schedulerVars, cycleLock, settings, stored, lost, events>>

Reload ==
  /\ handler # NoHandler /\ handler.at = "reload"
  /\ ReloadSettings(handler.draft.cron)
  /\ Proceed("wake")
  /\ UNCHANGED <<cycleLock, settings, stored, unsaved, lost, events>>

WakeAfterReload ==
  /\ handler # NoHandler /\ handler.at = "wake"
  /\ ReloadWakes
  /\ Proceed("store")
  /\ UNCHANGED <<cycleLock, settings, stored, unsaved, lost, events>>

\* SettingsStore.Save.
StoreSettings ==
  /\ handler # NoHandler /\ handler.at = "store"
  /\ stored' = handler.draft
  /\ Proceed(AfterStore(handler.kind))
  /\ unsaved' = (unsaved /\ handler.kind = "hooks") /\ lost' = FALSE
  /\ UNCHANGED <<schedulerVars, cycleLock, settings, events>>

\* Save fails: hooks are answered with an error and reach no other place; whoever
\* changed the runner first logs the error and answers ok.
StoreFails ==
  /\ handler # NoHandler /\ handler.at = "store"
  /\ handler' = NoHandler
  /\ lost' = (lost \/ FirstPlace(handler.kind) = "update")
  /\ UNCHANGED <<schedulerVars, cycleLock, settings, stored, unsaved, events>>

\* Scout is killed and started again.
Restart ==
  /\ Counted
  /\ settings' = stored
  /\ cycleLock' = "free" /\ handler' = NoHandler
  /\ unsaved' = FALSE /\ lost' = FALSE
  /\ loop' = "top" /\ state' = "idle" /\ sched' = stored.cron
  /\ nextRunAt' = None /\ plan' = None
  /\ lastCompletedAt' = None /\ runNowRequested' = FALSE
  /\ wakeCh' = FALSE /\ stopCh' = FALSE /\ stopper' = "idle" /\ wakers' = 0
  /\ clock' = 0
  /\ UNCHANGED <<stored, requests>>

RunCycle == CycleSkipped \/ CycleBegins \/ CycleFinishes
Other == OtherBegins \/ OtherFinishes
Change ==
  \/ UpdateSettings \/ RefuseSettings \/ Reload \/ WakeAfterReload
  \/ StoreSettings \/ StoreFails

Schedule ==
  /\ Loop \/ RequestRunNow \/ RunNowWakes \/ Stop \/ StopReturns \/ Tick
  /\ UNCHANGED control

Next ==
  \/ Schedule \/ RunCycle \/ Other \/ Change \/ Restart
  \/ \E kind \in Kinds : Receive(kind)

Spec == Init /\ [][Next]_vars

\* Goroutines that can go on do; nothing is assumed of the clock, of users, or
\* of how the lock is handed out.
FairSpec ==
  /\ Spec
  /\ WF_vars((Loop /\ UNCHANGED control) \/ RunCycle)
  /\ WF_vars(RunNowWakes /\ UNCHANGED control)
  /\ WF_vars(StopReturns /\ UNCHANGED control)
  /\ WF_vars(OtherFinishes)
  /\ WF_vars(Change)

-----------------------------------------------------------------------------
(* Properties. *)

\* The token of a new schedule is still to come.
Waking == handler # NoHandler /\ handler.at = "wake"

\* The loop does not sleep on an old plan: when no token is under way, the time it
\* waits for was computed from the schedule in force, and status shows it. A new
\* schedule may arrive between computeNextRunAt and the select.
PlanIsCurrent ==
  loop = "select" /\ ~wakeCh /\ ~Waking => plan.cron = sched /\ nextRunAt = plan.at

\* No cycle is at work while uploads are paused: a pause is refused, not applied,
\* while a cycle runs, and a cycle looks before it starts ("Skip scheduled cycles
\* and Run Backup Cycle Now.", docs/scout/configuration.mdx:28).
PausedMeansNoCycle == loop = "cycle" => ~settings.paused

\* Between requests the scheduler follows the runner's schedule, and a restart
\* changes nothing, except what two ways of answering leave apart: a save that
\* failed, which is only logged (until a later request of any kind is stored), and
\* hooks that were stored before the runner refused them.
SettingsAgree ==
  handler = NoHandler =>
    /\ settings.cron = sched
    /\ (settings.cron = stored.cron /\ settings.paused = stored.paused) \/ lost
    /\ settings.hooks = stored.hooks \/ unsaved

\* A cycle that nobody asked for starts no sooner than the minimum gap after the
\* last one, and not during the startup delay.
GapKept ==
  [][LoopSelectTimer =>
       IF lastCompletedAt = None THEN clock >= StartupDelay
                                 ELSE clock >= lastCompletedAt + MinimumGap]_vars

\* A run-now request that was answered "queued" makes the loop begin a cycle (which
\* the runner may skip), also when the schedule's next time is far away, unless
\* Scout stops: no wake-up is lost. (Only the start of a cycle and a restart reset
\* the field.)
RunNowIsServed == runNowRequested ~> (~runNowRequested \/ stopCh)

\* Stop returns, also when it is called in the middle of a cycle.
StopEnds == stopper = "waiting" ~> stopper # "waiting"
=============================================================================
