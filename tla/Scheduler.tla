------------------------------ MODULE Scheduler ------------------------------
(***************************************************************************)
(* The scheduler of Scout: SchedulerController                             *)
(* (scout/internal/services/scheduler/scheduler.go).                       *)
(*                                                                         *)
(* One goroutine (loop) sleeps until the next planned cycle and is woken   *)
(* by requests: run now, a new schedule, stop.  A request changes a field  *)
(* under s.mu and then puts a token into wakeCh, which holds one token and *)
(* drops the others; the loop reads the fields at other moments than it    *)
(* takes tokens.  Whether a cycle runs is decided by the runner, whose     *)
(* cycle lock is in ScoutControl.                                          *)
(***************************************************************************)
EXTENDS Naturals, FiniteSets

CONSTANTS
  Schedules,      \* the cron schedules in use
  Period,         \* how many ticks of the clock lie between their times
  StartupDelay,   \* startupDelayMinutes, in ticks
  MinimumGap,     \* minimumCycleGap, in ticks
  None,           \* a nil time
  MaxClock,       \* bound: ticks of the clock
  MaxRequests     \* bound: run-now requests

ASSUME SchedulerAssumption ==
  /\ Period \in [Schedules -> Nat \ {0}]
  /\ {StartupDelay, MinimumGap, MaxClock, MaxRequests} \subseteq Nat
  /\ None \notin Nat /\ None \notin [at : Nat, cron : Schedules]

VARIABLES
  clock,            \* the time since Scout was started
  loop,             \* where the loop is
  state,            \* s.state
  sched,            \* s.sched
  nextRunAt,        \* s.nextRunAt
  plan,             \* computeNextRunAt's result and the schedule it read, in the loop
  lastCompletedAt,  \* s.lastCompletedAt
  runNowRequested,  \* s.runNowRequested
  wakeCh,           \* wakeCh holds a token
  stopCh,           \* stopCh is closed
  stopper,          \* Stop: not called, waiting for doneCh, returned
  wakers,           \* run-now requests that have still to put their token
  requests          \* run-now requests so far

schedulerVars == <<clock, loop, state, sched, nextRunAt, plan, lastCompletedAt,
                   runNowRequested, wakeCh, stopCh, stopper, wakers, requests>>
mailbox == <<sched, runNowRequested, stopCh, stopper, wakers, requests>>

LoopPc == {"top", "consume", "plan", "publish", "select", "begin", "lock", "cycle",
           "end", "exited"}

SchedulerTypeOK ==
  /\ clock \in 0..MaxClock
  /\ loop \in LoopPc
  /\ state \in {"idle", "waiting", "running", "stopped"}
  /\ (state = "running") <=> (loop \in {"lock", "cycle", "end"})
  /\ sched \in Schedules
  /\ nextRunAt \in Nat \cup {None}
  /\ plan \in [at : Nat, cron : Schedules] \cup {None}
  /\ (plan = None) <=> (loop \notin {"publish", "select"})
  /\ lastCompletedAt \in 0..MaxClock \cup {None}
  /\ {runNowRequested, wakeCh, stopCh} \subseteq BOOLEAN
  /\ stopper \in {"idle", "waiting", "returned"}
  /\ requests \in 0..MaxRequests /\ wakers \in 0..requests

\* NewSchedulerController and Start.
SchedulerInit(cron) ==
  /\ clock = 0 /\ loop = "top" /\ state = "idle" /\ sched = cron
  /\ nextRunAt = None /\ plan = None
  /\ lastCompletedAt = None /\ runNowRequested = FALSE
  /\ wakeCh = FALSE /\ stopCh = FALSE /\ stopper = "idle"
  /\ wakers = 0 /\ requests = 0

-----------------------------------------------------------------------------
(* The loop. *)

\* The schedule's first time after a given one.
NextAfter(cron, t) == (t \div Period[cron] + 1) * Period[cron]

Later(t, u) == IF u > t THEN u ELSE t

\* computeNextRunAt. (Mutant: without the startup delay and the minimum gap.)
NextRunAsScheduled(cron) ==
  NextAfter(cron, IF lastCompletedAt = None THEN clock ELSE lastCompletedAt)
NextRunAt(cron) ==
  IF lastCompletedAt = None
  THEN Later(NextAfter(cron, clock), StartupDelay)
  ELSE Later(NextAfter(cron, lastCompletedAt), lastCompletedAt + MinimumGap)

LoopTop ==
  /\ loop = "top"
  /\ loop' = IF stopCh THEN "exited" ELSE "consume"
  /\ UNCHANGED <<clock, state, nextRunAt, plan, lastCompletedAt, wakeCh, mailbox>>

\* consumeRunRequest.
LoopConsume ==
  /\ loop = "consume"
  /\ IF runNowRequested
     THEN runNowRequested' = FALSE /\ nextRunAt' = None /\ loop' = "begin"
     ELSE loop' = "plan" /\ UNCHANGED <<runNowRequested, nextRunAt>>
  /\ UNCHANGED <<clock, state, sched, plan, lastCompletedAt, wakeCh, stopCh, stopper,
                 wakers, requests>>

LoopPlan ==
  /\ loop = "plan"
  /\ plan' = [at |-> NextRunAt(sched), cron |-> sched]
  /\ loop' = "publish"
  /\ UNCHANGED <<clock, state, nextRunAt, lastCompletedAt, wakeCh, mailbox>>

LoopPublish ==
  /\ loop = "publish"
  /\ state' = "waiting" /\ nextRunAt' = plan.at
  /\ loop' = "select"
  /\ UNCHANGED <<clock, plan, lastCompletedAt, wakeCh, mailbox>>

\* The select: stopped, woken, or the planned time has come. The choice between
\* several of them is free.
LoopSelectStop ==
  /\ loop = "select" /\ stopCh
  /\ loop' = "exited" /\ plan' = None
  /\ UNCHANGED <<clock, state, nextRunAt, lastCompletedAt, wakeCh, mailbox>>

LoopSelectWake ==
  /\ loop = "select" /\ wakeCh
  /\ wakeCh' = FALSE /\ loop' = "top" /\ plan' = None
  /\ UNCHANGED <<clock, state, nextRunAt, lastCompletedAt, mailbox>>

LoopSelectTimer ==
  /\ loop = "select" /\ clock >= plan.at
  /\ loop' = "begin" /\ plan' = None
  /\ UNCHANGED <<clock, state, nextRunAt, lastCompletedAt, wakeCh, mailbox>>

\* runCycle, before and after the runner's RunCycle.
LoopBegin ==
  /\ loop = "begin"
  /\ state' = "running" /\ nextRunAt' = None
  /\ loop' = "lock"
  /\ UNCHANGED <<clock, plan, lastCompletedAt, wakeCh, mailbox>>

LoopEnd ==
  /\ loop = "end"
  /\ state' = "idle" /\ lastCompletedAt' = clock
  /\ loop' = "top"
  /\ UNCHANGED <<clock, nextRunAt, plan, wakeCh, mailbox>>

Loop == LoopTop \/ LoopConsume \/ LoopPlan \/ LoopPublish \/ LoopSelectStop
        \/ LoopSelectWake \/ LoopSelectTimer \/ LoopBegin \/ LoopEnd

-----------------------------------------------------------------------------
(* The requests. *)

\* RequestRunNow: refused while running, merged with a request that waits. The
\* token follows after the lock. (Mutant: no token.)
RequestRunNowSilently ==
  /\ requests < MaxRequests /\ requests' = requests + 1
  /\ state # "running" /\ runNowRequested' = TRUE
  /\ UNCHANGED <<clock, loop, state, sched, nextRunAt, plan, lastCompletedAt, wakeCh,
                 stopCh, stopper, wakers>>

RequestRunNow ==
  /\ requests < MaxRequests /\ requests' = requests + 1
  /\ state # "running" /\ ~runNowRequested
  /\ runNowRequested' = TRUE /\ wakers' = wakers + 1
  /\ UNCHANGED <<clock, loop, state, sched, nextRunAt, plan, lastCompletedAt, wakeCh,
                 stopCh, stopper>>

RunNowWakes ==
  /\ wakers > 0
  /\ wakers' = wakers - 1 /\ wakeCh' = TRUE
  /\ UNCHANGED <<clock, loop, state, sched, nextRunAt, plan, lastCompletedAt,
                 runNowRequested, stopCh, stopper, requests>>

\* ReloadSettings, under the lock; its token follows (ReloadWakes).
ReloadSettings(cron) ==
  /\ sched' = cron
  /\ nextRunAt' = IF state = "running" THEN nextRunAt ELSE None
  /\ UNCHANGED <<clock, loop, state, plan, lastCompletedAt, runNowRequested, wakeCh,
                 stopCh, stopper, wakers, requests>>

\* (Mutant: the token is forgotten.)
ReloadSilently == UNCHANGED schedulerVars
ReloadWakes ==
  /\ wakeCh' = TRUE
  /\ UNCHANGED <<clock, loop, state, nextRunAt, plan, lastCompletedAt, mailbox>>

\* Stop closes stopCh, wakes the loop and waits for doneCh. (Mutant: the loop is
\* woken and the channel left open.)
StopWaking ==
  /\ stopper = "idle" /\ stopper' = "waiting" /\ wakeCh' = TRUE
  /\ UNCHANGED <<clock, loop, state, sched, nextRunAt, plan, lastCompletedAt,
                 runNowRequested, stopCh, wakers, requests>>

Stop ==
  /\ stopper = "idle"
  /\ stopper' = "waiting" /\ stopCh' = TRUE /\ wakeCh' = TRUE
  /\ UNCHANGED <<clock, loop, state, sched, nextRunAt, plan, lastCompletedAt,
                 runNowRequested, wakers, requests>>

StopReturns ==
  /\ stopper = "waiting" /\ loop = "exited"
  /\ stopper' = "returned" /\ state' = "stopped" /\ nextRunAt' = None
  /\ UNCHANGED <<clock, loop, sched, plan, lastCompletedAt, runNowRequested, wakeCh,
                 stopCh, wakers, requests>>

Tick ==
  /\ clock < MaxClock /\ clock' = clock + 1
  /\ UNCHANGED <<loop, state, nextRunAt, plan, lastCompletedAt, wakeCh, mailbox>>
=============================================================================
