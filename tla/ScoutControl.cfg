CONSTANTS
  Schedules = {often, seldom}
  often = often
  seldom = seldom
  Period <- Periods
  StartupDelay = 2
  MinimumGap = 2
  None = None
  MaxClock = 2
  MaxRequests = 1
  MaxEvents = 2
SPECIFICATION FairSpec
INVARIANT PlanIsCurrent
INVARIANT PausedMeansNoCycle
INVARIANT SettingsAgree
PROPERTY GapKept
PROPERTY RunNowIsServed
PROPERTY StopEnds
CHECK_DEADLOCK FALSE
