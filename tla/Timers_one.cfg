SPECIFICATION FairSpec
CONSTANTS
  Timers = {x1}
  Tasks = {t1, t2}
  Horizon = 1
  Periods = {0, 1}
  Cap = 1
  MaxIds = 2
  ZeroTimeouts = {FALSE, TRUE}
  MayFail = TRUE
  Reactor = Reactor
  None = None
INVARIANTS TypeOK SetTimersPending NoOrphanEntries ReactorWakesInTime
PROPERTY TimersFire
