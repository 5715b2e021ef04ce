SPECIFICATION HSpec
CONSTANTS
  Timers = {x1}
  Tasks = {t1, t2}
  Horizon = 2
  Periods = {1}
  Cap = 1
  MaxIds = 2
  ZeroTimeouts = {FALSE, TRUE}
  MayFail = FALSE
  Reactor = Reactor
  None = None
INVARIANT LastPollerIsWoken
