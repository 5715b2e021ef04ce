SPECIFICATION Spec
CONSTANTS
  Timers = {x1, x2}
  Tasks = {t1}
  Horizon = 1
  Periods = {}
  Cap = 1
  MaxIds = 2
  ZeroTimeouts = {FALSE}
  MayFail = FALSE
  Reactor = Reactor
  None = None
SYMMETRY Symm
INVARIANTS SetTimersPending NoOrphanEntries ReactorWakesInTime
