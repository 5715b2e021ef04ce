SPECIFICATION FairSpec
CONSTANTS
  Sources = {s1}
  Fds = {p1}
  Filters = {}
  Waitables = {}
  Keys = {k1}
  Dirs = {"READ"}
  Tasks = {t1}
  Pollers = {t1}
  Futures = {}
  TickMod = 2
  Faults = 1
  None = None
PROPERTY EveryWaiterIsWoken
