SPECIFICATION Spec
CONSTANTS
  Sources = {s1}
  Fds = {p1}
  Filters = {}
  Waitables = {}
  Keys = {k1}
  Dirs = {"READ", "WRITE"}
  Tasks = {t1, t2}
  Pollers = {}
  Futures = {f1, f2}
  TickMod = 2
  Faults = 1
  None = None
SYMMETRY SymmTasks
INVARIANTS TypeOK WakersAreArmed SleepersHaveWakers OnlyFreshEvents
