SPECIFICATION AsyncFairSpec
CONSTANTS
  Sources = {s1}
  Fds = {p1}
  Filters = {}
  Waitables = {}
  Keys = {k1}
  Dirs = {"READ"}
  Tasks = {t1, t2}
  Pollers = {t1, t2}
  Futures = {}
  TickMod = 2
  Faults = 1
  None = None
  Readers = {t1, t2}
  Writers = {}
  Supply = 1
INVARIANTS OnlyFreshEvents SleepersHaveWakers
PROPERTIES AnsweredWhenReady PollsReturn
