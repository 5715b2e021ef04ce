SPECIFICATION HandlesSpec
CONSTANTS
  Sources = {s1, s2}
  Fds = {p1, p2}
  Filters = {p2}
  Waitables = {}
  Keys = {k1, k2}
  Dirs = {"READ", "WRITE"}
  Tasks = {t1, t2}
  Pollers = {}
  Futures = {f1}
  TickMod = 2
  Faults = 1
  None = None
SYMMETRY Symm
VIEW View
INVARIANTS ConnectedIsConnected RegisteredIsOpen PollerMatchesSlab OnlyFreshEvents
