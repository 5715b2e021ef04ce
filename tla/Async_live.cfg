SPECIFICATION AsyncFairSpec
CONSTANTS
  Sources = {s1}
  Fds = {p1}
  Filters = {}
  Waitables = {}
  Keys = {k1}
  Dirs = {"READ", "WRITE"}
  Tasks = {t1, t2}
  Pollers = {t2}
  Futures = {f1}
  TickMod = 2
  Faults = 0
  None = None
  Readers = {t2}
  Writers = {t1}
  Supply = 1
PROPERTIES BlocksLikeIo AnsweredWhenReady PollsReturn
