SPECIFICATION FairSpec
CONSTANTS
  Threads = {b1, b2}
  Nested = {b2}
  Host = b1
  Signallers = {w1}
  Outside = {o1}
  Unruly = {b1}
  IoThreads = {b2}
  SignalThreads = {b1}
  Main = Main
  SleepLimit = 1
  None = None
INVARIANTS WokenIsNotBlocked NoLostWake OneDriver
PROPERTIES BlockOnReturns IoIsDelivered
