SPECIFICATION FairSpec
CONSTANTS
  Threads = {b1, b2}
  Nested = {}
  Host = None
  Signallers = {w1}
  Outside = {}
  Unruly = {}
  IoThreads = {b1}
  SignalThreads = {b2}
  Main = Main
  SleepLimit = 1
  None = None
INVARIANTS TypeOK WokenIsNotBlocked NoLostWake OneDriver
PROPERTIES BlockOnReturns IoIsDelivered
