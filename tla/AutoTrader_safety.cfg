SPECIFICATION Spec
CONSTANTS
  Trades = {t1, t2}
  Pairs = {p1}
  Brokers = {b1, b2}
  EaOnlyBrokers = {b2}
  Cycles = {c1}
  Flushes = {f1,f2}
  MaxConcurrentTrades = 2
  MaxNewTradesPerCycle = 1
  MaxStarts = 1
  None = None
SYMMETRY Symmetry
INVARIANTS TypeOK IntervalsFollowSwitch NoStrandedCandidates
PROPERTY OnlyScansDouble
