SPECIFICATION Spec
CONSTANTS
  Trades = {t1, t2}
  Pairs = {p1, p2}
  Brokers = {b1}
  EaOnlyBrokers = {}
  Cycles = {c1}
  Flushes = {f1}
  MaxConcurrentTrades = 2
  MaxNewTradesPerCycle = 2
  MaxStarts = 2
  None = None
PROPERTY NoNewTradesAfterStop
