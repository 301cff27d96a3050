SPECIFICATION FairSpec
CONSTANTS
  Trades = {t1}
  Pairs = {p1,p2}
  Brokers = {b1}
  EaOnlyBrokers = {}
  Cycles = {c1}
  Flushes = {f1}
  MaxConcurrentTrades = 1
  MaxNewTradesPerCycle = 1
  MaxStarts = 1
  None = None
PROPERTY QueuedIsDecided
