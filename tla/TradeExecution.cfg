SPECIFICATION OrderSpec
CONSTANTS
  Trades = {t1, t2}
  Pairs = {p1}
  RiskFractions = {1, 2}
  MaxRiskPerSymbol = 2
  Closers = {c1, c2}
  MaxDays = 1
  None = None
  Requests = {r1, r2}
  Keys = {k1}
  Brokers = {b1}
  NoKey = NoKey
  RetryAttempts = 1
  Threshold = 2
  Nothing = Nothing
INVARIANTS TypeOK DailyRiskLedger SymbolRiskCap OrphansExplained RecordedOnceUnlessRaced
  RouterTypeOK OneOrderPerKey SuccessIsReal BreakerCountsFailures
PROPERTIES ClosedForGood LifecycleSpec ClosesLand OrdersSettle RequestsSettle
CHECK_DEADLOCK FALSE
