SPECIFICATION PeriodicSpec
CONSTANTS
  Passes = {w1, w2}
  Prices <- FewGains
  Decisions = {"none", "breakeven"}
  Risk = 100
  Target = 160
  TrailDist = 40
  Step = 20
  None = None
  Pairs = {s1}
  Scores = {y1, y2}
  Entries = {x1, x2}
  MaxBar = 1
  Revalidations = {w1, w2}
  BroadcastMayFail = FALSE
  Tracked = {x1, x2}
  Quotes = {y1, y2}
  Requesters = {w1, w2}
  MaxSnapshots = 1
  FreshFor = 2
  NoQuote = noQuote
  Series = {x1, x2, x3}
  Refreshed = {x1, x2}
  Providers = {v1, v2}
  SelfRecording = {v1}
  NoProvider = noProvider
  MaxRequests = 1
  MaxPerTick = 2
  Cycles = {w1, w2}
  Timers = {h1, h2, h3}
  NoTimer = noTimer
CHECK_DEADLOCK FALSE
SYMMETRY AllSymmetry
INVARIANTS PeriodicTypeOK MovedMeansRiskFree OncePerBar QuoteKept
  QuotaOverrunBounded ReconciliationLives
PROPERTY RiskNeverGrows
