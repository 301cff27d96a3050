SPECIFICATION SnapshotsSpec
CONSTANTS
  Tracked = {t1, t2}
  Quotes = {q1, q2}
  Requesters = {r1}
  MaxSnapshots = 1
  FreshFor = 2
  NoQuote = noQuote
INVARIANT SignalIsFresh
