SPECIFICATION ServicesSpec
CONSTANTS
  Jobs = {j1, j2, j3, u1}
  Unhandled = {u1}
  Concurrency = 2
  RetryAttempts = 1
  MaxQueueSize = 1
  Symbols = {s1, s2, s3, s4}
  MaxSymbolsPerFlush = 1
  MaxPending = 3
  Series = {k1, k2}
  Refreshed = {k1, k2}
  Providers = {p1, p2}
  SelfRecording = {p1}
  NoProvider = noProvider
  MaxRequests = 1
  MaxPerTick = 2
  Cycles = {y1, y2}
  Assessors = {a1, a2}
  Ttl = 3
  Window = 2
  BreakerLife = 6
  MinHealthyCount = 2
  MaxWait = 1
  Instruments = {i1, i2}
  Decisions <- MCDecisions
  MaxPositions = 2
  ManagementQueueMax = 1
  DrainLimit = 1
INVARIANTS ServicesTypeOK NoLostWakeup QueueBounded DeadAfterAllRetries
  WaitingBounded FlushNotForgotten BreakerIsReported
PROPERTIES JobsEnd BurstIsWorkedOff CycleEnds HealthyPairReopens 
