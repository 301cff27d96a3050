SPECIFICATION FairSpec
CONSTANTS
  Passes = {p1}
  Prices <- CalmGains
  Decisions = {"none"}
  Risk = 100
  Target = 200
  TrailDist = 80
  Step = 20
  None = None
CHECK_DEADLOCK FALSE
PROPERTY BreakevenReachesBroker
