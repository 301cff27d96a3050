SPECIFICATION Spec
CONSTANTS
  Passes = {p1}
  Prices <- FewGains
  Decisions = {"none"}
  Risk = 100
  Target = 160
  TrailDist = 80
  Step = 20
  None = None
CHECK_DEADLOCK FALSE
PROPERTY BreakevenTowardsTarget
