SPECIFICATION PromptSpec
CONSTANTS
  Assessors = {a1}
  Ttl = 5
  Window = 4
  BreakerLife = 10
  MinHealthyCount = 2
  MaxWait = 1
PROPERTY HealthyClearsBreaker
