SPECIFICATION FairSpec
CONSTANTS
  d1 = d1  d2 = d2
  Call <- TwoCalls
  Objects = 2
  PageSize = 1
  Life = 3
  Margin = 1
  Latency = 1
  Faults = {"status", "network", "object"}
CHECK_DEADLOCK FALSE
INVARIANTS TypeOK 
PROPERTIES DeleteIsComplete CountInRange 
