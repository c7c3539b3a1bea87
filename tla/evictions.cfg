SPECIFICATION FairSpec
CONSTANTS
  a = a  b = b
  Key <- TwoKeys
  Saves <- AgainAndOnce
  Capacity = 3
  MinFree = 2
  TargetFree = 0
  Batch = 1
  MaxEvictions = 2
  MaxTime = 2
  MaxIncidents = 1
  Faults = {"statement", "folder"}
CHECK_DEADLOCK FALSE
INVARIANTS TypeOK ServedHasFolder  
PROPERTIES LeastRecentlyUsed RunEnds
