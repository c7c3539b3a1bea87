SPECIFICATION FairSpec
CONSTANTS
  s1 = s1  s2 = s2  r1 = r1  j1 = j1
  Server <- TwoServers
  Request <- OneRequest
  Job <- OneJob
  Statements = 3
  MaxAccidents = 2
  MaxSignals = 1
INVARIANTS TypeOK ServesFullSchema RaceNeverTears
PROPERTIES CleanExit SignalEndsIt 
