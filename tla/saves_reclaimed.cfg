SPECIFICATION FairSpec
CONSTANTS
  c1 = c1  c2 = c2  k1 = k1  k2 = k2
  Session <- OneSession
  Key = {k1, k2}
  KeyOf <- SameKey
  NumParts = 2
  PutTries = 1
  FinTries = 2
  PageSize = 1
  AtomicPut = TRUE
  Aborts = {"request"}
  Jobs = {"uploads", "orphans", "admin"}
PROPERTIES UploadsEnd OrphansEnd
