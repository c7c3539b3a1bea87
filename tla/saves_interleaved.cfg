SPECIFICATION Spec
CONSTANTS
  c1 = c1  c2 = c2  k1 = k1  k2 = k2
  Session <- TwoSessions
  Key = {k1, k2}
  KeyOf <- SameKey
  NumParts = 1
  PutTries = 1
  FinTries = 1
  PageSize = 1
  AtomicPut = FALSE
  Aborts = {}
  Jobs = {"uploads","orphans","expiry","admin"}
SYMMETRY Symmetry
INVARIANTS TypeOK OwnUploadIntact SavedKeyIsServed
PROPERTIES ReplaceKeepsEntries 
