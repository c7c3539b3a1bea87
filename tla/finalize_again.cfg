SPECIFICATION Spec
CONSTANTS
  c1 = c1  c2 = c2  k1 = k1  k2 = k2
  Session <- OneSession
  Key = {k1, k2}
  KeyOf <- SameKey
  NumParts = 1
  PutTries = 1
  FinTries = 2
  PageSize = 10
  AtomicPut = FALSE
  Aborts = {}
  Jobs = {}
INVARIANT EntriesIntact
