SPECIFICATION Spec
CONSTANTS
  c1 = c1  c2 = c2  k1 = k1  k2 = k2
  Session <- OneSession
  Key = {k1, k2}
  KeyOf <- SameKey
  NumParts = 1
  PutTries = 2
  FinTries = 2
  PageSize = 1
  AtomicPut = FALSE
  Aborts = {"request", "job", "statement"}
  Jobs = {"uploads", "expiry"}
INVARIANTS OwnUploadIntact SavedKeyIsServed
