SPECIFICATION FairSpec
CONSTANTS
  r1 = r1  r2 = r2  k1 = k1  k2 = k2
  Request = {r1, r2}
  Kid = {k1, k2}
  KidOf <- SignedBy
  Genuine = {r1}
  TTL = 2
  Timeout = 1
  MaxTime = 3
INVARIANTS TypeOK 
PROPERTIES RetiredKeyDies RequestsEnd
