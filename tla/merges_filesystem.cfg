SPECIFICATION Spec
CONSTANTS
  r1 = r1  r2 = r2  r3 = r3  NoReader = NoReader
  Reader <- TwoReaders
  NumParts = 2
  AtomicPut = FALSE
  Faults = {"request", "leave", "merge", "crash"}
  Jobs = {"merges", "parts", "evict", "expire", "shutdown"}
SYMMETRY Symmetry
INVARIANTS TypeOK  
 
