SPECIFICATION FairSpec
CONSTANTS
  r1 = r1  r2 = r2  r3 = r3  NoReader = NoReader
  Reader <- TwoReaders
  NumParts = 2
  AtomicPut = TRUE
  Faults = {"leave", "merge", "crash"}
  Jobs = {"merges", "parts"}
PROPERTIES MergesSettle DownloadsEnd PartsReclaimed
