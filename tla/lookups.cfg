SPECIFICATION Spec
CONSTANTS
  linux = linux  LinuxHash = LinuxHash
  main = main  pr = pr
  Key <- Keys
  Extends <- IgnoringCase
  ScopeName = {main, pr}
  Tokens <- SomeTokens
  KeyLists <- SomeKeyLists
  Direct = TRUE
  MaxSaves = 3
  MaxTime = 1
INVARIANTS NothingPassedOver ScopesRanked NotFoundOnlyIfTouched
