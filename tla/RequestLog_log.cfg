CONSTANTS
  e1 = e1
  e2 = e2
  e3 = e3
  e4 = e4
  Entries = {e1, e2, e3, e4}
  BatchSize = 2
  sigterm = sigterm
  Signals = {sigterm}
  Retention = TRUE
SPECIFICATION FairSpec
INVARIANTS
  TypeOK
  EachEntryInOnePlace
  BufferShortOfBatch
  DrainKeepsItsWord
PROPERTIES
  PromiseKept
  ShutdownEnds
CHECK_DEADLOCK FALSE
