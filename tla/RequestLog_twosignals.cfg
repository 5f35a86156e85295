CONSTANTS
  e1 = e1
  e2 = e2
  e3 = e3
  e4 = e4
  Entries = {e1, e2, e3, e4}
  BatchSize = 2
  sigterm = sigterm
  sigint = sigint
  Signals = {sigterm, sigint}
  Retention = TRUE
SPECIFICATION Spec
INVARIANT
  DrainKeepsItsWord
CHECK_DEADLOCK FALSE
