CONSTANTS
  Providers <- MCProviders
  Count <- MCCount
  Fal = "fal"
  Wrapped <- MCWrapped
  MaxCalls = 8
SPECIFICATION Spec
INVARIANTS
  TypeOK
  LoadIsSpread
CHECK_DEADLOCK FALSE
