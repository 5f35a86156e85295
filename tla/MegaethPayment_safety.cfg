CONSTANTS
  c1 = c1
  c2 = c2
  c3 = c3
  Calls = {c1, c2, c3}
  NoOne = NoOne
  NoRequest = NoRequest
  MaxRestarts = 1
  Spellings <- MCSpellings
  Lower <- MCLower
  Receipt <- MCReceipt
  Demands <- MCDemands
  IllFormed <- MCIllFormed
  Accounts <- MCAccounts
  Contracts <- MCContracts
  USDm <- MCUSDm
SPECIFICATION Spec
SYMMETRY Symmetry
INVARIANTS
  TypeOK
  TxHashUsedOnce
  AcceptedIsPaid
  AcceptedIsRecorded
  ConsumptionExplained
  RefusalHasRival
CHECK_DEADLOCK FALSE
