CONSTANTS
  c1 = c1
  c2 = c2
  Calls = {c1, c2}
  NoOne = NoOne
  NoRequest = NoRequest
  MaxRestarts = 0
  Spellings <- MCSpellings
  Lower <- MCLower
  Receipt <- MCReceipt
  Demands <- MCDemands
  IllFormed <- MCIllFormed
  Accounts <- MCAccounts
  Contracts <- MCContracts
  USDm <- MCUSDm
SPECIFICATION Spec
INVARIANT
  RetryableCallLeavesTxUnused
CHECK_DEADLOCK FALSE
