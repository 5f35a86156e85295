CONSTANTS
  c1 = c1
  c2 = c2
  Calls = {c1, c2}
  NoOne = NoOne
  NoRequest = NoRequest
  MaxRestarts = 1
  Spellings <- MCSpellings
  Lower <- MCLower
  Receipt <- MCReceipt
  Demands <- MCDemands
  IllFormed <- MCIllFormed
  Accounts <- MCAccounts
  Contracts <- MCContracts
  USDm <- MCUSDm
SPECIFICATION FairSpec
PROPERTIES
  RowsArePermanent
  PromiseKept
  WaitingEnds
CHECK_DEADLOCK FALSE
