CONSTANTS
  USDC_DECIMALS = 2
  USDM_DECIMALS = 3
  PayToEvm = TRUE
  PayToSolana = TRUE
  Accounts = {alice, treasury}
  Contracts = {usdm, other}
  USDm = usdm
  Treasury = treasury
  Digits = {0, 1, 2, 3, 9}
  MaxInt = 2
  MaxDec = 4
  MaxLogs = 3
  MaxValue = 2
SPECIFICATION Spec
INVARIANTS
  AmountIsFloor
  AskedIsAccepted
  RevenueIsPrice
  PaysExactlyWhenSumReaches
  PayerSentLast
  ForeignLogsIgnored
CHECK_DEADLOCK FALSE
