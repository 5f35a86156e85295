CONSTANTS
  r1 = r1
  r2 = r2
  Requests = {r1, r2}
  t1 = t1
  Txs = {t1}
  NoOne = NoOne
  NoInput = NoInput
  IsDev = TRUE
SPECIFICATION FairSpec
INVARIANTS
  TypeOK
  ServedIsPaid
  OnePaymentRowPerGrant
PROPERTIES
  HandlerPromise
  EveryRequestIsAnswered
CHECK_DEADLOCK FALSE
