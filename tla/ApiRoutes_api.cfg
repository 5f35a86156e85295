CONSTANTS
  r1 = r1
  r2 = r2
  Requests = {r1, r2}
  Routes <- MCRoutes
  k1 = k1
  k2 = k2
  Keys = {k1, k2}
  NoQuestion = NoQuestion
  MAX_CONCURRENT_UPLOADS = 1
SPECIFICATION MCSpec
INVARIANTS
  TypeOK
  LogMatchesAnswer
  AnswersAreFresh
  SlotsAreCounted
  NoEndpointLeftOut
PROPERTIES
  NoNeedlessCalls
  HandlerPromise
  CallsAreLogged
CHECK_DEADLOCK FALSE
