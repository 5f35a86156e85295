CONSTANTS
  r1 = r1
  r2 = r2
  Requests = {r1, r2}
  Routes <- TravelRoutes
  k1 = k1
  Keys = {k1}
  NoQuestion = NoQuestion
  MAX_CONCURRENT_UPLOADS = 1
SPECIFICATION Spec
INVARIANT
  AnswersMatchQuestions
CHECK_DEADLOCK FALSE
