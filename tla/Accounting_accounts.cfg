CONSTANTS
  d = d
  s = s
  Calls = {d, s}
  Direct = {d}
  AuditedThrough = 1
  RetentionDays = 1
  MaxDay = 3
SPECIFICATION Spec
CHECK_DEADLOCK FALSE
INVARIANTS
  LifetimeExplained
  AnswersAddUp
  LifetimeShrinksOnlyByRetention
