SPECIFICATION Spec
CONSTANTS
  k1 = k1
  k2 = k2
  Key = {k1, k2}
  MaxCalls = 3
  Task <- MCTask
  Family <- MCFamily
  FirstFamily <- MCFirstFamily
  MaxSlot = 2
  MaxSequence = 2
  ClaimAttempts = 2
  HeadObservations = 2
  Lag = 1
  s1 = s1
  s2 = s2
  Second = {s1, s2}
  MaxRevision = 2
SYMMETRY MCSymmetry
CHECK_DEADLOCK FALSE
INVARIANTS
  LogWellFormed
  NamesNeverReissued
  AnswersHold
  MakersBuiltIt
  PublishedWasThere
  RecordsBehindAnswers
PROPERTIES
  ImplementsRegister
