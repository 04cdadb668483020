SPECIFICATION Spec
CONSTANTS
  c1 = c1
  Call = {c1}
  Free = Free
  Orphan = Orphan
  Kinds <- PublishKinds
  ResolvesFirst = FALSE
  MaxRevision = 2
  MaxContent = 1
  MaxCommits = 3
  MaxAttempt = 2
  MaxRecords = 2
  AfterPr = FALSE
CHECK_DEADLOCK FALSE
INVARIANTS
  ConflictsResolved
