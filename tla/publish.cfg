SPECIFICATION Spec
CONSTANTS
  c1 = c1
  c2 = c2
  Call = {c1, c2}
  Free = Free
  Orphan = Orphan
  Kinds <- EveryKind
  ResolvesFirst = TRUE
  MaxRevision = 2
  MaxContent = 1
  MaxCommits = 3
  MaxAttempt = 2
  MaxRecords = 2
  AfterPr = FALSE
SYMMETRY Symmetry
CHECK_DEADLOCK FALSE
INVARIANTS
  RecordsPublished
  RecordsMergeTheBase
  HandlesConsistent
  PrFresh
PROPERTIES
  WorkNeverMerges
