SPECIFICATION Spec
CONSTANTS
  c1 = c1
  c2 = c2
  h1 = h1
  h2 = h2
  None = None
  Caller = {c1}
  Commit = {h1}
  Faults = {"read"}
  Paginated = {}
  MaxWorlds = 2
CHECK_DEADLOCK FALSE
INVARIANTS
  GreenIsCurrent
