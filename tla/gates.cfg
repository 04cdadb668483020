SPECIFICATION Spec
CONSTANTS
  c1 = c1
  c2 = c2
  h1 = h1
  h2 = h2
  None = None
  Caller = {c1}
  Commit = {h1, h2}
  Faults = {"probe", "read"}
  Paginated = {h2}
  MaxWorlds = 3
CHECK_DEADLOCK FALSE
INVARIANTS
  FreshAnswer
  CoherentSnapshot
