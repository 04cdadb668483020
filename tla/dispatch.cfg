SPECIFICATION Spec
CONSTANTS
  t1 = t1
  t2 = t2
  t3 = t3
  Ticket = {t1, t2, t3}
  MaxDemand = 4
  HostCapacity = 3
  Capacity <- MCSameCapacity
  Demands <- MCFewDemands
  StaleAfter = 1
SYMMETRY MCSymmetry
CHECK_DEADLOCK FALSE
INVARIANTS
  ClosedFormAgrees
  AttendedWorkWithinCapacity
  DispatchInvariant
PROPERTIES
  ImplementsPool
  EvictedOnlyWhenAbandoned
  PlansNeverShrink
  NoOvertaking
