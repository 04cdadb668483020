SPECIFICATION FairSpec
CONSTANTS
  t1 = t1
  t2 = t2
  t3 = t3
  Ticket = {t1, t2}
  MaxDemand = 3
  HostCapacity = 2
  Capacity <- MCSameCapacity
  Demands <- MCDemands
  StaleAfter = 1
CHECK_DEADLOCK FALSE
PROPERTIES
  QueueDrains
