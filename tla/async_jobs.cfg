SPECIFICATION Spec
CONSTANTS
  publishA = publishA
  publishB = publishB
  watch = watch
  checkout = checkout
  input1 = input1
  input2 = input2
  w1 = w1
  NoKey = NoKey
  Waiter = {w1}
  Capacity = 2
  TTL = 0
  MaxJobs = 3
  Request <- MCRequest
CHECK_DEADLOCK FALSE
INVARIANTS
  SingleFlight
  NobodyStranded
  CancelledHonestly
  RegistryInvariant
PROPERTIES
  ResultsRetained
  ImplementsAttempts
