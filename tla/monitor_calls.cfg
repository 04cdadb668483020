SPECIFICATION Spec
CONSTANTS
  s1 = s1
  NoKey = NoKey
  Session = {s1}
  Commit = {1, 2}
  Events = {"reject"}
  Window = 1
  TTL = 0
  Capacity = 3
  MaxJobs = 4
  Room = 2
CHECK_DEADLOCK FALSE
INVARIANTS
  CompleteIsEarned
  FailedWatchRunsAgain
  OneWatchPerHead
