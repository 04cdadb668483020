SPECIFICATION FairSpec
CONSTANTS
  s1 = s1
  NoKey = NoKey
  Session = {s1}
  Commit = {1}
  Events = {"time", "read", "rerun", "conflict"}
  Window = 1
  TTL = 1
  Capacity = 3
  MaxJobs = 2
  Room = 2
CHECK_DEADLOCK FALSE
PROPERTIES
  CallAnswers
