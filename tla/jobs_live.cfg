\* Two requests, one worker that may hang for ever; the router holds the only sender.
SPECIFICATION HangSpec
CONSTANTS
  r1 = r1
  r2 = r2
  k1 = k1
  Job = {r1, r2}
  Worker = {w1}
  Capacity = 1
  Key = {k1}
  NoKey = NoKey
  KeyOf <- KeylessKey
  NoJob = NoJob
  MainKeepsState = FALSE
CHECK_DEADLOCK FALSE
PROPERTIES
  RunningJobsEnd
  FulfilsContract
  ShutdownCompletes
