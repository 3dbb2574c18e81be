\* One slow job and the reaper: what the gauges say when all is over.
SPECIFICATION Spec
CONSTANTS
  r1 = r1
  r2 = r2
  k1 = k1
  Job = {r1}
  Worker = {w1}
  Capacity = 1
  Key = {k1}
  NoKey = NoKey
  KeyOf <- KeylessKey
  NoJob = NoJob
  MainKeepsState = TRUE
CHECK_DEADLOCK FALSE
INVARIANT InFlightIsAccurate
