\* Two uploads under one key, two workers, one place in the channel.
SPECIFICATION Spec
CONSTANTS
  r1 = r1
  r2 = r2
  k1 = k1
  Job <- TwoUploads
  Worker = {w1, w2}
  Capacity = 1
  Key = {k1}
  NoKey = NoKey
  KeyOf <- TwoUploadKey
  NoJob = NoJob
  MainKeepsState = FALSE
SYMMETRY WorkerSymmetry
VIEW WithoutDepth
CHECK_DEADLOCK FALSE
INVARIANTS
  TypeOK
  OnePlace
  OnlySentJobsRun
  AcceptedJobIsAccountedFor
  KeyStandsForSentJob
  StatusAgreesWithPlace
  NoLeakedWorkDir
  NothingLostAtExit
  GaugesAccountForJobs
PROPERTIES
  StatusMovesForward
  ImplementsContract
