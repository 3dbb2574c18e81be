\* Two inputs, every selection of outputs, every step may fail.
SPECIFICATION Spec
CONSTANTS
  InputCount = 2
  IOFails = TRUE
CHECK_DEADLOCK FALSE
INVARIANTS
  ManifestIsTrue
  StatusFollowsManifest
  OutcomeIsRecorded
  CommittedIsStored
  RowFollowsStore
PROPERTY StatusArtifactMovesForward
