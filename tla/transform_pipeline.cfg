SPECIFICATION FairSpec
CONSTANTS
  N = 4
  Batch = 2
  Capaciteit = 2
  ObjectRef <- MCObjectRef
  Instellingen <- MetPipeline
  Modi = {"BY_STATUS", "RETRY_WAITING"}
  MaxRuns = 2
  MaxCrashes = 0
INVARIANTS
  TypeOK
  InVlucht
PROPERTIES
  VolgtBelofte
  RunEindigt
CHECK_DEADLOCK FALSE
