SPECIFICATION Spec
CONSTANTS
  N = 3
  Batch = 2
  Capaciteit = 1
  ObjectRef <- MCObjectRef
  Instellingen <- Direct
  Modi = {"BY_STATUS", "BY_IDS", "RETRY_WAITING"}
  MaxRuns = 3
  MaxCrashes = 1
INVARIANTS
  FoutGemeld
  NietsVergeten
  StagingVolgtRsgb
PROPERTIES
  VolgtBelofte
  HerstartMogelijk
  NooitTerug
CHECK_DEADLOCK FALSE
