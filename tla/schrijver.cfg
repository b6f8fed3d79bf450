SPECIFICATION FairSpec
CONSTANTS
  Batch = 2
  Ladingen <- AlleLadingen
  Fouten = {"lezen", "data", "sql"}
INVARIANTS
  TypeOK
  SequentieelResultaat
  Integriteit
  NietsOvergeslagen
PROPERTY AbortEindigt
CHECK_DEADLOCK FALSE
