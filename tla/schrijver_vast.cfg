SPECIFICATION FairSpec
CONSTANTS
  Batch = 2
  Ladingen <- EenStand
  Fouten = {"data"}
PROPERTY SchrijvenEindigt
CHECK_DEADLOCK FALSE
