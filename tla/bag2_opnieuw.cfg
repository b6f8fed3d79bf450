SPECIFICATION FairSpec
CONSTANTS
  Sleutels <- MCSleutels
  Soort <- MCSoort
  GemeentenVan <- MCGemeentenVan
  Historie <- MCHistorie
  Buiten <- MCBuiten
  Opdrachten <- MCOpdrachten
  MaxRuns = 3
  MaxStoringen = 1
PROPERTY OpnieuwProberen
CHECK_DEADLOCK FALSE
