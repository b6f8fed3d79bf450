SPECIFICATION FairSpec
CONSTANTS
  Sleutels <- MCSleutels
  Soort <- MCSoort
  GemeentenVan <- MCGemeentenVan
  Historie <- MCHistorie
  Buiten <- MCBuiten
  Opdrachten <- MCOpdrachten
  MaxRuns = 4
  MaxStoringen = 2
INVARIANT TypeOK NietsGemist Actueel GeenDubbel Bijgewerkt
PROPERTY RunEindigt GeenSleutelFout
CHECK_DEADLOCK FALSE
