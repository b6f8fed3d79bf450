SPECIFICATION Spec
CONSTANTS
    Bestand <- MCBestand
    Inhoud <- MCInhoud
    Lader = {l1, l2}
    GeenRef = GeenRef
    Kapot = Kapot
    k1 = k1
    MaxLaden = 2
    MaxRuns = 2
    MaxVerwijderd = 1
    MaxCrashes = 1
SYMMETRY Symmetrie
INVARIANT VerwerkteInhoud
CHECK_DEADLOCK FALSE
