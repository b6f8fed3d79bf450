SPECIFICATION Spec
CONSTANTS
    weg = weg
    label = label
    Typen = {weg, label}
    Labels = {label}
    Keuzes <- MCKeuzes
    Bewaard = 3
    MaxDag = 4
    MaxLadingen = 2
    MaxPech = 1
INVARIANTS TypeOK TabelKlopt
PROPERTIES SuccesIsActueel BijOfVast
