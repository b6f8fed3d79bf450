SPECIFICATION Spec
CONSTANTS
    Nummers <- MCNummers
    PageSize = 2
    Paginas <- AllePaginas
    Generaties <- MCGeneraties
    Geen = Geen
    Slots = {s1}
    Orders = {o1}
    Schattingen <- MCAlleenExact
    Exact <- MCExact
    Tabellen <- MCTabellen
    MaxKlikken = 4
    MaxWijzigingen = 0
    MaxFouten = 0
INVARIANTS SelectieKlopt VinkjesKloppen
PROPERTIES VinkBlijft AlleenGekozen
