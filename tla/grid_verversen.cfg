SPECIFICATION EerlijkeSpec
CONSTANTS
    Nummers <- MCNummers
    PageSize = 2
    Paginas <- AllePaginas
    Generaties <- MCWeinigGeneraties
    Geen = Geen
    Slots = {s1, s2}
    Orders = {o1}
    Schattingen <- MCSchattingen
    Exact <- MCExact
    Tabellen <- MCTabellen
    MaxKlikken = 1
    MaxWijzigingen = 1
    MaxFouten = 1
INVARIANTS TypeOK EenTimer NietStil PaginaBestaat
PROPERTIES KomtTotRust ToontTabel
CHECK_DEADLOCK FALSE
