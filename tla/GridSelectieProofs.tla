------------------------- MODULE GridSelectieProofs -------------------------
(* Theorems about GridSelectie.                                            *)
EXTENDS GridSelectie, TLAPS, FiniteSetTheorems

(***************************************************************************)
(* Data.                                                                   *)
(***************************************************************************)
(* A request for a page is a request.                                       *)
LEMMA VraagType ==
    ASSUME NEW p \in Int, NEW f \in BOOLEAN, NEW d \in BOOLEAN
    PROVE  Vraag(p, f, d) \in Aanvraag
<1>1. Vrij \in Aanvraag
  BY DEF Vrij, Aanvraag
<1>2. \A w \in Aanvraag : \A v : v = [w EXCEPT !.fase = "verstuurd",
          !.pagina = p, !.filter = f, !.aflopend = d] => v \in Aanvraag
  BY DEF Aanvraag
<1>. QED  BY <1>1, <1>2 DEF Vraag

(* Page numbers and counts are integers.                                    *)
LEMMA PageCountType ==
    ASSUME NEW n \in Int
    PROVE  PageCount(n) \in Int /\ n \div PageSize \in Int
BY GridAannames DEF PageCount

LEMMA PassendType ==
    ASSUME NEW f \in BOOLEAN
    PROVE  Cardinality(Passend(f)) \in Nat
<1>1. IsFiniteSet(Nummers) /\ Passend(f) \subseteq Nummers
  BY GridAannames DEF Passend
<1>. QED  BY <1>1, FS_Subset, FS_CardinalityType

LEMMA TotaalType ==
    ASSUME TypeOK, NEW f \in BOOLEAN
    PROVE  Totaal(f) \in Int
BY PassendType, GridAannames DEF Totaal, TypeOK

LEMMA RijenType ==
    ASSUME TypeOK, NEW p \in Int, NEW f \in BOOLEAN, NEW d \in BOOLEAN
    PROVE  PaginaRijen(p, f, d) \subseteq Nummers
BY DEF PaginaRijen, Passend

(* What the server adds to a request.                                       *)
LEMMA GeteldType ==
    ASSUME TypeOK, NEW a \in Aanvraag
    PROVE  Geteld(a) \in Aanvraag
<1>1. Totaal(a.filter) \in Int
  BY TotaalType DEF Aanvraag
<1>. DEFINE t == Totaal(a.filter)
<1>2. \A v : v = [a EXCEPT !.fase = IF EerstTellen THEN "half" ELSE "klaar",
                           !.totaal = t] => v \in Aanvraag
  <2>. HIDE DEF t
  <2>. QED  BY <1>1 DEF Aanvraag, t
<1>. QED  BY <1>2 DEF Geteld

LEMMA GelezenType ==
    ASSUME TypeOK, NEW a \in Aanvraag
    PROVE  Gelezen(a) \in Aanvraag
<1>. DEFINE rs == PaginaRijen(a.pagina, a.filter, a.aflopend)
<1>1. rs \subseteq Nummers
  BY RijenType DEF Aanvraag
<1>2. \A v : v = [a EXCEPT !.fase = IF EerstTellen THEN "klaar" ELSE "half",
                           !.rijen = rs] => v \in Aanvraag
  <2>. HIDE DEF rs
  <2>. QED  BY <1>1 DEF Aanvraag
<1>. QED  BY <1>2 DEF Gelezen

(* A load starts: the loads in flight and the page number keep their type.  *)
LEMMA LoadPageType ==
    ASSUME TypeOK, NEW p \in Int, LoadPage(p)
    PROVE  aanvragen' \in [Slots -> Aanvraag] /\ currentPage' \in Int
<1>1. NuVraag(p) \in Aanvraag
  BY VraagType DEF NuVraag, TypeOK
<1>. QED  BY <1>1 DEF LoadPage, TypeOK

LEMMA VolgtOpType ==
    ASSUME TypeOK, NEW s, NEW D, D \subseteq Int, VolgtOp(s, D)
    PROVE  aanvragen' \in [Slots -> Aanvraag] /\ currentPage' \in Int
<1>1. Vrij \in Aanvraag
  BY DEF Vrij, Aanvraag
<1>2. CASE D = {}
  BY <1>1, <1>2 DEF VolgtOp, TypeOK
<1>3. CASE D # {}
  <2>1. PICK p \in D : /\ aanvragen' = [aanvragen EXCEPT ![s] = NuVraag(p)]
                       /\ currentPage' = p
    BY <1>3 DEF VolgtOp
  <2>2. NuVraag(p) \in Aanvraag
    BY VraagType DEF NuVraag, TypeOK
  <2>. QED  BY <2>1, <2>2 DEF TypeOK
<1>. QED  BY <1>2, <1>3

LEMMA SetMessageType ==
    ASSUME NEW t \in {"success", "error", "gestopt"}, SetMessage(t)
    PROVE  melding' \in [zichtbaar : BOOLEAN,
                         soort : {"geen", "success", "error", "gestopt"}]
BY DEF SetMessage

(* Checking and unchecking keeps the types of the selection.                *)
LEMMA KiesType ==
    ASSUME TypeOK, NEW nieuw, NEW aan, NEW uit,
           nieuw \subseteq Id, aan \subseteq Id, uit \subseteq Id,
           Kies(nieuw, aan, uit)
    PROVE  /\ gekozen' \subseteq Id /\ selected' \subseteq Id
           /\ selection' \in [Id -> Nat]
           /\ gevinkt' \subseteq Nummers
<1>. DEFINE n == OnRowDeselect(uit, selection)
<1>1. n \in [Id -> Nat]
  BY DEF OnRowDeselect, TypeOK
<1>2. OnRowSelect(aan, n) \in [Id -> Nat]
  <2>. HIDE DEF n
  <2>. QED  BY <1>1 DEF OnRowSelect
<1>3. Nummer(aan) \subseteq Nummers
  BY DEF Nummer, Id
<1>4. selection' \in [Id -> Nat]
  BY <1>2 DEF Kies
<1>. QED  BY <1>3, <1>4 DEF Kies, TypeOK

(* A request that is given, handled and answered.                           *)
LEMMA GeeftOpdrachtType ==
    ASSUME TypeOK, NEW so \in Soort, NEW rs \in SUBSET Nummers,
           NEW st \in Status, NEW w \in BOOLEAN,
           GeeftOpdracht(so, rs, st, w)
    PROVE  opdrachten' \in [Orders -> Opdracht]
<1>1. [soort |-> so, rijen |-> rs, status |-> st, fase |-> "onderweg",
       wacht |-> w] \in Opdracht
  BY DEF Opdracht
<1>. QED  BY <1>1 DEF GeeftOpdracht, TypeOK

LEMMA GedaanType ==
    ASSUME TypeOK, NEW o \in Orders, NEW r
    PROVE  Gedaan(o, r) \in Opdracht
<1>1. \A w \in Opdracht : \A v : v = [w EXCEPT !.rijen = @ \ {r},
         !.fase = IF w.soort = "bewaar" /\ db[r] = "weg"
                    THEN "fout" ELSE "onderweg"] => v \in Opdracht
  BY DEF Opdracht
<1>. QED  BY <1>1 DEF Gedaan, TypeOK

LEMMA FaseType ==
    ASSUME NEW w \in Opdracht, NEW f \in {"goed", "fout"}
    PROVE  [w EXCEPT !.fase = f] \in Opdracht
BY DEF Opdracht

LEMMA WachtType ==
    ASSUME NEW w \in Opdracht
    PROVE  [w EXCEPT !.wacht = FALSE] \in Opdracht
BY DEF Opdracht

LEMMA AfloopType ==
    ASSUME TypeOK, NEW so, NEW goed \in BOOLEAN, Afloop(so, goed)
    PROVE  /\ aanvragen' \in [Slots -> Aanvraag] /\ currentPage' \in Int
           /\ melding' \in [zichtbaar : BOOLEAN,
                            soort : {"geen", "success", "error", "gestopt"}]
<1>1. melding' \in [zichtbaar : BOOLEAN,
                    soort : {"geen", "success", "error", "gestopt"}]
  BY SetMessageType DEF Afloop, TypeOK
<1>2. (aanvragen' \in [Slots -> Aanvraag] /\ currentPage' \in Int)
  <2>1. CASE ReloadGrid
    BY <2>1, LoadPageType DEF ReloadGrid, TypeOK
  <2>2. CASE UNCHANGED <<currentPage, aanvragen>>
    BY <2>2 DEF TypeOK
  <2>. QED  BY <2>1, <2>2 DEF Afloop
<1>. QED  BY <1>1, <1>2

(***************************************************************************)
(* Types.                                                                  *)
(***************************************************************************)
LEMMA InitTypes == Init => TypeOK
<1>. SUFFICES ASSUME Init PROVE TypeOK
  OBVIOUS
<1>1. Vrij \in Aanvraag /\ GeenOpdracht \in Opdracht
  BY DEF Vrij, Aanvraag, GeenOpdracht, Opdracht, Status
<1>2. Vraag(1, FALSE, FALSE) \in Aanvraag
  <2>1. 1 \in Int /\ FALSE \in BOOLEAN
    OBVIOUS
  <2>2. \A p \in Int, f, d \in BOOLEAN : Vraag(p, f, d) \in Aanvraag
    BY VraagType
  <2>. QED  BY <2>1, <2>2, Zenon
<1>3. aanvragen \in [Slots -> Aanvraag]
  BY <1>1, <1>2 DEF Init
<1>4. db \in [Nummers -> Status] /\ schatting \in Schattingen
      /\ pagina \in Paginas
  BY GridAannames DEF Init, Status
<1>5. editor \in Id \union {Geen} /\ opdrachten \in [Orders -> Opdracht]
  BY <1>1 DEF Init
<1>6. melding \in [zichtbaar : BOOLEAN,
                  soort : {"geen", "success", "error", "gestopt"}]
  BY DEF Init
<1>7. selection \in [Id -> Nat] /\ movingBack \in 0..4
  BY DEF Init
<1>8. /\ currentPage \in Int /\ totalCount \in Int /\ maxResults \in Int
      /\ timer \in Nat /\ klikken \in Nat /\ wijzigingen \in Nat
      /\ fouten \in Nat
  BY DEF Init
<1>9. filter \in BOOLEAN /\ aflopend \in BOOLEAN /\ pager \in BOOLEAN
  BY DEF Init
<1>10. /\ getoond \subseteq Id /\ gekozen \subseteq Id /\ selected \subseteq Id
       /\ logVragen \subseteq Nummers /\ logWindow \subseteq Nummers
       /\ gevinkt \subseteq Nummers
  BY DEF Init
<1>. QED  BY <1>3, <1>4, <1>5, <1>6, <1>7, <1>8, <1>9, <1>10 DEF TypeOK

(* The steps of the server and of an answer to a load.                      *)
LEMMA LadenTypes ==
    ASSUME TypeOK, NEW s \in Slots,
           \/ ServerTelt(s) \/ ServerLeest(s) \/ LaadGoed(s)
           \/ \E n \in {0, totalCount} : LaadFout(s, n)
    PROVE  TypeOK'
<1>. USE DEF serverVars, pagerVars, vraagVars, storeVars, selectieVars,
             gridVars, logVars, grenzen
<1>0. aanvragen[s] \in Aanvraag
  BY DEF TypeOK
<1>1. CASE ServerTelt(s)
  BY <1>0, <1>1, GeteldType DEF ServerTelt, TypeOK
<1>2. CASE ServerLeest(s)
  BY <1>0, <1>2, GelezenType DEF ServerLeest, TypeOK
<1>3. CASE LaadGoed(s)
  <2>. DEFINE a == aanvragen[s]
              totaal == IF maxResults # -1 THEN maxResults ELSE a.totaal
              terug == TerugDoel(totaal, a.rijen)
              D == terug \union PagerDoel(totaal, a.rijen)
  <2>1. a.rijen \subseteq Nummers /\ a.totaal \in Int
    BY <1>0 DEF Aanvraag
  <2>2. totaal \in Int
    BY <2>1 DEF TypeOK
  <2>3. D \subseteq Int
    BY <2>2, PageCountType DEF TerugDoel, PagerDoel
  <2>4. aanvragen' \in [Slots -> Aanvraag] /\ currentPage' \in Int
    <3>. VolgtOp(s, D)
      BY <1>3 DEF LaadGoed
    <3>. HIDE DEF D
    <3>. QED  BY <2>3, VolgtOpType
  <2>5. getoond' \subseteq Id /\ gekozen' \subseteq Id
    BY <1>3, <2>1 DEF LaadGoed, OnViewRefresh, Id, TypeOK
  <2>6. timer' \in Nat
    BY <1>3 DEF LaadGoed, Gewist, TypeOK
  <2>7. totalCount' \in Int /\ maxResults' \in Int
    BY <1>3, <2>2 DEF LaadGoed, TypeOK
  <2>8. movingBack' \in 0..4
    BY <1>3 DEF LaadGoed, TerugDoel, TypeOK
  <2>9. pager' \in BOOLEAN
    BY <1>3 DEF LaadGoed
  <2>. QED  BY <1>3, <2>4, <2>5, <2>6, <2>7, <2>8, <2>9 DEF LaadGoed, TypeOK
<1>4. ASSUME NEW n \in {0, totalCount}, LaadFout(s, n)
      PROVE  TypeOK'
  <2>1. n \in Int
    BY DEF TypeOK
  <2>2. PagerDoel(n, getoond) \subseteq Int
    BY <2>1, PageCountType DEF PagerDoel
  <2>3. aanvragen' \in [Slots -> Aanvraag] /\ currentPage' \in Int
    BY <1>4, <2>2, VolgtOpType DEF LaadFout
  <2>4. melding' \in [zichtbaar : BOOLEAN,
                      soort : {"geen", "success", "error", "gestopt"}]
    BY <1>4, SetMessageType DEF LaadFout
  <2>. QED  BY <1>4, <2>1, <2>3, <2>4 DEF LaadFout, TypeOK
<1>. QED  BY <1>1, <1>2, <1>3, <1>4

(* The steps of the user on the rows.                                       *)
LEMMA WisselType ==
    ASSUME TypeOK, NEW i \in Id, Wissel(i)
    PROVE  /\ gekozen' \subseteq Id /\ selected' \subseteq Id
           /\ selection' \in [Id -> Nat] /\ gevinkt' \subseteq Nummers
<1>1. gekozen \subseteq Id /\ {i} \subseteq Id /\ {} \subseteq Id
      /\ gekozen \ {i} \subseteq Id /\ gekozen \union {i} \subseteq Id
  BY DEF TypeOK
<1>. QED  BY <1>1, KiesType DEF Wissel

LEMMA AlleenType ==
    ASSUME TypeOK, NEW i \in Id, Alleen(i)
    PROVE  /\ gekozen' \subseteq Id /\ selected' \subseteq Id
           /\ selection' \in [Id -> Nat] /\ gevinkt' \subseteq Nummers
<1>1. {i} \subseteq Id /\ gekozen \ {i} \subseteq Id
  BY DEF TypeOK
<1>. QED  BY <1>1, KiesType DEF Alleen

LEMMA RijenTypes ==
    ASSUME TypeOK,
           \/ \E i \in getoond : \/ KlikRij(i) \/ KlikStatus(i)
                                 \/ ToetsStatus(i) \/ OpenLog(i)
           \/ KlikKop \/ KlikNaast
    PROVE  TypeOK'
<1>. USE DEF serverVars, pagerVars, vraagVars, storeVars, selectieVars,
             gridVars, logVars, grenzen, NaKlik, NaVink, Klik
<1>. DEFINE K == /\ gekozen' \subseteq Id /\ selected' \subseteq Id
                 /\ selection' \in [Id -> Nat] /\ gevinkt' \subseteq Nummers
<1>0. getoond \subseteq Id /\ gekozen \subseteq Id /\ {} \subseteq Id
  BY DEF TypeOK
<1>1. ASSUME NEW i \in getoond, KlikRij(i) PROVE TypeOK'
  <2>1. K
    BY <1>0, <1>1, WisselType DEF KlikRij
  <2>. QED  BY <1>1, <2>1 DEF KlikRij, TypeOK
<1>2. ASSUME NEW i \in getoond, KlikStatus(i) PROVE TypeOK'
  <2>1. K
    <3>1. CASE i \in gekozen
      BY <1>0, <1>2, <3>1, AlleenType DEF KlikStatus
    <3>2. CASE i \notin gekozen
      <4>1. gekozen \union {i} \subseteq Id /\ {i} \subseteq Id
        BY <1>0
      <4>. QED  BY <1>0, <1>2, <3>2, <4>1, KiesType DEF KlikStatus
    <3>. QED  BY <3>1, <3>2
  <2>2. editor' \in Id \union {Geen} /\ timer' \in Nat
    BY <1>0, <1>2 DEF KlikStatus, BegintBewerken, Gewist, TypeOK
  <2>. QED  BY <1>2, <2>1, <2>2 DEF KlikStatus, BegintBewerken, TypeOK
<1>3. ASSUME NEW i \in getoond, ToetsStatus(i) PROVE TypeOK'
  <2>1. K
    <3>1. CASE i \in gekozen
      BY <1>3, <3>1 DEF ToetsStatus, TypeOK
    <3>2. CASE i \notin gekozen
      BY <1>0, <1>3, <3>2, AlleenType DEF ToetsStatus
    <3>. QED  BY <3>1, <3>2
  <2>2. editor' \in Id \union {Geen} /\ timer' \in Nat
    BY <1>0, <1>3 DEF ToetsStatus, BegintBewerken, Gewist, TypeOK
  <2>. QED  BY <1>3, <2>1, <2>2 DEF ToetsStatus, BegintBewerken, TypeOK
<1>4. ASSUME NEW i \in getoond, OpenLog(i) PROVE TypeOK'
  <2>1. K
    BY <1>0, <1>4, WisselType DEF OpenLog
  <2>2. i[1] \in Nummers
    BY <1>0 DEF Id
  <2>. QED  BY <1>4, <2>1, <2>2 DEF OpenLog, TypeOK
<1>5. CASE KlikKop
  <2>1. K
    BY <1>0, <1>5, KiesType DEF KlikKop
  <2>. QED  BY <1>5, <2>1 DEF KlikKop, TypeOK
<1>6. CASE KlikNaast
  <2>1. K
    BY <1>0, <1>6, KiesType DEF KlikNaast
  <2>. QED  BY <1>6, <2>1 DEF KlikNaast, TypeOK
<1>. QED  BY <1>1, <1>2, <1>3, <1>4, <1>5, <1>6

(* The other steps that load.                                               *)
LEMMA NavigatieTypes ==
    ASSUME TypeOK,
           \/ TimerAf \/ Annuleer \/ Herlaad \/ Sorteer \/ KiesFilter
           \/ \E p \in {1} \union 1..PageCount(totalCount) : NaarPagina(p)
    PROVE  TypeOK'
<1>. USE DEF serverVars, pagerVars, vraagVars, storeVars, selectieVars,
             gridVars, logVars, grenzen, NaKlik, NaLaden, Klik
<1>. DEFINE L == aanvragen' \in [Slots -> Aanvraag] /\ currentPage' \in Int
<1>0. currentPage \in Int /\ 1 \in Int /\ PageCount(totalCount) \in Int
  BY PageCountType DEF TypeOK
<1>1. CASE TimerAf
  <2>1. L
    BY <1>0, <1>1, LoadPageType DEF TimerAf, ReloadGrid
  <2>2. timer' \in Nat
    BY <1>1 DEF TimerAf, TypeOK
  <2>. QED  BY <1>1, <2>1, <2>2 DEF TimerAf, TypeOK
<1>2. CASE Annuleer
  <2>1. L
    BY <1>0, <1>2, LoadPageType DEF Annuleer, ReloadGrid
  <2>. QED  BY <1>2, <2>1 DEF Annuleer, TypeOK
<1>3. CASE Herlaad
  <2>1. L
    BY <1>0, <1>3, LoadPageType DEF Herlaad, ReloadGrid
  <2>. QED  BY <1>3, <2>1 DEF Herlaad, TypeOK
<1>4. CASE Sorteer
  <2>1. aflopend' \in BOOLEAN
    BY <1>4 DEF Sorteer, TypeOK
  <2>2. Vraag(currentPage, filter, aflopend') \in Aanvraag
    BY <1>0, <2>1, VraagType DEF TypeOK
  <2>3. L
    BY <1>0, <1>4, <2>2 DEF Sorteer, TypeOK
  <2>. QED  BY <1>4, <2>1, <2>3 DEF Sorteer, TypeOK
<1>5. CASE KiesFilter
  <2>1. filter' \in BOOLEAN
    BY <1>5 DEF KiesFilter, TypeOK
  <2>2. Vraag(1, filter', aflopend) \in Aanvraag
    <3>1. \A p \in Int, f, d \in BOOLEAN : Vraag(p, f, d) \in Aanvraag
      BY VraagType
    <3>2. aflopend \in BOOLEAN
      BY DEF TypeOK
    <3>. QED  BY <1>0, <2>1, <3>1, <3>2, Zenon
  <2>3. L
    BY <1>0, <1>5, <2>2 DEF KiesFilter, TypeOK
  <2>. QED  BY <1>5, <2>1, <2>3 DEF KiesFilter, TypeOK
<1>6. ASSUME NEW p \in {1} \union 1..PageCount(totalCount), NaarPagina(p)
      PROVE  TypeOK'
  <2>1. p \in Int
    BY <1>0
  <2>2. L
    BY <1>6, <2>1, LoadPageType DEF NaarPagina
  <2>. QED  BY <1>6, <2>2 DEF NaarPagina, TypeOK
<1>. QED  BY <1>1, <1>2, <1>3, <1>4, <1>5, <1>6

(* The requests, their answers, and what others do.                         *)
LEMMA OpdrachtTypes ==
    ASSUME TypeOK,
           \/ \E w \in SUBSET Nummers, st \in {"open", "klaar"} : Bewaar(w, st)
           \/ Verwijder \/ TransformeerBerichten \/ TransformeerLaadprocessen
           \/ TransformeerAlles \/ HaalOp
           \/ \E o \in Orders : \/ ServerVerwerkt(o) \/ ServerMislukt(o)
                                \/ OpdrachtAntwoord(o) \/ OpdrachtVerlopen(o)
    PROVE  TypeOK'
<1>. USE DEF serverVars, pagerVars, vraagVars, storeVars, selectieVars,
             gridVars, logVars, grenzen, NaKlik, NaKnop, NaAfloop, Klik
<1>. DEFINE Goed == opdrachten' \in [Orders -> Opdracht]
<1>0. /\ Nummer(gekozen) \in SUBSET Nummers
      /\ Nummer(GetPersistedSelection) \in SUBSET Nummers
      /\ Passend(TRUE) \in SUBSET Nummers
  BY DEF Nummer, GetPersistedSelection, Passend, Id, TypeOK
<1>. USE DEF Soort, Status
<1>1. ASSUME NEW w \in SUBSET Nummers, NEW st \in {"open", "klaar"},
             Bewaar(w, st)
      PROVE  TypeOK'
  <2>1. Goed
    BY <1>1, GeeftOpdrachtType DEF Bewaar
  <2>. QED  BY <1>1, <2>1 DEF Bewaar, TypeOK
<1>2. CASE Verwijder
  <2>1. Goed
    BY <1>0, <1>2, GeeftOpdrachtType DEF Verwijder
  <2>. QED  BY <1>2, <2>1 DEF Verwijder, TypeOK
<1>3. CASE Transformeert
  <2>1. Goed
    BY <1>0, <1>3, GeeftOpdrachtType DEF Transformeert
  <2>. QED  BY <1>3, <2>1 DEF Transformeert, TypeOK
<1>4. CASE TransformeerAlles
  <2>1. Goed
    BY <1>0, <1>4, GeeftOpdrachtType DEF TransformeerAlles
  <2>. QED  BY <1>4, <2>1 DEF TransformeerAlles, TypeOK
<1>5. CASE HaalOp
  <2>1. Goed
    BY <1>0, <1>5, GeeftOpdrachtType DEF HaalOp
  <2>. QED  BY <1>5, <2>1 DEF HaalOp, TypeOK
<1>6. ASSUME NEW o \in Orders, ServerVerwerkt(o) PROVE TypeOK'
  <2>1. CASE /\ opdrachten' = [opdrachten EXCEPT ![o] = [@ EXCEPT !.fase = "goed"]]
             /\ UNCHANGED db
    <3>1. [opdrachten[o] EXCEPT !.fase = "goed"] \in Opdracht
      BY FaseType DEF TypeOK
    <3>2. Goed
      BY <2>1, <3>1 DEF TypeOK
    <3>. QED  BY <1>6, <2>1, <3>2 DEF ServerVerwerkt, TypeOK
  <2>2. ASSUME NEW r \in opdrachten[o].rijen,
               opdrachten' = [opdrachten EXCEPT ![o] = Gedaan(o, r)],
               db' = [db EXCEPT ![r] = NaVerwerking(o, r)]
        PROVE  TypeOK'
    <3>1. Gedaan(o, r) \in Opdracht
      BY GedaanType
    <3>2. Goed
      BY <2>2, <3>1 DEF TypeOK
    <3>3. opdrachten[o].status \in Status /\ r \in Nummers
      BY DEF Opdracht, TypeOK
    <3>4. db' \in [Nummers -> Status]
      BY <2>2, <3>3 DEF NaVerwerking, TypeOK
    <3>. QED  BY <1>6, <3>2, <3>4 DEF ServerVerwerkt, TypeOK
  <2>. QED  BY <1>6, <2>1, <2>2 DEF ServerVerwerkt
<1>7. ASSUME NEW o \in Orders, ServerMislukt(o) PROVE TypeOK'
  <2>1. [opdrachten[o] EXCEPT !.fase = "fout"] \in Opdracht
    BY FaseType DEF TypeOK
  <2>2. Goed
    BY <1>7, <2>1 DEF ServerMislukt, TypeOK
  <2>. QED  BY <1>7, <2>2 DEF ServerMislukt, Faalt, TypeOK
<1>8. ASSUME NEW o \in Orders, OpdrachtAntwoord(o) PROVE TypeOK'
  <2>1. GeenOpdracht \in Opdracht
    BY DEF GeenOpdracht, Opdracht
  <2>2. Goed
    BY <1>8, <2>1 DEF OpdrachtAntwoord, TypeOK
  <2>3. /\ aanvragen' \in [Slots -> Aanvraag] /\ currentPage' \in Int
        /\ melding' \in [zichtbaar : BOOLEAN,
                         soort : {"geen", "success", "error", "gestopt"}]
    BY <1>8, AfloopType DEF OpdrachtAntwoord
  <2>. QED  BY <1>8, <2>2, <2>3 DEF OpdrachtAntwoord, TypeOK
<1>9. ASSUME NEW o \in Orders, OpdrachtVerlopen(o) PROVE TypeOK'
  <2>1. [opdrachten[o] EXCEPT !.wacht = FALSE] \in Opdracht
    BY WachtType DEF TypeOK
  <2>2. Goed
    BY <1>9, <2>1 DEF OpdrachtVerlopen, TypeOK
  <2>3. /\ aanvragen' \in [Slots -> Aanvraag] /\ currentPage' \in Int
        /\ melding' \in [zichtbaar : BOOLEAN,
                         soort : {"geen", "success", "error", "gestopt"}]
    BY <1>9, AfloopType DEF OpdrachtVerlopen
  <2>. QED  BY <1>9, <2>2, <2>3 DEF OpdrachtVerlopen, Faalt, TypeOK
<1>. QED  BY <1>1, <1>2, <1>3, <1>4, <1>5, <1>6, <1>7, <1>8, <1>9
          DEF TransformeerBerichten, TransformeerLaadprocessen

LEMMA OverigeTypes ==
    ASSUME TypeOK,
           \/ SluitMelding
           \/ \E r \in logVragen : LogAntwoord(r) \/ LogMislukt(r)
           \/ \E r \in Nummers, st \in Status : AndereWijziging(r, st)
           \/ \E n \in Schattingen : NieuweSchatting(n)
    PROVE  TypeOK'
<1>. USE DEF serverVars, pagerVars, vraagVars, storeVars, selectieVars,
             gridVars, logVars, grenzen, NaLog, Anderen, Faalt
<1>1. CASE SluitMelding
  <2>1. melding' \in [zichtbaar : BOOLEAN,
                      soort : {"geen", "success", "error", "gestopt"}]
    BY <1>1 DEF SluitMelding, TypeOK
  <2>. QED  BY <1>1, <2>1 DEF SluitMelding, TypeOK
<1>2. ASSUME NEW r \in logVragen, LogAntwoord(r) PROVE TypeOK'
  BY <1>2 DEF LogAntwoord, TypeOK
<1>3. ASSUME NEW r \in logVragen, LogMislukt(r) PROVE TypeOK'
  BY <1>3 DEF LogMislukt, TypeOK
<1>4. ASSUME NEW r \in Nummers, NEW st \in Status, AndereWijziging(r, st)
      PROVE  TypeOK'
  BY <1>4 DEF AndereWijziging, TypeOK
<1>5. ASSUME NEW n \in Schattingen, NieuweSchatting(n) PROVE TypeOK'
  BY <1>5 DEF NieuweSchatting, TypeOK
<1>. QED  BY <1>1, <1>2, <1>3, <1>4, <1>5

LEMMA TypesBlijven == TypeOK /\ [Next]_vars => TypeOK'
<1>. SUFFICES ASSUME TypeOK, [Next]_vars PROVE TypeOK'
  OBVIOUS
<1>1. CASE Next
  BY <1>1, LadenTypes, RijenTypes, NavigatieTypes, OpdrachtTypes,
     OverigeTypes DEF Next
<1>2. CASE UNCHANGED vars
  BY <1>2 DEF vars, serverVars, pagerVars, vraagVars, storeVars,
     selectieVars, gridVars, logVars, grenzen, TypeOK
<1>. QED  BY <1>1, <1>2

(* Every variable of browser and server keeps its type, whatever the table, *)
(* the page size and the number of requests in flight.                      *)
THEOREM Types == Spec => []TypeOK
BY InitTypes, TypesBlijven, PTL DEF Spec

(***************************************************************************)
(* The selection. What a load shows has one id for a row, on all pages but *)
(* nhr the same one as before; and what is checked, or kept, the user left *)
(* checked.                                                                *)
(***************************************************************************)
Ids ==
    /\ \A i, j \in getoond : i[1] = j[1] => i = j
    /\ pagina # "nhr" => \A i \in getoond \union selected : i[2] = 0
Gevinkt ==
    /\ Nummer(gekozen) \subseteq gevinkt
    /\ pagina # "nhr" => Nummer(selected) \subseteq gevinkt
Inv == TypeOK /\ SelectieKlopt /\ VinkjesKloppen /\ Ids /\ Gevinkt

(* All that clicks, keys and edits do to the selection has one form: rows   *)
(* of the screen are checked, others unchecked.                             *)
Vinken(aan, uit) ==
    /\ aan \subseteq getoond /\ uit \subseteq getoond /\ aan \intersect uit = {}
    /\ Kies((gekozen \ uit) \union aan, aan, uit)
    /\ UNCHANGED <<getoond, pagina>>

LEMMA WisselVinkt ==
    ASSUME VinkjesKloppen, NEW i \in getoond, Wissel(i),
           UNCHANGED <<getoond, pagina>>
    PROVE  \E aan, uit : Vinken(aan, uit)
<1>1. CASE i \in gekozen
  <2>1. gekozen \ {i} = (gekozen \ {i}) \union {}
    OBVIOUS
  <2>2. Vinken({}, {i})
    BY <1>1, <2>1 DEF Wissel, Vinken
  <2>. QED  BY <2>2
<1>2. CASE i \notin gekozen
  <2>1. gekozen \union {i} = (gekozen \ {}) \union {i}
    OBVIOUS
  <2>2. Vinken({i}, {})
    BY <1>2, <2>1 DEF Wissel, Vinken
  <2>. QED  BY <2>2
<1>. QED  BY <1>1, <1>2

LEMMA AlleenVinkt ==
    ASSUME VinkjesKloppen, NEW i \in getoond, Alleen(i),
           UNCHANGED <<getoond, pagina>>
    PROVE  \E aan, uit : Vinken(aan, uit)
<1>1. {i} = (gekozen \ (gekozen \ {i})) \union {i}
  OBVIOUS
<1>2. gekozen \ {i} \subseteq getoond
  BY DEF VinkjesKloppen
<1>3. Vinken({i}, gekozen \ {i})
  BY <1>1, <1>2 DEF Alleen, Vinken
<1>. QED  BY <1>3

LEMMA RijenVinken ==
    ASSUME VinkjesKloppen,
           \/ \E i \in getoond : \/ KlikRij(i) \/ KlikStatus(i)
                                 \/ ToetsStatus(i) \/ OpenLog(i)
           \/ KlikKop \/ KlikNaast
    PROVE  \/ UNCHANGED <<getoond, pagina, selectieVars>>
           \/ \E aan, uit : Vinken(aan, uit)
<1>. USE DEF storeVars, pagerVars, NaKlik, NaVink
<1>1. ASSUME NEW i \in getoond, KlikRij(i)
      PROVE  \E aan, uit : Vinken(aan, uit)
  BY <1>1, WisselVinkt DEF KlikRij
<1>2. ASSUME NEW i \in getoond, KlikStatus(i)
      PROVE  \E aan, uit : Vinken(aan, uit)
  <2>1. UNCHANGED <<getoond, pagina>>
    BY <1>2 DEF KlikStatus, BegintBewerken
  <2>2. CASE i \in gekozen
    BY <1>2, <2>1, <2>2, AlleenVinkt DEF KlikStatus
  <2>3. CASE i \notin gekozen
    <3>1. Wissel(i)
      BY <1>2, <2>3 DEF KlikStatus, Wissel
    <3>. QED  BY <2>1, <3>1, WisselVinkt
  <2>. QED  BY <2>2, <2>3
<1>3. ASSUME NEW i \in getoond, ToetsStatus(i)
      PROVE  \/ UNCHANGED <<getoond, pagina, selectieVars>>
             \/ \E aan, uit : Vinken(aan, uit)
  <2>1. UNCHANGED <<getoond, pagina>>
    BY <1>3 DEF ToetsStatus, BegintBewerken
  <2>. QED  BY <1>3, <2>1, AlleenVinkt DEF ToetsStatus
<1>4. ASSUME NEW i \in getoond, OpenLog(i)
      PROVE  \E aan, uit : Vinken(aan, uit)
  BY <1>4, WisselVinkt DEF OpenLog
<1>5. CASE KlikKop
  <2>1. UNCHANGED <<getoond, pagina>>
    BY <1>5 DEF KlikKop
  <2>2. CASE gekozen = getoond
    <3>1. {} = (gekozen \ getoond) \union {}
      BY <2>2
    <3>2. Vinken({}, getoond)
      BY <1>5, <2>1, <2>2, <3>1 DEF KlikKop, Vinken
    <3>. QED  BY <3>2
  <2>3. CASE gekozen # getoond
    <3>1. getoond = (gekozen \ {}) \union getoond
      BY DEF VinkjesKloppen
    <3>2. Vinken(getoond, {})
      BY <1>5, <2>1, <2>3, <3>1 DEF KlikKop, Vinken
    <3>. QED  BY <3>2
  <2>. QED  BY <2>2, <2>3
<1>6. CASE KlikNaast
  <2>1. {} = (gekozen \ gekozen) \union {} /\ gekozen \subseteq getoond
    BY DEF VinkjesKloppen
  <2>2. Vinken({}, gekozen)
    BY <1>6, <2>1 DEF KlikNaast, Vinken
  <2>. QED  BY <2>2
<1>. QED  BY <1>1, <1>2, <1>3, <1>4, <1>5, <1>6

(* A step checks rows, or an answer arrives, or it leaves the selection.    *)
LEMMA Stappen ==
    ASSUME VinkjesKloppen, [Next]_vars
    PROVE  \/ UNCHANGED <<getoond, pagina, selectieVars>>
           \/ \E aan, uit : Vinken(aan, uit)
           \/ \E s \in Slots : LaadGoed(s)
<1>. DEFINE Blijft == UNCHANGED <<getoond, pagina, selectieVars>>
<1>. USE DEF pagerVars, storeVars, gridVars, NaKlik, NaLaden, NaKnop, NaAfloop
<1>1. ASSUME NEW s \in Slots, ServerTelt(s) \/ ServerLeest(s) PROVE Blijft
  BY <1>1 DEF ServerTelt, ServerLeest
<1>2. ASSUME NEW s \in Slots, NEW n \in {0, totalCount}, LaadFout(s, n)
      PROVE  Blijft
  BY <1>2 DEF LaadFout
<1>3. CASE TimerAf \/ Annuleer \/ Herlaad \/ Sorteer \/ KiesFilter
  BY <1>3 DEF TimerAf, Annuleer, Herlaad, Sorteer, KiesFilter
<1>4. ASSUME NEW p \in {1} \union 1..PageCount(totalCount), NaarPagina(p)
      PROVE  Blijft
  BY <1>4 DEF NaarPagina
<1>5. ASSUME NEW w \in SUBSET Nummers, NEW st \in {"open", "klaar"},
             Bewaar(w, st)
      PROVE  Blijft
  BY <1>5 DEF Bewaar
<1>6. CASE \/ Verwijder \/ TransformeerBerichten \/ TransformeerLaadprocessen
           \/ TransformeerAlles \/ HaalOp
  BY <1>6 DEF Verwijder, TransformeerBerichten, TransformeerLaadprocessen,
     Transformeert, TransformeerAlles, HaalOp
<1>7. ASSUME NEW o \in Orders, \/ ServerVerwerkt(o) \/ ServerMislukt(o)
                               \/ OpdrachtAntwoord(o) \/ OpdrachtVerlopen(o)
      PROVE  Blijft
  BY <1>7 DEF ServerVerwerkt, ServerMislukt, OpdrachtAntwoord,
     OpdrachtVerlopen
<1>8. CASE SluitMelding
  BY <1>8 DEF SluitMelding
<1>9. ASSUME NEW r \in logVragen, LogAntwoord(r) \/ LogMislukt(r)
      PROVE  Blijft
  BY <1>9 DEF LogAntwoord, LogMislukt, NaLog
<1>10. ASSUME NEW r \in Nummers, NEW st \in Status, AndereWijziging(r, st)
       PROVE  Blijft
  BY <1>10 DEF AndereWijziging, Anderen
<1>11. ASSUME NEW n \in Schattingen, NieuweSchatting(n) PROVE Blijft
  BY <1>11 DEF NieuweSchatting, Anderen
<1>12. CASE UNCHANGED vars
  BY <1>12 DEF vars
<1>. QED  BY <1>1, <1>2, <1>3, <1>4, <1>5, <1>6, <1>7, <1>8, <1>9, <1>10,
             <1>11, <1>12, RijenVinken DEF Next

(* Array and hash change together.                                          *)
LEMMA KiesKlopt ==
    ASSUME TypeOK, SelectieKlopt, NEW aan, NEW uit, Vinken(aan, uit)
    PROVE  /\ selected' = (selected \ uit) \union aan
           /\ SelectieKlopt'
<1>. DEFINE n == OnRowDeselect(uit, selection)
<1>0. aan \subseteq Id /\ uit \subseteq Id /\ aan \intersect uit = {}
  BY DEF Vinken, TypeOK
<1>1. \A i \in uit : selection[i] > 0 <=> i \in selected
  BY <1>0 DEF SelectieKlopt
<1>2. selected' = (selected \ uit) \union aan
  BY <1>1 DEF Vinken, Kies
<1>3. \A i \in Id : n[i] = IF i \in selected \ uit THEN 1 ELSE 0
  BY DEF OnRowDeselect, SelectieKlopt
<1>4. \A i \in Id : selection'[i] = IF i \in aan \ selected THEN n[i] + 1
                                                           ELSE n[i]
  BY DEF Vinken, Kies, OnRowSelect
<1>5. ASSUME NEW i \in Id
      PROVE  selection'[i] = IF i \in selected' THEN 1 ELSE 0
  <2>. HIDE DEF n
  <2>1. CASE i \in aan \ selected
    BY <1>2, <1>3, <1>4, <2>1
  <2>2. CASE i \in aan \intersect selected
    BY <1>0, <1>2, <1>3, <1>4, <2>2
  <2>3. CASE i \notin aan
    BY <1>2, <1>3, <1>4, <2>3
  <2>. QED  BY <2>1, <2>2, <2>3
<1>. QED  BY <1>2, <1>5 DEF SelectieKlopt

(* The screen follows, and what the user left checked.                      *)
LEMMA VinkenGoed ==
    ASSUME Inv, NEW aan, NEW uit, Vinken(aan, uit)
    PROVE  SelectieKlopt' /\ VinkjesKloppen' /\ Ids' /\ Gevinkt'
<1>0. /\ aan \subseteq getoond /\ uit \subseteq getoond
      /\ getoond' = getoond /\ pagina' = pagina
      /\ gekozen' = (gekozen \ uit) \union aan
      /\ gevinkt' = (gevinkt \ Nummer(uit)) \union Nummer(aan)
  BY DEF Vinken, Kies
<1>1. SelectieKlopt' /\ selected' = (selected \ uit) \union aan
  BY KiesKlopt DEF Inv
<1>2. VinkjesKloppen'
  BY <1>0, <1>1 DEF Inv, VinkjesKloppen
<1>3. Ids'
  BY <1>0, <1>1 DEF Inv, Ids
<1>4. Nummer(gekozen') \subseteq gevinkt'
  <2>1. ASSUME NEW i \in gekozen \ uit PROVE i[1] \in gevinkt \ Nummer(uit)
    <3>1. i \in getoond /\ i[1] \in gevinkt
      BY DEF Inv, VinkjesKloppen, Gevinkt, Nummer
    <3>2. \A j \in uit : j[1] # i[1]
      BY <1>0, <2>1, <3>1 DEF Inv, Ids
    <3>. QED  BY <3>1, <3>2 DEF Nummer
  <2>. QED  BY <1>0, <2>1 DEF Nummer
<1>5. ASSUME pagina' # "nhr" PROVE Nummer(selected') \subseteq gevinkt'
  <2>1. ASSUME NEW i \in selected \ uit PROVE i[1] \in gevinkt \ Nummer(uit)
    <3>1. i[2] = 0 /\ i[1] \in gevinkt
      BY <1>0, <1>5 DEF Inv, Ids, Gevinkt, Nummer
    <3>2. ASSUME NEW j \in uit, j[1] = i[1] PROVE FALSE
      <4>1. j[2] = 0
        BY <1>0, <1>5 DEF Inv, Ids
      <4>2. i \in Id /\ j \in Id
        BY <1>0 DEF Inv, TypeOK
      <4>3. i = j
        BY <3>1, <3>2, <4>1, <4>2 DEF Id
      <4>. QED  BY <2>1, <4>3
    <3>. QED  BY <3>1, <3>2 DEF Nummer
  <2>. QED  BY <1>0, <1>1, <2>1 DEF Nummer
<1>. QED  BY <1>1, <1>2, <1>3, <1>4, <1>5 DEF Gevinkt

(* A load shows other records and checks again what the plugin kept.        *)
LEMMA LaadGoedGoed ==
    ASSUME Inv, NEW s \in Slots, LaadGoed(s)
    PROVE  /\ selected' = selected
           /\ SelectieKlopt' /\ VinkjesKloppen' /\ Ids' /\ Gevinkt'
<1>. DEFINE rs == aanvragen[s].rijen
<1>1. UNCHANGED <<selection, selected, gevinkt, pagina>>
  BY DEF LaadGoed
<1>2. PICK g \in Generaties : /\ IdsVoor(g)
                              /\ getoond' = rs \X {g}
                              /\ OnViewRefresh(rs \X {g})
  BY DEF LaadGoed
<1>3. VinkjesKloppen'
  BY <1>1, <1>2 DEF OnViewRefresh, Inv, VinkjesKloppen
<1>4. SelectieKlopt'
  BY <1>1 DEF Inv, SelectieKlopt
<1>5. Ids'
  <2>1. \A i, j \in getoond' : i[1] = j[1] => i = j
    BY <1>2
  <2>2. ASSUME pagina' # "nhr"
        PROVE  \A i \in getoond' \union selected' : i[2] = 0
    BY <1>1, <1>2, <2>2 DEF IdsVoor, Inv, Ids
  <2>. QED  BY <2>1, <2>2 DEF Ids
<1>6. Nummer(gekozen') \subseteq gevinkt'
  <2>1. CASE pagina # "nhr"
    <3>1. gekozen' \subseteq selected
      BY <1>1, <1>3 DEF VinkjesKloppen
    <3>. QED  BY <1>1, <2>1, <3>1 DEF Inv, Gevinkt, Nummer
  <2>2. CASE pagina = "nhr"
    <3>1. Vers(g)
      BY <1>2, <2>2 DEF IdsVoor
    <3>2. ASSUME NEW i \in getoond', i \in selected PROVE FALSE
      <4>1. i[2] = g /\ i \in Id
        BY <1>2, <3>2 DEF Inv, TypeOK
      <4>2. selection[i] = 0
        BY <3>1, <4>1 DEF Vers
      <4>. QED  BY <3>2, <4>1, <4>2 DEF Inv, SelectieKlopt
    <3>3. gekozen' = {}
      BY <1>1, <1>3, <3>2 DEF VinkjesKloppen
    <3>. QED  BY <3>3 DEF Nummer
  <2>. QED  BY <2>1, <2>2
<1>7. pagina' # "nhr" => Nummer(selected') \subseteq gevinkt'
  BY <1>1 DEF Inv, Gevinkt, Nummer
<1>. QED  BY <1>1, <1>3, <1>4, <1>5, <1>6, <1>7 DEF Gevinkt

LEMMA InvBlijft == Inv /\ [Next]_vars => Inv'
<1>. SUFFICES ASSUME Inv, [Next]_vars PROVE Inv'
  OBVIOUS
<1>1. TypeOK'
  BY TypesBlijven DEF Inv
<1>2. CASE UNCHANGED <<getoond, pagina, selectieVars>>
  BY <1>1, <1>2 DEF selectieVars, Inv, SelectieKlopt, VinkjesKloppen, Ids,
     Gevinkt, Nummer
<1>3. ASSUME NEW aan, NEW uit, Vinken(aan, uit) PROVE Inv'
  BY <1>1, <1>3, VinkenGoed DEF Inv
<1>4. ASSUME NEW s \in Slots, LaadGoed(s) PROVE Inv'
  BY <1>1, <1>4, LaadGoedGoed DEF Inv
<1>. QED  BY <1>2, <1>3, <1>4, Stappen DEF Inv

LEMMA InitInv == Init => Inv
<1>. SUFFICES ASSUME Init PROVE Inv
  OBVIOUS
<1>1. TypeOK
  BY InitTypes
<1>2. SelectieKlopt /\ VinkjesKloppen
  BY DEF Init, SelectieKlopt, VinkjesKloppen
<1>3. Ids /\ Gevinkt
  BY DEF Init, Ids, Gevinkt, Nummer
<1>. QED  BY <1>1, <1>2, <1>3 DEF Inv

(* The inductive invariant of the selection.                                *)
THEOREM Invariant == Spec => []Inv
BY InitInv, InvBlijft, PTL DEF Spec

(* The array and the hash of the plugin agree, whatever is clicked, edited  *)
(* and loaded in whatever order.                                            *)
THEOREM ArrayIsHash == Spec => []SelectieKlopt
<1>1. Inv => SelectieKlopt
  BY DEF Inv
<1>. QED  BY <1>1, Invariant, PTL

(* What is checked on the screen is what the plugin keeps of it.            *)
THEOREM SchermIsSelectie == Spec => []VinkjesKloppen
<1>1. Inv => VinkjesKloppen
  BY DEF Inv
<1>. QED  BY <1>1, Invariant, PTL

(* A kept selection is lost only on the screen, by the user.                *)
THEOREM SelectieOverleeft == Spec => VinkBlijft
<1>1. ASSUME Inv, [Next]_vars
      PROVE  [\A i \in selected \ selected' :
                 i \in getoond /\ getoond' = getoond]_vars
  <2>1. CASE UNCHANGED <<getoond, pagina, selectieVars>>
    BY <2>1 DEF selectieVars
  <2>2. ASSUME NEW aan, NEW uit, Vinken(aan, uit)
        PROVE  \A i \in selected \ selected' :
                  i \in getoond /\ getoond' = getoond
    BY <1>1, <2>2, KiesKlopt DEF Inv, Vinken
  <2>3. ASSUME NEW s \in Slots, LaadGoed(s) PROVE selected' = selected
    BY <1>1, <2>3, LaadGoedGoed
  <2>. QED  BY <1>1, <2>1, <2>2, <2>3, Stappen DEF Inv
<1>. QED  BY <1>1, Invariant, PTL DEF Spec, VinkBlijft

(***************************************************************************)
(* What is sent to the server.                                             *)
(***************************************************************************)
Gestuurd(o) ==
    opdrachten'[o].soort \in {"verwijder", "transformeer", "haalop"}
      => opdrachten'[o].rijen \subseteq opdrachten[o].rijen \union gevinkt

(* One request is given; the others stay.                                   *)
LEMMA GeeftGekozen ==
    ASSUME TypeOK, NEW so, NEW rs, NEW st, NEW w, NEW o \in Orders,
           GeeftOpdracht(so, rs, st, w),
           so \in {"verwijder", "transformeer", "haalop"} => rs \subseteq gevinkt
    PROVE  Gestuurd(o)
<1>1. PICK q \in Orders : opdrachten' = [opdrachten EXCEPT ![q] =
             [soort |-> so, rijen |-> rs, status |-> st,
              fase |-> "onderweg", wacht |-> w]]
  BY DEF GeeftOpdracht
<1>2. CASE o = q
  BY <1>1, <1>2 DEF Gestuurd, TypeOK
<1>3. CASE o # q
  BY <1>1, <1>3 DEF Gestuurd, TypeOK
<1>. QED  BY <1>2, <1>3

LEMMA OpdrachtenGestuurd ==
    ASSUME Inv, NEW o \in Orders,
           \/ \E w \in SUBSET Nummers, st \in {"open", "klaar"} : Bewaar(w, st)
           \/ Verwijder \/ TransformeerBerichten \/ TransformeerLaadprocessen
           \/ TransformeerAlles \/ HaalOp
           \/ \E q \in Orders : \/ ServerVerwerkt(q) \/ ServerMislukt(q)
                                \/ OpdrachtAntwoord(q) \/ OpdrachtVerlopen(q)
    PROVE  Gestuurd(o)
<1>. TypeOK /\ opdrachten[o] \in Opdracht
  BY DEF Inv, TypeOK
<1>1. ASSUME NEW w \in SUBSET Nummers, NEW st \in {"open", "klaar"},
             Bewaar(w, st)
      PROVE  Gestuurd(o)
  BY <1>1, GeeftGekozen DEF Bewaar
<1>2. CASE Verwijder
  <2>1. GetPersistedSelection \subseteq selected
    BY DEF GetPersistedSelection, Inv, SelectieKlopt
  <2>2. Nummer(GetPersistedSelection) \subseteq gevinkt
    BY <1>2, <2>1 DEF Verwijder, Inv, Gevinkt, Nummer
  <2>. QED  BY <1>2, <2>2, GeeftGekozen DEF Verwijder
<1>3. CASE Transformeert
  BY <1>3, GeeftGekozen DEF Transformeert, Inv, Gevinkt
<1>4. CASE TransformeerAlles
  BY <1>4, GeeftGekozen DEF TransformeerAlles
<1>5. CASE HaalOp
  BY <1>5, GeeftGekozen DEF HaalOp, Inv, Gevinkt
<1>6. ASSUME NEW q \in Orders, ServerVerwerkt(q) PROVE Gestuurd(o)
  <2>1. CASE opdrachten' = [opdrachten EXCEPT ![q] = [@ EXCEPT !.fase = "goed"]]
    BY <2>1 DEF Gestuurd, Opdracht, TypeOK
  <2>2. ASSUME NEW r, opdrachten' = [opdrachten EXCEPT ![q] = Gedaan(q, r)]
        PROVE  Gestuurd(o)
    <3>1. Gedaan(q, r).rijen \subseteq opdrachten[q].rijen
      BY DEF Gedaan, Opdracht, TypeOK
    <3>. QED  BY <2>2, <3>1 DEF Gestuurd, TypeOK
  <2>. QED  BY <1>6, <2>1, <2>2 DEF ServerVerwerkt
<1>7. ASSUME NEW q \in Orders, ServerMislukt(q) PROVE Gestuurd(o)
  BY <1>7 DEF ServerMislukt, Gestuurd, Opdracht, TypeOK
<1>8. ASSUME NEW q \in Orders, OpdrachtAntwoord(q) PROVE Gestuurd(o)
  BY <1>8 DEF OpdrachtAntwoord, GeenOpdracht, Gestuurd, Opdracht, TypeOK
<1>9. ASSUME NEW q \in Orders, OpdrachtVerlopen(q) PROVE Gestuurd(o)
  BY <1>9 DEF OpdrachtVerlopen, Gestuurd, Opdracht, TypeOK
<1>. QED  BY <1>1, <1>2, <1>3, <1>4, <1>5, <1>6, <1>7, <1>8, <1>9
          DEF TransformeerBerichten, TransformeerLaadprocessen

(* All other steps leave the requests alone.                                *)
LEMMA OpdrachtenBlijven ==
    ASSUME [Next]_vars
    PROVE  \/ UNCHANGED opdrachten
           \/ \E w \in SUBSET Nummers, st \in {"open", "klaar"} : Bewaar(w, st)
           \/ Verwijder \/ TransformeerBerichten \/ TransformeerLaadprocessen
           \/ TransformeerAlles \/ HaalOp
           \/ \E q \in Orders : \/ ServerVerwerkt(q) \/ ServerMislukt(q)
                                \/ OpdrachtAntwoord(q) \/ OpdrachtVerlopen(q)
<1>. DEFINE Blijft == UNCHANGED opdrachten
<1>1. ASSUME NEW s \in Slots, \/ ServerTelt(s) \/ ServerLeest(s) \/ LaadGoed(s)
                              \/ \E n \in {0, totalCount} : LaadFout(s, n)
      PROVE  Blijft
  BY <1>1 DEF ServerTelt, ServerLeest, LaadGoed, LaadFout
<1>2. CASE \/ TimerAf \/ Annuleer \/ Herlaad \/ Sorteer \/ KiesFilter
           \/ \E p \in {1} \union 1..PageCount(totalCount) : NaarPagina(p)
  BY <1>2 DEF TimerAf, Annuleer, Herlaad, Sorteer, KiesFilter, NaarPagina,
     NaLaden
<1>3. ASSUME NEW i \in getoond, \/ KlikRij(i) \/ KlikStatus(i)
                                \/ ToetsStatus(i) \/ OpenLog(i)
      PROVE  Blijft
  BY <1>3 DEF KlikRij, KlikStatus, ToetsStatus, OpenLog, BegintBewerken, NaVink
<1>4. CASE KlikKop \/ KlikNaast
  BY <1>4 DEF KlikKop, KlikNaast, NaVink
<1>5. CASE \/ SluitMelding
           \/ \E r \in logVragen : LogAntwoord(r) \/ LogMislukt(r)
           \/ \E r \in Nummers, st \in Status : AndereWijziging(r, st)
           \/ \E n \in Schattingen : NieuweSchatting(n)
  BY <1>5 DEF SluitMelding, LogAntwoord, LogMislukt, NaLog, AndereWijziging,
     NieuweSchatting, Anderen
<1>6. CASE UNCHANGED vars
  BY <1>6 DEF vars
<1>. QED  BY <1>1, <1>2, <1>3, <1>4, <1>5, <1>6 DEF Next

(* The server is never asked to delete, transform or fetch a row that the   *)
(* user did not leave checked.                                              *)
THEOREM AlleenGekozenRijen == Spec => AlleenGekozen
<1>1. ASSUME Inv, [Next]_vars, NEW o \in Orders PROVE Gestuurd(o)
  <2>1. CASE UNCHANGED opdrachten
    BY <2>1 DEF Gestuurd
  <2>. QED  BY <1>1, <2>1, OpdrachtenGestuurd, OpdrachtenBlijven
<1>2. Inv /\ [Next]_vars => [\A o \in Orders : Gestuurd(o)]_vars
  BY <1>1
<1>3. Spec => [][\A o \in Orders : Gestuurd(o)]_vars
  BY <1>2, Invariant, PTL DEF Spec
<1>. QED  BY <1>3 DEF AlleenGekozen, Gestuurd

(***************************************************************************)
(* The refresh timer.                                                      *)
(***************************************************************************)
(* The timer changes in few steps.                                          *)
LEMMA TimerStappen ==
    ASSUME [Next]_vars
    PROVE  \/ UNCHANGED timer
           \/ \E s \in Slots : LaadGoed(s)
           \/ TimerAf
           \/ \E i \in getoond : BegintBewerken(i)
<1>. DEFINE Blijft == UNCHANGED timer
<1>1. ASSUME NEW s \in Slots, \/ ServerTelt(s) \/ ServerLeest(s)
                              \/ \E n \in {0, totalCount} : LaadFout(s, n)
      PROVE  Blijft
  BY <1>1 DEF ServerTelt, ServerLeest, LaadFout
<1>2. CASE \/ Annuleer \/ Herlaad \/ Sorteer \/ KiesFilter
           \/ \E p \in {1} \union 1..PageCount(totalCount) : NaarPagina(p)
  BY <1>2 DEF Annuleer, Herlaad, Sorteer, KiesFilter, NaarPagina, NaLaden
<1>3. ASSUME NEW i \in getoond, KlikRij(i) \/ OpenLog(i) PROVE Blijft
  BY <1>3 DEF KlikRij, OpenLog, NaVink
<1>4. ASSUME NEW i \in getoond, KlikStatus(i) \/ ToetsStatus(i)
      PROVE  BegintBewerken(i)
  BY <1>4 DEF KlikStatus, ToetsStatus
<1>5. CASE KlikKop \/ KlikNaast
  BY <1>5 DEF KlikKop, KlikNaast, NaVink
<1>6. CASE \/ \E w \in SUBSET Nummers, st \in {"open", "klaar"} : Bewaar(w, st)
           \/ Verwijder \/ TransformeerBerichten \/ TransformeerLaadprocessen
           \/ TransformeerAlles \/ HaalOp
  BY <1>6 DEF Bewaar, Verwijder, TransformeerBerichten,
     TransformeerLaadprocessen, Transformeert, TransformeerAlles, HaalOp,
     NaKnop, gridVars
<1>7. ASSUME NEW o \in Orders, \/ ServerVerwerkt(o) \/ ServerMislukt(o)
                               \/ OpdrachtAntwoord(o) \/ OpdrachtVerlopen(o)
      PROVE  Blijft
  BY <1>7 DEF ServerVerwerkt, ServerMislukt, OpdrachtAntwoord,
     OpdrachtVerlopen, NaAfloop, gridVars
<1>8. CASE \/ SluitMelding
           \/ \E r \in logVragen : LogAntwoord(r) \/ LogMislukt(r)
           \/ \E r \in Nummers, st \in Status : AndereWijziging(r, st)
           \/ \E n \in Schattingen : NieuweSchatting(n)
  BY <1>8 DEF SluitMelding, LogAntwoord, LogMislukt, NaLog, AndereWijziging,
     NieuweSchatting, Anderen, gridVars
<1>9. CASE UNCHANGED vars
  BY <1>9 DEF vars, gridVars
<1>. QED  BY <1>1, <1>2, <1>3, <1>4, <1>5, <1>6, <1>7, <1>8, <1>9 DEF Next

(* Whatever starts loads and however their answers overtake, one timeout at *)
(* most is pending: refreshing happens once after each load.                *)
THEOREM HooguitEenTimer == Spec => []EenTimer
<1>1. Init => EenTimer
  BY DEF Init, EenTimer
<1>2. TypeOK /\ EenTimer /\ [Next]_vars => EenTimer'
  <2>. SUFFICES ASSUME TypeOK, EenTimer, [Next]_vars PROVE EenTimer'
    OBVIOUS
  <2>0. timer \in {0, 1}
    BY DEF TypeOK, EenTimer
  <2>1. ASSUME NEW s \in Slots, LaadGoed(s) PROVE EenTimer'
    BY <2>0, <2>1 DEF LaadGoed, Gewist, EenTimer
  <2>2. CASE TimerAf
    BY <2>0, <2>2 DEF TimerAf, EenTimer
  <2>3. ASSUME NEW i \in getoond, BegintBewerken(i) PROVE EenTimer'
    BY <2>0, <2>3 DEF BegintBewerken, Gewist, EenTimer
  <2>4. CASE UNCHANGED timer
    BY <2>4 DEF EenTimer
  <2>. QED  BY <2>1, <2>2, <2>3, <2>4, TimerStappen
<1>. QED  BY <1>1, <1>2, Types, PTL DEF Spec

(***************************************************************************)
(* The refreshing does not stop in silence.                                *)
(***************************************************************************)
Bewaart == \E o \in Orders : opdrachten[o].wacht /\ opdrachten[o].soort = "bewaar"

LEMMA LoadPageLaadt ==
    ASSUME TypeOK, NEW p, LoadPage(p)
    PROVE  Laadt'
<1>1. VrijSlot \in Slots
  BY DEF LoadPage, Ruimte, VrijSlot
<1>2. NuVraag(p).fase = "verstuurd"
  BY DEF NuVraag, Vraag, Vrij
<1>3. aanvragen'[VrijSlot] = NuVraag(p)
  BY <1>1 DEF LoadPage, TypeOK
<1>. QED  BY <1>1, <1>2, <1>3 DEF Laadt

(* A request is never taken for another while its answer is waited for.     *)
LEMMA BewaartBlijft ==
    ASSUME TypeOK, Bewaart, NEW so, NEW rs, NEW st, NEW w,
           GeeftOpdracht(so, rs, st, w)
    PROVE  Bewaart'
<1>1. PICK q \in Orders :
        /\ ~opdrachten[q].wacht
        /\ opdrachten' = [opdrachten EXCEPT ![q] =
             [soort |-> so, rijen |-> rs, status |-> st,
              fase |-> "onderweg", wacht |-> w]]
  BY DEF GeeftOpdracht
<1>2. PICK o \in Orders : opdrachten[o].wacht /\ opdrachten[o].soort = "bewaar"
  BY DEF Bewaart
<1>3. opdrachten'[o] = opdrachten[o]
  BY <1>1, <1>2 DEF TypeOK
<1>. QED  BY <1>2, <1>3 DEF Bewaart

(* Steps that leave all five reasons as they are.                           *)
LEMMA StilBlijft ==
    ASSUME NietStil, UNCHANGED <<aanvragen, timer, editor, opdrachten>>,
           melding'.soort = melding.soort
    PROVE  NietStil'
BY DEF NietStil, Laadt

LEMMA AfloopNietStil ==
    ASSUME TypeOK, NEW so, NEW goed \in BOOLEAN, Afloop(so, goed)
    PROVE  Laadt' \/ melding'.soort \in {"gestopt", "error"}
<1>1. CASE so = "verwijder" /\ ~goed
  BY <1>1 DEF Afloop, SetMessage
<1>2. CASE ~(so = "verwijder" /\ ~goed)
  BY <1>2, LoadPageLaadt DEF Afloop, ReloadGrid
<1>. QED  BY <1>1, <1>2

LEMMA OpdrachtNietStil ==
    ASSUME TypeOK, NietStil,
           \/ \E w \in SUBSET Nummers, st \in {"open", "klaar"} : Bewaar(w, st)
           \/ Verwijder \/ TransformeerBerichten \/ TransformeerLaadprocessen
           \/ TransformeerAlles \/ HaalOp
           \/ \E o \in Orders : \/ ServerVerwerkt(o) \/ ServerMislukt(o)
                                \/ OpdrachtAntwoord(o) \/ OpdrachtVerlopen(o)
    PROVE  NietStil'
<1>. USE DEF gridVars, NaKlik, NaKnop
<1>1. ASSUME NEW w \in SUBSET Nummers, NEW st \in {"open", "klaar"},
             Bewaar(w, st)
      PROVE  NietStil'
  <2>1. PICK q \in Orders : opdrachten' = [opdrachten EXCEPT ![q] =
               [soort |-> "bewaar", rijen |-> w, status |-> st,
                fase |-> "onderweg", wacht |-> TRUE]]
    BY <1>1 DEF Bewaar, GeeftOpdracht
  <2>2. opdrachten'[q].wacht /\ opdrachten'[q].soort = "bewaar"
    BY <2>1 DEF TypeOK
  <2>. QED  BY <2>2 DEF NietStil
<1>2. ASSUME NEW so, NEW rs, NEW st, NEW w, GeeftOpdracht(so, rs, st, w),
             UNCHANGED <<aanvragen, timer, editor, melding>>
      PROVE  NietStil'
  <2>1. Bewaart => Bewaart'
    BY <1>2, BewaartBlijft
  <2>. QED  BY <1>2, <2>1 DEF NietStil, Laadt, Bewaart
<1>3. CASE Verwijder
  BY <1>2, <1>3 DEF Verwijder
<1>4. CASE Transformeert
  BY <1>2, <1>4 DEF Transformeert
<1>5. CASE TransformeerAlles
  BY <1>2, <1>5 DEF TransformeerAlles
<1>6. CASE HaalOp
  BY <1>2, <1>6 DEF HaalOp
<1>7. ASSUME NEW o \in Orders, ServerVerwerkt(o) \/ ServerMislukt(o)
      PROVE  NietStil'
  <2>1. PICK v : /\ opdrachten' = [opdrachten EXCEPT ![o] = v]
                 /\ v.wacht = opdrachten[o].wacht
                 /\ v.soort = opdrachten[o].soort
    <3>0. opdrachten[o] \in Opdracht
      BY DEF TypeOK
    <3>1. ASSUME NEW f \in {"goed", "fout"}
          PROVE  LET v == [opdrachten[o] EXCEPT !.fase = f]
                 IN v.wacht = opdrachten[o].wacht /\ v.soort = opdrachten[o].soort
      BY <3>0 DEF Opdracht
    <3>2. ASSUME NEW r
          PROVE  /\ Gedaan(o, r).wacht = opdrachten[o].wacht
                 /\ Gedaan(o, r).soort = opdrachten[o].soort
      BY <3>0 DEF Gedaan, Opdracht
    <3>. QED  BY <1>7, <3>1, <3>2 DEF ServerVerwerkt, ServerMislukt
  <2>2. \A q \in Orders : /\ opdrachten'[q].wacht = opdrachten[q].wacht
                          /\ opdrachten'[q].soort = opdrachten[q].soort
    BY <2>1 DEF TypeOK
  <2>3. UNCHANGED <<aanvragen, timer, editor, melding>>
    BY <1>7 DEF ServerVerwerkt, ServerMislukt
  <2>. QED  BY <2>2, <2>3 DEF NietStil, Laadt
<1>8. ASSUME NEW o \in Orders, OpdrachtAntwoord(o) PROVE NietStil'
  <2>1. Laadt' \/ melding'.soort \in {"gestopt", "error"}
    BY <1>8, AfloopNietStil DEF OpdrachtAntwoord
  <2>. QED  BY <2>1 DEF NietStil
<1>9. ASSUME NEW o \in Orders, OpdrachtVerlopen(o) PROVE NietStil'
  <2>1. Laadt' \/ melding'.soort \in {"gestopt", "error"}
    BY <1>9, AfloopNietStil DEF OpdrachtVerlopen
  <2>. QED  BY <2>1 DEF NietStil
<1>. QED  BY <1>1, <1>3, <1>4, <1>5, <1>6, <1>7, <1>8, <1>9
          DEF TransformeerBerichten, TransformeerLaadprocessen

LEMMA LadenNietStil ==
    ASSUME TypeOK, NietStil, NEW s \in Slots,
           \/ ServerTelt(s) \/ ServerLeest(s) \/ LaadGoed(s)
           \/ \E n \in {0, totalCount} : LaadFout(s, n)
    PROVE  NietStil'
<1>0. aanvragen[s] \in Aanvraag
  BY DEF TypeOK
<1>1. CASE ServerTelt(s)
  <2>1. Geteld(aanvragen[s]).fase # "vrij"
    BY <1>0 DEF Geteld, Aanvraag
  <2>. QED  BY <1>1, <2>1 DEF ServerTelt, NietStil, Laadt, TypeOK
<1>2. CASE ServerLeest(s)
  <2>1. Gelezen(aanvragen[s]).fase # "vrij"
    BY <1>0 DEF Gelezen, Aanvraag
  <2>. QED  BY <1>2, <2>1 DEF ServerLeest, NietStil, Laadt, TypeOK
<1>3. CASE LaadGoed(s)
  BY <1>3 DEF LaadGoed, Gewist, NietStil, TypeOK
<1>4. ASSUME NEW n \in {0, totalCount}, LaadFout(s, n) PROVE NietStil'
  BY <1>4 DEF LaadFout, SetMessage, NietStil
<1>. QED  BY <1>1, <1>2, <1>3, <1>4

LEMMA NavigatieNietStil ==
    ASSUME TypeOK, NietStil,
           \/ TimerAf \/ Annuleer \/ Herlaad \/ Sorteer \/ KiesFilter
           \/ \E p \in {1} \union 1..PageCount(totalCount) : NaarPagina(p)
    PROVE  NietStil'
<1>1. CASE Sorteer \/ KiesFilter
  <2>1. VrijSlot \in Slots
    BY <1>1 DEF Sorteer, KiesFilter, Ruimte, VrijSlot
  <2>2. \A p, f, d : Vraag(p, f, d).fase = "verstuurd"
    BY DEF Vraag, Vrij
  <2>. QED  BY <1>1, <2>1, <2>2 DEF Sorteer, KiesFilter, NietStil, Laadt, TypeOK
<1>2. CASE TimerAf \/ Annuleer \/ Herlaad
  BY <1>2, LoadPageLaadt DEF TimerAf, Annuleer, Herlaad, ReloadGrid, NietStil
<1>3. ASSUME NEW p \in {1} \union 1..PageCount(totalCount), NaarPagina(p)
      PROVE  NietStil'
  BY <1>3, LoadPageLaadt DEF NaarPagina, NietStil
<1>. QED  BY <1>1, <1>2, <1>3

LEMMA RijenNietStil ==
    ASSUME TypeOK, NietStil,
           \/ \E i \in getoond : \/ KlikRij(i) \/ KlikStatus(i)
                                 \/ ToetsStatus(i) \/ OpenLog(i)
           \/ KlikKop \/ KlikNaast
    PROVE  NietStil'
<1>1. ASSUME NEW i \in getoond, KlikRij(i) \/ OpenLog(i) PROVE NietStil'
  BY <1>1, StilBlijft DEF KlikRij, OpenLog, NaVink, NaKlik
<1>2. ASSUME NEW i \in getoond, BegintBewerken(i) PROVE NietStil'
  <2>1. i \in Id /\ editor' = i
    BY <1>2 DEF BegintBewerken, TypeOK
  <2>2. i # Geen
    BY <2>1, GridAannames
  <2>. QED  BY <2>1, <2>2 DEF NietStil
<1>3. CASE KlikKop \/ KlikNaast
  BY <1>3, StilBlijft DEF KlikKop, KlikNaast, NaVink, NaKlik
<1>. QED  BY <1>1, <1>2, <1>3 DEF KlikStatus, ToetsStatus

LEMMA OverigeNietStil ==
    ASSUME TypeOK, NietStil,
           \/ SluitMelding
           \/ \E r \in logVragen : LogAntwoord(r) \/ LogMislukt(r)
           \/ \E r \in Nummers, st \in Status : AndereWijziging(r, st)
           \/ \E n \in Schattingen : NieuweSchatting(n)
    PROVE  NietStil'
<1>1. CASE SluitMelding
  <2>1. melding'.soort = melding.soort
    BY <1>1 DEF SluitMelding, TypeOK
  <2>. QED  BY <1>1, <2>1, StilBlijft DEF SluitMelding, gridVars
<1>2. CASE \E r \in logVragen : LogAntwoord(r) \/ LogMislukt(r)
  BY <1>2, StilBlijft DEF LogAntwoord, LogMislukt, NaLog, gridVars
<1>3. CASE \/ \E r \in Nummers, st \in Status : AndereWijziging(r, st)
           \/ \E n \in Schattingen : NieuweSchatting(n)
  BY <1>3, StilBlijft DEF AndereWijziging, NieuweSchatting, Anderen, gridVars
<1>. QED  BY <1>1, <1>2, <1>3

(* Whatever fails, is cancelled or does not come: as long as no message says *)
(* so, a load, a timeout, an edit or a save keeps the refreshing going.     *)
THEOREM NooitStil == Spec => []NietStil
<1>1. Init => NietStil
  <2>. SUFFICES ASSUME Init PROVE NietStil
    OBVIOUS
  <2>1. PICK s \in Slots : aanvragen = [t \in Slots |->
                             IF t = s THEN Vraag(1, FALSE, FALSE) ELSE Vrij]
    BY DEF Init
  <2>2. Vraag(1, FALSE, FALSE).fase = "verstuurd"
    BY DEF Vraag, Vrij
  <2>3. aanvragen[s].fase = "verstuurd"
    BY <2>1, <2>2
  <2>. QED  BY <2>3 DEF NietStil, Laadt
<1>2. TypeOK /\ NietStil /\ [Next]_vars => NietStil'
  <2>. SUFFICES ASSUME TypeOK, NietStil, [Next]_vars PROVE NietStil'
    OBVIOUS
  <2>1. CASE UNCHANGED vars
    BY <2>1, StilBlijft DEF vars, gridVars
  <2>2. CASE Next
    BY <2>2, LadenNietStil, NavigatieNietStil, RijenNietStil,
       OpdrachtNietStil, OverigeNietStil DEF Next
  <2>. QED  BY <2>1, <2>2
<1>. QED  BY <1>1, <1>2, Types, PTL DEF Spec

(***************************************************************************)
(* The number of the page and the total.                                   *)
(***************************************************************************)
LEMMA VolgtOpLaadt ==
    ASSUME TypeOK, NEW s \in Slots, NEW D, VolgtOp(s, D)
    PROVE  Laadt' \/ (D = {} /\ currentPage' = currentPage)
<1>1. CASE D = {}
  BY <1>1 DEF VolgtOp
<1>2. CASE D # {}
  <2>1. PICK p \in D : aanvragen' = [aanvragen EXCEPT ![s] = NuVraag(p)]
    BY <1>2 DEF VolgtOp
  <2>2. NuVraag(p).fase = "verstuurd"
    BY DEF NuVraag, Vraag, Vrij
  <2>. QED  BY <2>1, <2>2 DEF Laadt, TypeOK
<1>. QED  BY <1>1, <1>2

(* Steps that leave the number, the total, the rows and the loads.          *)
LEMMA PaginaBlijft ==
    ASSUME PaginaBestaat,
           UNCHANGED <<aanvragen, getoond, currentPage, totalCount>>
    PROVE  PaginaBestaat'
BY DEF PaginaBestaat, Laadt, PageCount

LEMMA LadenPagina ==
    ASSUME TypeOK, NEW s \in Slots,
           \/ ServerTelt(s) \/ ServerLeest(s) \/ LaadGoed(s)
           \/ \E n \in {0, totalCount} : LaadFout(s, n)
    PROVE  PaginaBestaat'
<1>0. aanvragen[s] \in Aanvraag
  BY DEF TypeOK
<1>1. CASE ServerTelt(s)
  <2>1. Geteld(aanvragen[s]).fase # "vrij"
    BY <1>0 DEF Geteld, Aanvraag
  <2>. QED  BY <1>1, <2>1 DEF ServerTelt, PaginaBestaat, Laadt, TypeOK
<1>2. CASE ServerLeest(s)
  <2>1. Gelezen(aanvragen[s]).fase # "vrij"
    BY <1>0 DEF Gelezen, Aanvraag
  <2>. QED  BY <1>2, <2>1 DEF ServerLeest, PaginaBestaat, Laadt, TypeOK
<1>3. CASE LaadGoed(s)
  <2>. DEFINE rijen == aanvragen[s].rijen
              totaal == IF maxResults # -1 THEN maxResults
                                           ELSE aanvragen[s].totaal
  <2>1. /\ totalCount' = totaal
        /\ VolgtOp(s, TerugDoel(totaal, rijen) \union PagerDoel(totaal, rijen))
    BY <1>3 DEF LaadGoed
  <2>2. getoond' # {} => rijen # {}
    BY <1>3 DEF LaadGoed
  <2>3. totaal \in Int /\ PageCount(totaal) \in Int /\ currentPage \in Int
    BY <1>0, PageCountType DEF Aanvraag, TypeOK
  <2>4. CASE Laadt'
    BY <2>4 DEF PaginaBestaat
  <2>5. CASE ~Laadt'
    <3>1. PagerDoel(totaal, rijen) = {} /\ currentPage' = currentPage
      BY <2>1, <2>5, VolgtOpLaadt
    <3>2. getoond' # {} => currentPage <= PageCount(totaal)
      BY <2>2, <2>3, <3>1 DEF PagerDoel
    <3>3. PageCount(totalCount)' = PageCount(totaal)
      BY <2>1 DEF PageCount
    <3>. QED  BY <3>1, <3>2, <3>3 DEF PaginaBestaat
  <2>. QED  BY <2>4, <2>5
<1>4. ASSUME NEW n \in {0, totalCount}, LaadFout(s, n) PROVE PaginaBestaat'
  <2>1. totalCount' = n /\ getoond' = getoond /\ VolgtOp(s, PagerDoel(n, getoond))
    BY <1>4 DEF LaadFout
  <2>2. n \in Int /\ PageCount(n) \in Int /\ currentPage \in Int
    BY PageCountType DEF TypeOK
  <2>3. CASE Laadt'
    BY <2>3 DEF PaginaBestaat
  <2>4. CASE ~Laadt'
    <3>1. PagerDoel(n, getoond) = {} /\ currentPage' = currentPage
      BY <2>1, <2>4, VolgtOpLaadt
    <3>2. getoond # {} => currentPage <= PageCount(n)
      BY <2>2, <3>1 DEF PagerDoel
    <3>3. PageCount(totalCount)' = PageCount(n)
      BY <2>1 DEF PageCount
    <3>. QED  BY <2>1, <3>1, <3>2, <3>3 DEF PaginaBestaat
  <2>. QED  BY <2>3, <2>4
<1>. QED  BY <1>1, <1>2, <1>3, <1>4

LEMMA NavigatiePagina ==
    ASSUME TypeOK,
           \/ TimerAf \/ Annuleer \/ Herlaad \/ Sorteer \/ KiesFilter
           \/ \E p \in {1} \union 1..PageCount(totalCount) : NaarPagina(p)
    PROVE  PaginaBestaat'
<1>1. CASE Sorteer \/ KiesFilter
  <2>1. VrijSlot \in Slots
    BY <1>1 DEF Sorteer, KiesFilter, Ruimte, VrijSlot
  <2>2. \A p, f, d : Vraag(p, f, d).fase = "verstuurd"
    BY DEF Vraag, Vrij
  <2>. QED  BY <1>1, <2>1, <2>2
            DEF Sorteer, KiesFilter, PaginaBestaat, Laadt, TypeOK
<1>2. CASE TimerAf \/ Annuleer \/ Herlaad
  BY <1>2, LoadPageLaadt DEF TimerAf, Annuleer, Herlaad, ReloadGrid,
     PaginaBestaat
<1>3. ASSUME NEW p \in {1} \union 1..PageCount(totalCount), NaarPagina(p)
      PROVE  PaginaBestaat'
  BY <1>3, LoadPageLaadt DEF NaarPagina, PaginaBestaat
<1>. QED  BY <1>1, <1>2, <1>3

LEMMA AfloopPagina ==
    ASSUME TypeOK, PaginaBestaat, NEW so, NEW goed \in BOOLEAN,
           Afloop(so, goed), UNCHANGED <<getoond, totalCount>>
    PROVE  PaginaBestaat'
<1>1. CASE so = "verwijder" /\ ~goed
  BY <1>1, PaginaBlijft DEF Afloop
<1>2. CASE ~(so = "verwijder" /\ ~goed)
  BY <1>2, LoadPageLaadt DEF Afloop, ReloadGrid, PaginaBestaat
<1>. QED  BY <1>1, <1>2

LEMMA OverigePagina ==
    ASSUME TypeOK, PaginaBestaat,
           \/ \E i \in getoond : \/ KlikRij(i) \/ KlikStatus(i)
                                 \/ ToetsStatus(i) \/ OpenLog(i)
           \/ KlikKop \/ KlikNaast
           \/ \E w \in SUBSET Nummers, st \in {"open", "klaar"} : Bewaar(w, st)
           \/ Verwijder \/ TransformeerBerichten \/ TransformeerLaadprocessen
           \/ TransformeerAlles \/ HaalOp
           \/ \E o \in Orders : \/ ServerVerwerkt(o) \/ ServerMislukt(o)
                                \/ OpdrachtAntwoord(o) \/ OpdrachtVerlopen(o)
           \/ SluitMelding
           \/ \E r \in logVragen : LogAntwoord(r) \/ LogMislukt(r)
           \/ \E r \in Nummers, st \in Status : AndereWijziging(r, st)
           \/ \E n \in Schattingen : NieuweSchatting(n)
    PROVE  PaginaBestaat'
<1>. USE DEF gridVars, storeVars, pagerVars, vraagVars
<1>1. ASSUME NEW i \in getoond, \/ KlikRij(i) \/ KlikStatus(i)
                                \/ ToetsStatus(i) \/ OpenLog(i)
      PROVE  PaginaBestaat'
  BY <1>1, PaginaBlijft DEF KlikRij, KlikStatus, ToetsStatus, OpenLog,
     BegintBewerken, NaVink
<1>2. CASE KlikKop \/ KlikNaast
  BY <1>2, PaginaBlijft DEF KlikKop, KlikNaast, NaVink
<1>3. CASE \/ \E w \in SUBSET Nummers, st \in {"open", "klaar"} : Bewaar(w, st)
           \/ Verwijder \/ TransformeerBerichten \/ TransformeerLaadprocessen
           \/ TransformeerAlles \/ HaalOp
  BY <1>3, PaginaBlijft DEF Bewaar, Verwijder, TransformeerBerichten,
     TransformeerLaadprocessen, Transformeert, TransformeerAlles, HaalOp, NaKnop
<1>4. ASSUME NEW o \in Orders, ServerVerwerkt(o) \/ ServerMislukt(o)
      PROVE  PaginaBestaat'
  BY <1>4, PaginaBlijft DEF ServerVerwerkt, ServerMislukt
<1>5. ASSUME NEW o \in Orders, OpdrachtAntwoord(o) \/ OpdrachtVerlopen(o)
      PROVE  PaginaBestaat'
  BY <1>5, AfloopPagina DEF OpdrachtAntwoord, OpdrachtVerlopen, NaAfloop
<1>6. CASE \/ SluitMelding
           \/ \E r \in logVragen : LogAntwoord(r) \/ LogMislukt(r)
           \/ \E r \in Nummers, st \in Status : AndereWijziging(r, st)
           \/ \E n \in Schattingen : NieuweSchatting(n)
  BY <1>6, PaginaBlijft DEF SluitMelding, LogAntwoord, LogMislukt, NaLog,
     AndereWijziging, NieuweSchatting, Anderen
<1>. QED  BY <1>1, <1>2, <1>3, <1>4, <1>5, <1>6

(* Whatever totals are answered, whichever answer comes first and whichever *)
(* load fails: rows do not stay under the number of a page beyond the last. *)
THEOREM BestaandePagina == Spec => []PaginaBestaat
<1>1. Init => PaginaBestaat
  BY DEF Init, PaginaBestaat
<1>2. TypeOK /\ PaginaBestaat /\ [Next]_vars => PaginaBestaat'
  <2>. SUFFICES ASSUME TypeOK, PaginaBestaat, [Next]_vars PROVE PaginaBestaat'
    OBVIOUS
  <2>1. CASE UNCHANGED vars
    BY <2>1, PaginaBlijft DEF vars, gridVars, storeVars, pagerVars, vraagVars
  <2>2. CASE Next
    BY <2>2, LadenPagina, NavigatiePagina, OverigePagina DEF Next
  <2>. QED  BY <2>1, <2>2
<1>. QED  BY <1>1, <1>2, Types, PTL DEF Spec
=============================================================================
