---------------------------- MODULE GridSelectie ----------------------------
(***************************************************************************)
(* The grid with checkboxes on the pages berichten, laadprocessen and nhr  *)
(* (B3P.common.GridSelection with the plugin PagingSelectionPersistence):  *)
(* what the browser shows, what is checked, and how both follow a table on *)
(* the server that others change.                                          *)
(*                                                                         *)
(* The browser runs one callback at a time, so every callback is one       *)
(* action. Between two callbacks anything may happen: the user clicks,     *)
(* another answer arrives, the refresh timer fires. Loads are never        *)
(* aborted and are applied in the order in which their answers arrive. The *)
(* server answers a load in two statements, a count and a page of rows.    *)
(***************************************************************************)
EXTENDS Integers, FiniteSets

CONSTANTS Nummers,      \* the rows the table may have, in the order of the grid
          PageSize,     \* rows of one page
          Paginas,      \* the pages of the application to look at
          Generaties,   \* what tells apart the ids Ext generates; has 0
          Geen,         \* no record
          Slots,        \* bound: loads in flight
          Orders,       \* bound: other requests in flight
          Schattingen,  \* totals the count may give: Exact or an estimate
          Exact,        \* the database counts
          Tabellen,     \* the tables to begin with
          MaxKlikken,   \* bound: actions of the user
          MaxWijzigingen, \* bound: changes of the table by others
          MaxFouten     \* bound: requests that fail

Id == Nummers \X Generaties    \* what identifies a record in the browser

ASSUME GridAannames ==
    /\ IsFiniteSet(Nummers) /\ Nummers \subseteq Int
    /\ PageSize \in Nat \ {0}
    /\ Paginas \subseteq {"berichten", "laadprocessen", "nhr"}
    /\ 0 \in Generaties /\ Generaties \subseteq Nat
    /\ Geen \notin Id
    /\ Exact \notin Nat /\ Schattingen \subseteq Nat \union {Exact}
    /\ Tabellen \subseteq [Nummers -> {"weg", "open", "klaar"}]
    /\ MaxKlikken \in Nat /\ MaxWijzigingen \in Nat /\ MaxFouten \in Nat

VARIABLES
    (***************************** the server ******************************)
    db,           \* the table: per row "weg", "open" or "klaar"
    schatting,    \* the total the database reports without a filter, or Exact
    (***************************** the browser *****************************)
    pagina,       \* which page of the application it is
    getoond,      \* ids of the records in the store, on the screen
    gekozen,      \* the checkboxes that are on
    selection,    \* plugin: how often an id occurs in the array selection
    selected,     \* plugin: the ids that are true in the hash selected
    currentPage, totalCount, filter, aflopend, \* of the store
    maxResults, movingBack,          \* of the load handler
    pager,        \* the buttons of the paging toolbar are enabled
    aanvragen,    \* loads in flight
    timer,        \* timeouts pending that will reload
    editor,       \* the record whose status is being edited, or Geen
    opdrachten,   \* other requests in flight
    melding,      \* message box: visible, and the kind of the last message
    logVragen, logWindow, \* logs asked for, log windows open
    (************************ history, for properties **********************)
    gevinkt,      \* rows the user last left checked
    klikken, wijzigingen, fouten

serverVars == <<db, schatting>>
pagerVars == <<getoond, totalCount, maxResults, movingBack, pager>>
vraagVars == <<currentPage, filter, aflopend>>
storeVars == <<pagerVars, vraagVars>>
selectieVars == <<gekozen, selection, selected, gevinkt>>
gridVars == <<storeVars, selectieVars, aanvragen, timer, editor>>
logVars == <<logVragen, logWindow>>
grenzen == <<klikken, wijzigingen, fouten>>
vars == <<serverVars, pagina, gridVars, opdrachten, melding, logVars, grenzen>>

Status == {"weg", "open", "klaar"}
Vrij == [fase |-> "vrij", pagina |-> 0, filter |-> FALSE,
         aflopend |-> FALSE, totaal |-> 0, rijen |-> {}]
(* Mutant: the filter is not sent.                                          *)
VraagZonderFilter(p, f, d) ==
    [Vrij EXCEPT !.fase = "verstuurd", !.pagina = p, !.aflopend = d]
Vraag(p, f, d) == [Vrij EXCEPT !.fase = "verstuurd", !.pagina = p,
                               !.filter = f, !.aflopend = d]
Aanvraag == [fase : {"vrij", "verstuurd", "half", "klaar"}, pagina : Int,
             filter : BOOLEAN, aflopend : BOOLEAN, totaal : Int,
             rijen : SUBSET Nummers]
Soort == {"verwijder", "bewaar", "haalop", "transformeer", "alles"}
GeenOpdracht == [soort |-> "geen", rijen |-> {}, status |-> "open",
                 fase |-> "goed", wacht |-> FALSE]
Opdracht == [soort : Soort \union {"geen"}, rijen : SUBSET Nummers,
             status : Status, fase : {"onderweg", "goed", "fout"},
             wacht : BOOLEAN]

TypeOK ==
    /\ db \in [Nummers -> Status] /\ schatting \in Schattingen
    /\ pagina \in Paginas
    /\ getoond \subseteq Id /\ gekozen \subseteq Id
    /\ selection \in [Id -> Nat] /\ selected \subseteq Id
    /\ currentPage \in Int /\ totalCount \in Int /\ filter \in BOOLEAN
    /\ aflopend \in BOOLEAN /\ maxResults \in Int /\ movingBack \in 0..4
    /\ pager \in BOOLEAN
    /\ aanvragen \in [Slots -> Aanvraag]
    /\ timer \in Nat
    /\ editor \in Id \union {Geen}
    /\ opdrachten \in [Orders -> Opdracht]
    /\ melding \in [zichtbaar : BOOLEAN,
                   soort : {"geen", "success", "error", "gestopt"}]
    /\ logVragen \subseteq Nummers /\ logWindow \subseteq Nummers
    /\ gevinkt \subseteq Nummers
    /\ klikken \in Nat /\ wijzigingen \in Nat /\ fouten \in Nat

(* The constructor: the store is empty, and reloadGrid asks for page 1.     *)
Init ==
    /\ db \in Tabellen /\ schatting \in Schattingen
    /\ pagina \in Paginas
    /\ getoond = {} /\ gekozen = {}
    /\ selection = [i \in Id |-> 0] /\ selected = {} /\ gevinkt = {}
    /\ currentPage = 1 /\ totalCount = 0 /\ filter = FALSE /\ aflopend = FALSE
    /\ maxResults = -1 /\ movingBack = 0 /\ pager = FALSE
    /\ \E s \in Slots :
         aanvragen = [t \in Slots |-> IF t = s THEN Vraag(1, FALSE, FALSE)
                                               ELSE Vrij]
    /\ timer = 0 /\ editor = Geen
    /\ opdrachten = [o \in Orders |-> GeenOpdracht]
    /\ melding = [zichtbaar |-> FALSE, soort |-> "geen"]
    /\ logVragen = {} /\ logWindow = {}
    /\ klikken = 0 /\ wijzigingen = 0 /\ fouten = 0

(***************************************************************************)
(* Loads. Store.load asks for currentPage, loadPage sets it first.         *)
(***************************************************************************)
Laadt == \E s \in Slots : aanvragen[s].fase # "vrij"
Ruimte == \E s \in Slots : aanvragen[s] = Vrij
VrijSlot == CHOOSE s \in Slots : aanvragen[s] = Vrij
NuVraag(p) == Vraag(p, filter, aflopend)
LoadPage(p) ==
    /\ Ruimte
    /\ aanvragen' = [aanvragen EXCEPT ![VrijSlot] = NuVraag(p)]
    /\ currentPage' = p
ReloadGrid == LoadPage(currentPage)

(* Mutant: nothing is cleared.                                              *)
NietGewist(t) == t

(* clearTimeout(refreshTimer) takes away the timeout that was set last.     *)
Gewist(t) == IF t = 0 THEN 0 ELSE t - 1

(***************************************************************************)
(* The server: rows in the order of the grid, from start = (page-1) *      *)
(* pageSize, which is set to 0 when negative (page 0). Without a filter    *)
(* PostgreSQL estimates the number of berichten; -1, not analysed yet,     *)
(* becomes total 0 ("virtualtotal").                                       *)
(***************************************************************************)
Passend(f) == {r \in Nummers : IF f THEN db[r] = "open" ELSE db[r] # "weg"}
Begin(p) == IF p < 1 THEN 0 ELSE (p - 1) * PageSize
Rang(r, S, d) == Cardinality({q \in S : IF d THEN q > r ELSE q < r})
PaginaRijen(p, f, d) ==
    {r \in Passend(f) :
       Rang(r, Passend(f), d) \in Begin(p)..(Begin(p) + PageSize - 1)}
Totaal(f) == IF pagina = "berichten" /\ ~f /\ schatting # Exact
               THEN schatting ELSE Cardinality(Passend(f))

(* The total, counted or estimated: before the rows are read, on nhr after. *)
(* (The rows of nhr have no order of their own until the user sorts them;   *)
(* the database is taken to keep to one.)                                   *)
EerstTellen == pagina # "nhr"
Geteld(a) == [a EXCEPT !.fase = IF EerstTellen THEN "half" ELSE "klaar",
                       !.totaal = Totaal(a.filter)]
ServerTelt(s) ==
    /\ aanvragen[s].fase = (IF EerstTellen THEN "verstuurd" ELSE "half")
    /\ aanvragen' = [aanvragen EXCEPT ![s] = Geteld(aanvragen[s])]
    /\ UNCHANGED <<serverVars, pagina, storeVars, selectieVars, timer, editor,
                   opdrachten, melding, logVars, grenzen>>

Gelezen(a) == [a EXCEPT !.fase = IF EerstTellen THEN "klaar" ELSE "half",
                        !.rijen = PaginaRijen(a.pagina, a.filter, a.aflopend)]
ServerLeest(s) ==
    /\ aanvragen[s].fase = (IF EerstTellen THEN "half" ELSE "verstuurd")
    /\ aanvragen' = [aanvragen EXCEPT ![s] = Gelezen(aanvragen[s])]
    /\ UNCHANGED <<serverVars, pagina, storeVars, selectieVars, timer, editor,
                   opdrachten, melding, logVars, grenzen>>

(***************************************************************************)
(* An answer arrives.                                                      *)
(***************************************************************************)
(* PagingToolbar.onLoad: beyond the last page it asks for the last page.    *)
PageCount(n) == (n + PageSize - 1) \div PageSize
(* Mutants: it asks for the last page from the last page; from one beyond   *)
(* it does not.                                                             *)
PagerDoelSteeds(n, rijen) ==
    {p \in {PageCount(n)} : rijen # {} /\ currentPage >= p}
PagerDoelTeLaat(n, rijen) ==
    {p \in {PageCount(n)} : rijen # {} /\ currentPage > p + 1}
PagerDoel(n, rijen) == {p \in {PageCount(n)} : rijen # {} /\ currentPage > p}
(* The load handler: "move to previous page", four times at most.           *)
(* Mutant: without the bound.                                               *)
TerugDoelSteeds(n, rijen) == {p \in {n \div PageSize} :
    n # 0 /\ rijen = {} /\ currentPage # 0}
TerugDoel(n, rijen) == {p \in {n \div PageSize} :
    n # 0 /\ rijen = {} /\ currentPage # 0 /\ movingBack < 4}
VolgtOp(s, doelen) ==
    IF doelen = {}
      THEN aanvragen' = [aanvragen EXCEPT ![s] = Vrij] /\ UNCHANGED currentPage
      ELSE \E p \in doelen :
             /\ aanvragen' = [aanvragen EXCEPT ![s] = NuVraag(p)]
             /\ currentPage' = p

(* Mutant: onViewRefresh does nothing.                                      *)
OnViewRefreshZonderPlugin(nieuw) == gekozen' = gekozen \intersect nieuw

(* onViewRefresh, after the selection model itself kept what is still       *)
(* there: select([]) has no effect. ignoreChanges: the plugin's own         *)
(* administration does not follow these selections.                         *)
OnViewRefresh(nieuw) ==
    LET sel == nieuw \intersect selected
    IN gekozen' = IF sel = {} THEN gekozen \intersect nieuw ELSE sel

(* Records have the id of their row. The rows of nhr have no field id: Ext  *)
(* gives each record a new one, and so every load brings unknown records.   *)
Vers(g) == \A i \in Id : i[2] = g => /\ selection[i] = 0
                                      /\ i \notin getoond /\ i # editor
IdsVoor(g) == IF pagina = "nhr"
                THEN Vers(g) /\ \A h \in Generaties : Vers(h) => g <= h
                ELSE g = 0

LaadGoed(s) ==
    LET a == aanvragen[s]
        totaal == IF maxResults # -1 THEN maxResults ELSE a.totaal
        terug == TerugDoel(totaal, a.rijen)
    IN /\ a.fase = "klaar"
       /\ \E g \in Generaties :
            /\ IdsVoor(g)
            /\ getoond' = a.rijen \X {g}
            /\ OnViewRefresh(a.rijen \X {g})
       /\ timer' = Gewist(timer) + 1
       /\ totalCount' = totaal
       /\ maxResults' = IF totaal # 0 /\ Cardinality(a.rijen) < PageSize
                          THEN totaal ELSE maxResults
       /\ movingBack' = IF terug = {} THEN movingBack ELSE movingBack + 1
       /\ VolgtOp(s, terug \union PagerDoel(totaal, a.rijen))
       /\ pager' = (a.rijen # {})
       /\ UNCHANGED <<serverVars, pagina, filter, aflopend, selection,
                      selected, gevinkt, editor, opdrachten, melding, logVars,
                      grenzen>>

(* One message box: a message takes the place of the one before.            *)
SetMessage(type) == melding' = [zichtbaar |-> TRUE, soort |-> type]

(* The load fails: an error or nothing within 30 seconds, which leaves the  *)
(* total, or the login page in place of JSON, which makes it 0. The records *)
(* and the timeout that is pending stay; the pager reacts as always.        *)
LaadFout(s, n) ==
    /\ aanvragen[s].fase # "vrij" /\ fouten < MaxFouten
    /\ totalCount' = n
    /\ SetMessage("gestopt")
    /\ VolgtOp(s, PagerDoel(n, getoond))
    /\ pager' = (getoond # {})
    /\ fouten' = fouten + 1
    /\ UNCHANGED <<serverVars, pagina, getoond, filter, aflopend, maxResults,
                   movingBack, selectieVars, timer, editor, opdrachten,
                   logVars, klikken, wijzigingen>>

(* The auto refresh.                                                        *)
TimerAf ==
    /\ timer > 0 /\ timer' = timer - 1
    /\ ReloadGrid
    /\ UNCHANGED <<serverVars, pagina, pagerVars, filter, aflopend,
                   selectieVars, editor, opdrachten, melding, logVars, grenzen>>

(***************************************************************************)
(* The user checks rows. The selection model tells the plugin which        *)
(* records were selected and which deselected.                             *)
(***************************************************************************)
(* Mutants: the hash is not asked; the record is not spliced out.           *)
OnRowSelectDubbel(aan, n) ==
    [i \in Id |-> IF i \in aan THEN n[i] + 1 ELSE n[i]]
OnRowDeselectZonderSplice(uit, n) == n

OnRowSelect(aan, n) ==
    [i \in Id |-> IF i \in aan \ selected THEN n[i] + 1 ELSE n[i]]
OnRowDeselect(uit, n) ==
    [i \in Id |-> IF i \in uit \intersect selected /\ n[i] > 0
                    THEN n[i] - 1 ELSE n[i]]
Nummer(ids) == {i[1] : i \in ids}
Kies(nieuw, aan, uit) ==
    /\ gekozen' = nieuw
    /\ selection' = OnRowSelect(aan, OnRowDeselect(uit, selection))
    /\ selected' = (selected \ {i \in uit : selection[i] > 0}) \union aan
    /\ gevinkt' = (gevinkt \ Nummer(uit)) \union Nummer(aan)
Wissel(i) == IF i \in gekozen THEN Kies(gekozen \ {i}, {}, {i})
                              ELSE Kies(gekozen \union {i}, {i}, {})

(* A click elsewhere completes an edit first: that is Bewaar, then this.    *)
Klik == editor = Geen /\ klikken < MaxKlikken /\ klikken' = klikken + 1
NaKlik == UNCHANGED <<serverVars, pagina, melding, wijzigingen, fouten>>
NaVink == NaKlik /\ UNCHANGED <<storeVars, aanvragen, timer, editor,
                                opdrachten, logVars>>

KlikRij(i) ==
    /\ Klik /\ i \in getoond /\ Wissel(i)
    /\ NaVink

(* Mutant: unchecking the header unchecks all pages.                        *)
KlikKopOveral ==
    /\ Klik /\ getoond # {}
    /\ IF gekozen = getoond THEN Kies({}, {}, selected)
                            ELSE Kies(getoond, getoond, {})
    /\ NaVink

(* The checkbox in the header, on when every row is: the selection model    *)
(* reports each record, and the plugin goes over the page again.            *)
KlikKop ==
    /\ Klik /\ getoond # {}
    /\ IF gekozen = getoond THEN Kies({}, {}, getoond)
                            ELSE Kies(getoond, getoond, {})
    /\ NaVink

(* A click below the last row deselects the rows of the page.               *)
KlikNaast ==
    /\ Klik /\ gekozen # {} /\ Kies({}, {}, gekozen)
    /\ NaVink

(***************************************************************************)
(* The user edits a status. A click on the cell first toggles the row;     *)
(* when that leaves it deselected, the editor selects it again, alone.     *)
(* With the keyboard there is no toggle. beforeedit stops the refresh.     *)
(***************************************************************************)
Alleen(i) == Kies({i}, {i}, gekozen \ {i})
BegintBewerken(i) ==
    /\ Klik /\ pagina \in {"berichten", "laadprocessen"} /\ i \in getoond
    /\ editor' = i /\ timer' = Gewist(timer)
    /\ NaKlik /\ UNCHANGED <<storeVars, aanvragen, opdrachten, logVars>>
KlikStatus(i) ==
    /\ BegintBewerken(i)
    /\ IF i \in gekozen THEN Alleen(i) ELSE Kies(gekozen \union {i}, {i}, {})
ToetsStatus(i) ==
    /\ BegintBewerken(i)
    /\ IF i \in gekozen THEN UNCHANGED selectieVars ELSE Alleen(i)

(* Requests other than loads.                                               *)
GeeftOpdracht(soort, rijen, status, wacht) ==
    \E o \in Orders :
        /\ opdrachten[o].fase # "onderweg" /\ ~opdrachten[o].wacht
        /\ opdrachten' = [opdrachten EXCEPT ![o] =
             [soort |-> soort, rijen |-> rijen, status |-> status,
              fase |-> "onderweg", wacht |-> wacht]]

(* edit: the record is saved, changed or not, whatever was loaded since.    *)
Bewaar(rijen, status) ==
    /\ editor # Geen /\ rijen \subseteq {editor[1]}
    /\ GeeftOpdracht("bewaar", rijen, status, TRUE)
    /\ editor' = Geen
    /\ UNCHANGED <<serverVars, pagina, storeVars, selectieVars, aanvragen,
                   timer, melding, logVars, grenzen>>

Annuleer ==
    /\ editor # Geen /\ editor' = Geen
    /\ ReloadGrid
    /\ UNCHANGED <<serverVars, pagina, pagerVars, filter, aflopend,
                   selectieVars, timer, opdrachten, melding, logVars, grenzen>>

(***************************************************************************)
(* The user moves about: the buttons and the input of the pager ("first"   *)
(* stays enabled on page 0), its refresh button, disabled during a load,   *)
(* a header to sort by, and a filter, which starts again at page 1.        *)
(***************************************************************************)
NaLaden == UNCHANGED <<pagerVars, selectieVars, timer, editor, opdrachten,
                       logVars>>
NaarPagina(p) ==
    /\ Klik /\ pager /\ p # currentPage
    /\ p = 1 \/ p \in 1..PageCount(totalCount)
    /\ LoadPage(p)
    /\ NaKlik /\ NaLaden /\ UNCHANGED <<filter, aflopend>>

Herlaad == /\ Klik /\ ~Laadt /\ ReloadGrid
           /\ NaKlik /\ NaLaden /\ UNCHANGED <<filter, aflopend>>

Sorteer ==
    /\ Klik /\ Ruimte
    /\ aflopend' = ~aflopend
    /\ aanvragen' = [aanvragen EXCEPT
         ![VrijSlot] = Vraag(currentPage, filter, aflopend')]
    /\ NaKlik /\ NaLaden /\ UNCHANGED <<currentPage, filter>>

KiesFilter ==
    /\ Klik /\ pagina # "nhr" /\ Ruimte
    /\ filter' = ~filter /\ currentPage' = 1
    /\ aanvragen' = [aanvragen EXCEPT ![VrijSlot] = Vraag(1, filter', aflopend)]
    /\ NaKlik /\ NaLaden /\ UNCHANGED aflopend

(***************************************************************************)
(* The buttons. Deleting takes what the plugin keeps, of all pages; the    *)
(* others take what is checked on the screen. Without a selection nothing  *)
(* is sent. Transformations open a window of their own: no answer comes    *)
(* back to this page.                                                      *)
(***************************************************************************)
NaKnop == NaKlik /\ UNCHANGED <<gridVars, logVars>>
GetPersistedSelection == {i \in Id : selection[i] > 0}

Verwijder ==
    /\ Klik /\ pagina = "laadprocessen" /\ GetPersistedSelection # {}
    /\ GeeftOpdracht("verwijder", Nummer(GetPersistedSelection), "weg", TRUE)
    /\ NaKnop

Transformeert ==
    /\ Klik /\ gekozen # {}
    /\ GeeftOpdracht("transformeer", Nummer(gekozen), "klaar", FALSE)
    /\ NaKnop
TransformeerBerichten == pagina = "berichten" /\ Transformeert
TransformeerLaadprocessen == pagina = "laadprocessen" /\ Transformeert

TransformeerAlles ==
    /\ Klik /\ pagina = "berichten"
    /\ GeeftOpdracht("alles", Passend(TRUE), "klaar", FALSE)
    /\ NaKnop

HaalOp ==
    /\ Klik /\ pagina = "nhr" /\ gekozen # {}
    /\ GeeftOpdracht("haalop", Nummer(gekozen), "open", TRUE)
    /\ NaKnop

(* The server handles the rows one by one, and what is done stays done.     *)
(* Deleting a row that is gone changes nothing, saving one fails.           *)
NaVerwerking(o, r) ==
    IF db[r] = "weg" \/ opdrachten[o].soort = "haalop"
         \/ (opdrachten[o].soort = "transformeer" /\ pagina = "laadprocessen")
      THEN db[r] ELSE opdrachten[o].status
Gedaan(o, r) ==
    [opdrachten[o] EXCEPT !.rijen = @ \ {r},
       !.fase = IF opdrachten[o].soort = "bewaar" /\ db[r] = "weg"
                  THEN "fout" ELSE "onderweg"]
ServerVerwerkt(o) ==
    /\ opdrachten[o].fase = "onderweg"
    /\ \/ /\ opdrachten[o].rijen = {}
          /\ opdrachten' = [opdrachten EXCEPT ![o] = [@ EXCEPT !.fase = "goed"]]
          /\ UNCHANGED db
       \/ \E r \in opdrachten[o].rijen :
          /\ opdrachten' = [opdrachten EXCEPT ![o] = Gedaan(o, r)]
          /\ db' = [db EXCEPT ![r] = NaVerwerking(o, r)]
    /\ UNCHANGED <<schatting, pagina, gridVars, melding, logVars, grenzen>>

Faalt == fouten < MaxFouten /\ fouten' = fouten + 1
ServerMislukt(o) ==
    /\ Faalt /\ opdrachten[o].fase = "onderweg"
    /\ opdrachten' = [opdrachten EXCEPT ![o] = [@ EXCEPT !.fase = "fout"]]
    /\ UNCHANGED <<serverVars, pagina, gridVars, melding, logVars, klikken,
                   wijzigingen>>

(* Mutant: a save that fails does not reload.                               *)
AfloopAlsGelukt(soort, goed) ==
    IF ~goed
      THEN /\ IF soort = "verwijder" THEN SetMessage("error")
                                     ELSE UNCHANGED melding
           /\ UNCHANGED <<currentPage, aanvragen>>
      ELSE ReloadGrid /\ UNCHANGED melding

(* The callbacks. Saving and fetching reload the grid either way; when      *)
(* deleting fails there is a message only.                                  *)
Afloop(soort, goed) ==
    IF soort = "verwijder" /\ ~goed
      THEN SetMessage("error") /\ UNCHANGED <<currentPage, aanvragen>>
      ELSE /\ IF soort = "verwijder" THEN SetMessage("success")
                                     ELSE UNCHANGED melding
           /\ ReloadGrid
NaAfloop == UNCHANGED <<serverVars, pagina, pagerVars, filter, aflopend,
                        selectieVars, timer, editor, logVars, klikken,
                        wijzigingen>>

OpdrachtAntwoord(o) ==
    /\ opdrachten[o].wacht /\ opdrachten[o].fase # "onderweg"
    /\ opdrachten' = [opdrachten EXCEPT ![o] = GeenOpdracht]
    /\ Afloop(opdrachten[o].soort, opdrachten[o].fase = "goed")
    /\ NaAfloop /\ UNCHANGED fouten

(* After 30 seconds the browser calls it a failure; the server goes on.     *)
OpdrachtVerlopen(o) ==
    /\ Faalt /\ opdrachten[o].wacht /\ opdrachten[o].fase = "onderweg"
    /\ opdrachten' = [opdrachten EXCEPT ![o] = [@ EXCEPT !.wacht = FALSE]]
    /\ Afloop(opdrachten[o].soort, FALSE)
    /\ NaAfloop

SluitMelding ==
    /\ melding.zichtbaar /\ melding' = [melding EXCEPT !.zichtbaar = FALSE]
    /\ UNCHANGED <<serverVars, pagina, gridVars, opdrachten, logVars, grenzen>>

(***************************************************************************)
(* openLog. The link is in a cell of the row: the click toggles the row as *)
(* well. The window that is open goes first; an answer that cannot be      *)
(* decoded puts no other in its place. nhr shows any answer as it is, but  *)
(* not an answer that never came.                                          *)
(***************************************************************************)
OpenLog(i) ==
    /\ Klik /\ i \in getoond /\ Wissel(i)
    /\ logVragen' = logVragen \union {i[1]}
    /\ NaKlik /\ UNCHANGED <<storeVars, aanvragen, timer, editor, opdrachten,
                             logWindow>>
NaLog(r) ==
    /\ r \in logVragen /\ logVragen' = logVragen \ {r}
    /\ UNCHANGED <<serverVars, pagina, gridVars, opdrachten, melding, klikken,
                   wijzigingen>>
Leesbaar(r) == pagina = "nhr" \/ db[r] # "weg"
LogAntwoord(r) ==
    /\ logWindow' = IF Leesbaar(r) THEN {r} ELSE {}
    /\ NaLog(r) /\ UNCHANGED fouten
LogMislukt(r) ==
    /\ Faalt /\ NaLog(r)
    /\ logWindow' = {} \/ (pagina = "nhr" /\ logWindow' = {r})

(* Others: uploads, automatic processes, other users, and autovacuum.       *)
Anderen == /\ wijzigingen < MaxWijzigingen /\ wijzigingen' = wijzigingen + 1
           /\ UNCHANGED <<pagina, gridVars, opdrachten, melding, logVars,
                          klikken, fouten>>
AndereWijziging(r, st) ==
    Anderen /\ db' = [db EXCEPT ![r] = st] /\ UNCHANGED schatting
NieuweSchatting(n) ==
    /\ Anderen /\ schatting # Exact /\ n # Exact
    /\ schatting' = n /\ UNCHANGED db

Next ==
    \/ \E s \in Slots : \/ ServerTelt(s) \/ ServerLeest(s) \/ LaadGoed(s)
                        \/ \E n \in {0, totalCount} : LaadFout(s, n)
    \/ TimerAf
    \/ \E i \in getoond : \/ KlikRij(i) \/ KlikStatus(i) \/ ToetsStatus(i)
                          \/ OpenLog(i)
    \/ KlikKop \/ KlikNaast
    \/ \E w \in SUBSET Nummers, st \in {"open", "klaar"} : Bewaar(w, st)
    \/ Annuleer \/ Herlaad \/ Sorteer \/ KiesFilter
    \/ \E p \in {1} \union 1..PageCount(totalCount) : NaarPagina(p)
    \/ Verwijder \/ TransformeerBerichten \/ TransformeerLaadprocessen
    \/ TransformeerAlles \/ HaalOp
    \/ \E o \in Orders : \/ ServerVerwerkt(o) \/ ServerMislukt(o)
                         \/ OpdrachtAntwoord(o) \/ OpdrachtVerlopen(o)
    \/ SluitMelding
    \/ \E r \in logVragen : LogAntwoord(r) \/ LogMislukt(r)
    \/ \E r \in Nummers, st \in Status : AndereWijziging(r, st)
    \/ \E n \in Schattingen : NieuweSchatting(n)

Spec == Init /\ [][Next]_vars

(* The server answers, answers arrive and timeouts go off. The user and the *)
(* others need do nothing.                                                  *)
Eerlijk ==
    /\ \A s \in Slots : /\ WF_vars(ServerTelt(s)) /\ WF_vars(ServerLeest(s))
                         /\ WF_vars(LaadGoed(s))
    /\ WF_vars(TimerAf)
    /\ \A o \in Orders : /\ WF_vars(ServerVerwerkt(o))
                          /\ WF_vars(OpdrachtAntwoord(o))
EerlijkeSpec == Spec /\ Eerlijk

(***************************************************************************)
(* Properties.                                                             *)
(***************************************************************************)
(* The plugin's array and its hash agree, and no record is in the array     *)
(* twice: a duplicate would stay behind when the row is unchecked.          *)
SelectieKlopt == \A i \in Id : selection[i] = IF i \in selected THEN 1 ELSE 0

(* On the screen those rows are checked that the plugin keeps, after any    *)
(* sequence of clicks, edits and loads: what deleting takes and what the    *)
(* other buttons take is what the user sees.                                *)
VinkjesKloppen == gekozen = getoond \intersect selected

(* "Maintains row selection state when moving between pages": a row leaves  *)
(* the kept selection only while it is on the screen, never by a load.      *)
VinkBlijft == [][\A i \in selected \ selected' :
                    i \in getoond /\ getoond' = getoond]_vars

(* No row is deleted, transformed or fetched that the user did not leave    *)
(* checked, whatever pages were loaded between.                             *)
AlleenGekozen ==
    [][\A o \in Orders :
         opdrachten'[o].soort \in {"verwijder", "transformeer", "haalop"}
           => opdrachten'[o].rijen
                \subseteq opdrachten[o].rijen \union gevinkt]_vars

(* "timer to make sure refreshing only happens once after each load".       *)
EenTimer == timer <= 1

(* The refreshing never stops in silence: a load, a timeout, an edit or a   *)
(* save is under way, or the last message was an error.                     *)
NietStil ==
    \/ Laadt \/ timer > 0 \/ editor # Geen
    \/ \E o \in Orders : opdrachten[o].wacht /\ opdrachten[o].soort = "bewaar"
    \/ melding.soort \in {"gestopt", "error"}

(* No rows are left standing under the number of a page that does not      *)
(* exist: when totals shrink, answers overtake or a load fails and leaves   *)
(* the rows of another page, a load of the last page is under way.          *)
PaginaBestaat ==
    ~Laadt /\ getoond # {} => currentPage <= PageCount(totalCount)

(* The loads that an answer leads to, each in the place of the one before,  *)
(* come to an end: the pager and the load handler do not send each other    *)
(* back and forth, whatever totals and rows the server answers.             *)
KomtTotRust == \A s \in Slots : []<>(aanvragen[s] = Vrij)

(* In the end the page shows the rows the table has there, unless an edit   *)
(* is open or the last message was an error.                                *)
ToontTabel == <>[](\/ Nummer(getoond) = PaginaRijen(currentPage, filter, aflopend)
                \/ editor # Geen \/ melding.soort \in {"gestopt", "error"})
=============================================================================
