---------------------------- MODULE BAG2Mutaties ----------------------------
(***************************************************************************)
(* Which BAG files are loaded in which order, and what the database then   *)
(* claims to hold: BAG2LoaderMain.loadFiles, loadStandFiles, applyMutaties *)
(* and applyGeoFilter, started from the command line or, again and again,  *)
(* by BAG2MutatieProcesRunner.                                             *)
(*                                                                         *)
(* A file is read in parts (deel), one per gemeente, a stand also per      *)
(* object type; every part is one transaction of the table writer, modelled*)
(* in ObjectTableWriter.  The metadata are written in a later transaction. *)
(***************************************************************************)
EXTENDS Naturals, Sequences, FiniteSetsExt

CONSTANTS Sleutels,     \* primary keys: identificatie with voorkomen
          Soort,        \* the object type of a key
          GemeentenVan, \* the gemeenten whose files contain it
          Historie,     \* the days on which it was added and then changed
          Buiten,       \* the keys that lie outside the geometry filter
          Opdrachten,   \* what may be started: [commando, levering, wkt]
          MaxRuns,      \* bound: runs that are started
          MaxStoringen  \* bound: exceptions or crashes from outside

NLD == "9999"
Soorten == {Soort[k] : k \in Sleutels}

(* A stand has its date in van and in tot; mutaties are those of the days   *)
(* from van up to, not including, tot.                                      *)
Bestand(b) == /\ b.stand \in BOOLEAN
              /\ b.van \in Nat \ {0} /\ b.tot \in Nat
              /\ b.stand => b.van = b.tot
              /\ ~b.stand => b.van < b.tot
              /\ b.gebied # {} /\ IsFiniteSet(b.gebied)
              /\ NLD \in b.gebied => b.gebied = {NLD}

(* "Gemeente can only have monthly updates" (BAG2LoaderUtils:200): what the *)
(* gemeenten get from the same day on covers the same month.                *)
VoorGemeenten(b) == ~b.stand /\ b.gebied # {NLD}
Levering(lev) ==
    /\ lev \in Seq({lev[i] : i \in DOMAIN lev})
    /\ \A i \in DOMAIN lev : Bestand(lev[i])
    /\ \A i, j \in DOMAIN lev :
          /\ VoorGemeenten(lev[i]) /\ VoorGemeenten(lev[j])
          /\ lev[i].van = lev[j].van
          => lev[i].tot = lev[j].tot

ASSUME BAG2Aannames ==
    /\ Sleutels # {}
    /\ \A k \in Sleutels :
          /\ Historie[k] \in Seq(Nat)
          /\ \A i, j \in DOMAIN Historie[k] :
                i < j => Historie[k][i] <= Historie[k][j]
    /\ \A o \in Opdrachten :
          /\ o.commando \in {"load", "apply"}
          /\ o.wkt \in {"geen", "filter", "ongeldig"}
          /\ Levering(o.levering)

VARIABLES
    (************************** what the database holds ********************)
    tabel,       \* the version in the row of a key, 0 without a row
    dubbel,      \* keys with more than one row
    tabellen,    \* the object types whose table exists
    reeks,       \* the sequence objectid_seq exists
    datum,       \* metadata: current technical date, 0 when there is none
    gemeenten,   \* metadata: codes of the gemeenten loaded
    filter,      \* metadata: there is a geometry filter
    (******************************* one run *******************************)
    pc, opdracht,
    huidig,      \* currentTechnischeDatum
    teLaden,     \* parts of the chosen files that are still to be loaded
    bagInfo,     \* the file whose info was returned last
    gezien,      \* keysPerObjectType
    uitkomst,    \* how the last run ended
    (************************ history, only for properties *****************)
    los,         \* is a part committed whose date is not in the metadata
    runs, storingen

dbVars == <<tabel, dubbel, tabellen, reeks, datum, gemeenten, filter>>
metaVars == <<dubbel, tabellen, reeks, datum, gemeenten, filter>>
begrensd == <<runs, storingen>>
vars == <<dbVars, pc, opdracht, huidig, teLaden, bagInfo, gezien, uitkomst,
          los, begrensd>>

levering == opdracht.levering
Eerste == levering[1]
Uitkomsten == {"geen", "ok", "ongeldig", "geenStand", "onvolledig", "tabel",
               "sleutel", "storing"}
Delen(i) == {<<i, g>> : g \in levering[i].gebied}

(* Mutant: a stand holds the next version too.                              *)
VersieTeLaat(k, dag) ==
    Cardinality({i \in DOMAIN Historie[k] : Historie[k][i] < dag}) + 1

(* How often a key was added or changed before a day: its version then.     *)
Versie(k, dag) == Cardinality({i \in DOMAIN Historie[k] : Historie[k][i] < dag})
Inhoud(g) == {k \in Sleutels : g = NLD \/ g \in GemeentenVan[k]}
InDatabase == {k \in Sleutels : NLD \in gemeenten
                                \/ GemeentenVan[k] \cap gemeenten # {}}

TypeOK ==
    /\ tabel \in [Sleutels -> Nat]
    /\ \A k \in Sleutels : tabel[k] <= Len(Historie[k])
    /\ dubbel \subseteq Sleutels
    /\ tabellen \subseteq Soorten
    /\ reeks \in BOOLEAN /\ filter \in BOOLEAN
    /\ datum \in Nat /\ huidig \in Nat
    /\ pc \in {"klaar", "kies", "stand", "zoek", "mutaties", "filter"}
    /\ pc # "klaar" => opdracht \in Opdrachten
    /\ \A d \in teLaden : d[1] \in DOMAIN levering
    /\ bagInfo \in {0} \union DOMAIN levering
    /\ gezien \subseteq Sleutels
    /\ uitkomst \in Uitkomsten
    /\ los \in {"nee", "bezig", "afgebroken"}

Init ==
    /\ tabel = [k \in Sleutels |-> 0] /\ dubbel = {} /\ tabellen = {}
    /\ reeks = FALSE /\ datum = 0 /\ gemeenten = {} /\ filter = FALSE
    /\ pc = "klaar"
    /\ opdracht = [commando |-> "load", levering |-> <<>>, wkt |-> "geen"]
    /\ huidig = 0 /\ teLaden = {} /\ bagInfo = 0 /\ gezien = {}
    /\ uitkomst = "geen" /\ los = "nee" /\ runs = 0 /\ storingen = 0

(* A run ends; its BAG2LoaderMain, with the keys it saw, is gone.           *)
Eindig(u) ==
    /\ pc' = "klaar"
    /\ uitkomst' = u
    /\ teLaden' = {} /\ bagInfo' = 0 /\ gezien' = {} /\ huidig' = 0
    /\ los' = IF los = "bezig" THEN "afgebroken" ELSE los
    /\ UNCHANGED opdracht

Start(o) ==
    /\ pc = "klaar"
    /\ runs < MaxRuns
    /\ runs' = runs + 1
    /\ pc' = "kies"
    /\ opdracht' = o
    /\ UNCHANGED <<dbVars, huidig, teLaden, bagInfo, gezien, uitkomst, los,
                   storingen>>

(* No file was found, there is nothing to do.                               *)
NietsTeDoen ==
    /\ pc = "kies"
    /\ levering = <<>>
    /\ Eindig("ok")
    /\ UNCHANGED <<dbVars, begrensd>>

(***************************************************************************)
(* load with a stand as its first file.                                    *)
(***************************************************************************)
IsStand == /\ pc = "kies"
           /\ opdracht.commando = "load"
           /\ levering # <<>>
           /\ Eerste.stand

(* The loop starts at the second file: the codes of the first are not seen. *)
GeldigeStanden ==
    IF Eerste.gebied = {NLD} THEN Len(levering) = 1
    ELSE \A i \in 2..Len(levering) :
            /\ levering[i].stand
            /\ levering[i].gebied # {NLD}
            /\ \A j \in 2..(i - 1) :
                  levering[i].gebied \cap levering[j].gebied = {}

StandGeweigerd ==
    /\ IsStand
    /\ ~GeldigeStanden \/ reeks
    /\ Eindig("ongeldig")
    /\ UNCHANGED <<dbVars, begrensd>>

KiesStand ==
    /\ IsStand
    /\ GeldigeStanden
    /\ ~reeks
    /\ reeks' = TRUE
    /\ teLaden' = UNION {{<<i, g, s>> : g \in levering[i].gebied, s \in Soorten}
                         : i \in DOMAIN levering}
    /\ pc' = "stand"
    /\ UNCHANGED <<tabel, dubbel, tabellen, datum, gemeenten, filter, opdracht,
                   huidig, bagInfo, gezien, uitkomst, los, begrensd>>

(* Mutant: the gemeenten within one file are not counted.                   *)
NegeerBijBestanden == Len(levering) > 1

(* setIgnoreDuplicates: objects can occur in the files of two gemeenten.    *)
NegeerDubbel == Len(levering) > 1 \/ Cardinality(Eerste.gebied) > 1

GelijkeDatum(i) == \A j \in 2..i : levering[j].van = levering[j - 1].van

(* The parts of the first file that has any left.                           *)
Volgende == {d \in teLaden : \A e \in teLaden : d[1] <= e[1]}

LaadStand(d) ==
    LET b == levering[d[1]]
        objecten == {k \in Inhoud(d[2]) : Soort[k] = d[3]
                                          /\ Versie(k, b.van) > 0}
        nieuw == IF NegeerDubbel THEN objecten \ gezien ELSE objecten
    IN  /\ pc = "stand"
        /\ GelijkeDatum(d[1] - 1)
        /\ tabel' = [k \in Sleutels |-> IF k \in nieuw THEN Versie(k, b.van)
                                                       ELSE tabel[k]]
        /\ dubbel' = dubbel \union {k \in nieuw : tabel[k] > 0}
        /\ gezien' = IF NegeerDubbel THEN gezien \union objecten ELSE gezien
        /\ tabellen' = tabellen \union (IF objecten = {} THEN {} ELSE {d[3]})
        /\ teLaden' = teLaden \ {d}
        /\ bagInfo' = d[1]
        /\ los' = "bezig"
        /\ UNCHANGED <<reeks, datum, gemeenten, filter, pc, opdracht, huidig,
                       uitkomst, begrensd>>

(* A file has another date than the one before it: found after loading it.  *)
AndereDatum ==
    /\ pc = "stand"
    /\ \A d \in teLaden : d[1] > bagInfo
    /\ ~GelijkeDatum(bagInfo)
    /\ Eindig("ongeldig")
    /\ UNCHANGED <<dbVars, begrensd>>

StandGeladen ==
    /\ pc = "stand"
    /\ teLaden = {}
    /\ GelijkeDatum(bagInfo)
    /\ gemeenten' = UNION {levering[i].gebied : i \in DOMAIN levering}
    /\ datum' = levering[bagInfo].van
    /\ los' = IF los = "bezig" THEN "nee" ELSE los
    /\ pc' = "filter"
    /\ UNCHANGED <<tabel, dubbel, tabellen, reeks, filter, opdracht, huidig,
                   teLaden, bagInfo, gezien, uitkomst, begrensd>>

(***************************************************************************)
(* applyMutaties: again and again the files that start where the database  *)
(* is, until there are none.  The first file decides of what kind they are.*)
(***************************************************************************)
IsMutaties == /\ pc = "kies"
              /\ levering # <<>>
              /\ opdracht.commando = "apply" \/ ~Eerste.stand

GeenStand ==
    /\ IsMutaties
    /\ datum = 0
    /\ Eindig("geenStand")
    /\ UNCHANGED <<dbVars, begrensd>>

KiesMutaties ==
    /\ IsMutaties
    /\ datum # 0
    /\ huidig' = datum
    /\ pc' = "zoek"
    /\ UNCHANGED <<dbVars, opdracht, teLaden, bagInfo, gezien, uitkomst, los,
                   begrensd>>

PerGemeente == Eerste.gebied # {NLD}

Aansluitend(i) == ~levering[i].stand /\ levering[i].van = huidig

(* Of two landelijke files that start on the same day the last one is used. *)
Toepasbaar ==
    IF PerGemeente
    THEN {i \in DOMAIN levering : /\ Aansluitend(i)
                                  /\ levering[i].gebied \cap gemeenten # {}
                                  /\ levering[i].gebied # {NLD}}
    ELSE {i \in DOMAIN levering :
            /\ Aansluitend(i) /\ levering[i].gebied = {NLD}
            /\ \A j \in DOMAIN levering :
                 j > i => ~(Aansluitend(j) /\ levering[j].gebied = {NLD})}

(* Mutant: files of some gemeenten may be missing.                          *)
NietsOntbreekt == {}

Ontbreekt == IF PerGemeente
             THEN gemeenten \ UNION {levering[i].gebied : i \in Toepasbaar}
             ELSE {}

NietsToepasbaar ==
    /\ pc = "zoek"
    /\ Toepasbaar = {}
    /\ pc' = "filter"
    /\ UNCHANGED <<dbVars, opdracht, huidig, teLaden, bagInfo, gezien, uitkomst,
                   los, begrensd>>

Onvolledig ==
    /\ pc = "zoek"
    /\ Toepasbaar # {}
    /\ Ontbreekt # {}
    /\ Eindig("onvolledig")
    /\ UNCHANGED <<dbVars, begrensd>>

PasToe ==
    /\ pc = "zoek"
    /\ Toepasbaar # {}
    /\ Ontbreekt = {}
    /\ teLaden' = UNION {Delen(i) : i \in Toepasbaar}
    /\ pc' = "mutaties"
    /\ UNCHANGED <<dbVars, opdracht, huidig, bagInfo, gezien, uitkomst, los,
                   begrensd>>

(* The mutaties of a key in a file, 1 being the toevoeging.                 *)
Mutaties(k, b) == {i \in DOMAIN Historie[k] : b.van <= Historie[k][i]
                                              /\ Historie[k][i] < b.tot}
Geraakt(d) == {k \in Inhoud(d[2]) : Mutaties(k, levering[d[1]]) # {}}
Toevoegingen(d) == {k \in Inhoud(d[2]) : 1 \in Mutaties(k, levering[d[1]])}

(* Mutant: every file adds its objects.                                     *)
NietOvergeslagen(d) == {}

(* With one gemeente, or all of the Netherlands, duplicates are not looked  *)
(* for.  A wijziging is never checked: it deletes its row and inserts it.   *)
Overgeslagen(d) == IF PerGemeente /\ Cardinality(gemeenten) > 1
                   THEN Toevoegingen(d) \cap gezien ELSE {}

SleutelBestaat(d) ==
    \E k \in Toevoegingen(d) \ Overgeslagen(d) : tabel[k] > 0
TabelOntbreekt(d) == \E k \in Geraakt(d) : Soort[k] \notin tabellen

Verwerkt(d) ==
    [k \in Sleutels |->
        IF k \in Geraakt(d) /\ ~(/\ k \in Overgeslagen(d)
                                 /\ Mutaties(k, levering[d[1]]) = {1})
        THEN Max(Mutaties(k, levering[d[1]])) ELSE tabel[k]]

LaadMutaties(d) ==
    /\ pc = "mutaties"
    /\ ~TabelOntbreekt(d)
    /\ ~SleutelBestaat(d)
    /\ tabel' = Verwerkt(d)
    /\ gezien' = IF PerGemeente /\ Cardinality(gemeenten) > 1
                 THEN gezien \union Toevoegingen(d) ELSE gezien
    /\ teLaden' = teLaden \ {d}
    /\ bagInfo' = d[1]
    /\ los' = IF los = "nee" THEN "bezig" ELSE los
    /\ UNCHANGED <<metaVars, pc, opdracht, huidig, uitkomst, begrensd>>

LaadMislukt(d) ==
    /\ pc = "mutaties"
    /\ \/ TabelOntbreekt(d) /\ Eindig("tabel")
       \/ ~TabelOntbreekt(d) /\ SleutelBestaat(d) /\ Eindig("sleutel")
    /\ UNCHANGED <<dbVars, begrensd>>

(* Mutant: the loop does not remember the date it has reached.              *)
DatumVergeten ==
    /\ pc = "mutaties"
    /\ teLaden = {}
    /\ datum' = levering[bagInfo].tot
    /\ los' = IF los = "bezig" THEN "nee" ELSE los
    /\ gezien' = {}
    /\ pc' = "zoek"
    /\ UNCHANGED <<tabel, dubbel, tabellen, reeks, gemeenten, filter, opdracht,
                   huidig, teLaden, bagInfo, uitkomst, begrensd>>

(* Mutant: a single period is loaded.                                       *)
EenPeriode ==
    /\ pc = "mutaties"
    /\ teLaden = {}
    /\ huidig' = levering[bagInfo].tot
    /\ datum' = levering[bagInfo].tot
    /\ los' = IF los = "bezig" THEN "nee" ELSE los
    /\ gezien' = {}
    /\ pc' = "filter"
    /\ UNCHANGED <<tabel, dubbel, tabellen, reeks, gemeenten, filter, opdracht,
                   teLaden, bagInfo, uitkomst, begrensd>>

MutatiesGeladen ==
    /\ pc = "mutaties"
    /\ teLaden = {}
    /\ huidig' = levering[bagInfo].tot
    /\ datum' = levering[bagInfo].tot
    /\ los' = IF los = "bezig" THEN "nee" ELSE los
    /\ gezien' = {}
    /\ pc' = "zoek"
    /\ UNCHANGED <<tabel, dubbel, tabellen, reeks, gemeenten, filter, opdracht,
                   teLaden, bagInfo, uitkomst, begrensd>>

(***************************************************************************)
(* applyGeoFilter: the filter given, else the one in the metadata.         *)
(***************************************************************************)
(* Mutant: the filter of an earlier run is not applied again.               *)
AlleenOpgegeven == opdracht.wkt = "filter"

TeFilteren == \/ opdracht.wkt = "filter"
              \/ opdracht.wkt = "geen" /\ filter

GeoFilter ==
    /\ pc = "filter"
    /\ TeFilteren
    /\ tabellen = Soorten
    /\ filter' = TRUE
    /\ tabel' = [k \in Sleutels |-> IF k \in Buiten THEN 0 ELSE tabel[k]]
    /\ dubbel' = dubbel \ Buiten
    /\ Eindig("ok")
    /\ UNCHANGED <<tabellen, reeks, datum, gemeenten, begrensd>>

GeenFilter ==
    /\ pc = "filter"
    /\ ~TeFilteren
    /\ Eindig("ok")
    /\ UNCHANGED <<dbVars, begrensd>>

(* Without a write before it in the run the connection still commits by     *)
(* itself, so the filter stays although the deletes do not.                 *)
FilterMisschienBewaard ==
    IF pc = "filter" /\ opdracht.wkt = "filter" THEN filter' \in {filter, TRUE}
                                                ELSE UNCHANGED filter

FilterMislukt ==
    /\ pc = "filter"
    /\ TeFilteren
    /\ tabellen # Soorten
    /\ FilterMisschienBewaard
    /\ Eindig("tabel")
    /\ UNCHANGED <<tabel, dubbel, tabellen, reeks, datum, gemeenten, begrensd>>

(* A download breaks, a file is damaged, the database or the process stops: *)
(* the transaction in progress is lost.                                     *)
Storing ==
    /\ pc # "klaar"
    /\ storingen < MaxStoringen
    /\ storingen' = storingen + 1
    /\ FilterMisschienBewaard
    /\ Eindig("storing")
    /\ UNCHANGED <<tabel, dubbel, tabellen, reeks, datum, gemeenten, runs>>

Stap ==
    \/ NietsTeDoen
    \/ StandGeweigerd \/ KiesStand
    \/ \E d \in Volgende : LaadStand(d)
    \/ AndereDatum \/ StandGeladen
    \/ GeenStand \/ KiesMutaties
    \/ NietsToepasbaar \/ Onvolledig \/ PasToe
    \/ \E d \in Volgende : LaadMutaties(d) \/ LaadMislukt(d)
    \/ MutatiesGeladen
    \/ GeoFilter \/ GeenFilter \/ FilterMislukt

Next == Stap \/ (\E o \in Opdrachten : Start(o)) \/ Storing

Spec == Init /\ [][Next]_vars

(* A run is one thread that is not waited for by, or waiting for, another.  *)
FairSpec == Spec /\ WF_vars(Stap)

-----------------------------------------------------------------------------
(* The technical date never claims more than the tables hold: at every      *)
(* moment, whatever broke off before, each object of the gemeenten loaded   *)
(* is at least at the version it had on that date, unless the filter has    *)
(* removed it.  The files of one period are loaded one by one, and the next *)
(* period starts from this date (applyGemeenteMutaties, applyNLMutaties).   *)
NietsGemist ==
    datum # 0 =>
        \A k \in InDatabase : \/ tabel[k] >= Versie(k, datum)
                              \/ k \in Buiten /\ filter

(* After a run that ended well, no run having broken off between data and   *)
(* metadata, the tables are exactly those of the technical date: nothing of *)
(* a later day, nothing outside the filter, also when a broken run had left *)
(* rows that were not filtered yet.  An invalid filter is only logged, and  *)
(* without files the filter is not applied.                                 *)
Actueel ==
    (/\ pc = "klaar" /\ uitkomst = "ok" /\ los # "afgebroken"
     /\ opdracht.wkt # "ongeldig" /\ levering # <<>>) =>
        \A k \in InDatabase :
            tabel[k] = IF filter /\ k \in Buiten THEN 0 ELSE Versie(k, datum)

(* Objects that occur in the files of two gemeenten are in the tables once. *)
(* A stand is loaded without keys: with a second row createKeys would fail. *)
GeenDubbel == dubbel = {}

(* A database of one gemeente is given mutaties in several parts: a file of *)
(* more gemeenten, or the same file twice.  Duplicates are then not looked  *)
(* for, and the second part with a new shared object is refused.            *)
NietOntdubbeld ==
    /\ PerGemeente
    /\ Cardinality(gemeenten) = 1
    /\ Cardinality(UNION {Delen(i) : i \in Toepasbaar}) > 1

(* As long as no run broke off between the data and the metadata of a       *)
(* period, a toevoeging never meets a row with its key: periods follow each *)
(* other without overlap, and where duplicates are looked for a shared      *)
(* object is added by one part only.                                        *)
GeenSleutelFout ==
    [][pc = "mutaties" /\ pc' = "klaar" /\ uitkomst' = "sleutel"
          => los = "afgebroken" \/ NietOntdubbeld]_vars

(* A run over mutaties of one kind that ended well has no file left that    *)
(* starts at the date reached, in whatever order the files were given.      *)
Bijgewerkt ==
    (pc = "klaar" /\ uitkomst = "ok" /\ levering # <<>> /\ ~Eerste.stand) =>
        \A i \in DOMAIN levering :
            ~(/\ ~levering[i].stand
              /\ levering[i].van = datum
              /\ levering[i].gebied = {NLD} <=> Eerste.gebied = {NLD}
              /\ levering[i].gebied = {NLD}
                 \/ levering[i].gebied \cap gemeenten # {})

(* Every run ends: each round of applyMutaties moves the date forward.      *)
RunEindigt == []<>(pc = "klaar")

(* "Vorige run is met ERROR status afgerond, opnieuw proberen": after a run *)
(* that a mishap broke off, a next run does what it left undone and is not  *)
(* refused on the keys of what it did. Not so when the mishap came between  *)
(* the commit of objects of a period and that of its date: the next run     *)
(* starts at the old date and adds the same objects. A database that looks  *)
(* for no duplicates (NietOntdubbeld) is left out, a run fails there anyway.*)
OpnieuwProberen ==
    [][pc = "mutaties" /\ uitkomst = "storing"
         /\ pc' = "klaar" /\ uitkomst' = "sleutel" => NietOntdubbeld]_vars
=============================================================================
