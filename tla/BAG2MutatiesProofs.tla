------------------------- MODULE BAG2MutatiesProofs -------------------------
(***************************************************************************)
(* What the metadata of the BAG claim is in the tables, for any objects,   *)
(* files, order of files, number of runs and of failures.                  *)
(***************************************************************************)
EXTENDS BAG2Mutaties, FiniteSetTheorems, WellFoundedInduction, TLAPS

(* A set of numbers that is not empty has a greatest element: the numbers   *)
(* above which none of it lies have a smallest one.                         *)
LEMMA GrootsteBestaat ==
    ASSUME NEW n \in Nat, NEW S \in SUBSET (1..n), S # {}
    PROVE  \E m \in S : \A i \in S : m >= i
  <1> DEFINE Kleiner == {ss \in Nat \X Nat : ss[1] < ss[2]}
             Boven == {m \in Nat : \A i \in S : m >= i}
  <1>1. n \in Boven
    OBVIOUS
  <1>2. IsWellFoundedOn(Kleiner, Nat)
    BY NatLessThanWellFounded DEF OpToRel
  <1>3. PICK m \in Boven : \A y \in Boven : ~(<<y, m>> \in Kleiner)
    <2> HIDE DEF Kleiner
    <2> QED
      BY <1>1, <1>2, WFMin
  <1>4. m # 0
    <2>1. PICK i \in S : i \in 1..n
      OBVIOUS
    <2> QED
      BY <1>3, <2>1
  <1>5. m - 1 \in Nat /\ <<m - 1, m>> \in Kleiner
    BY <1>3, <1>4
  <1>6. m - 1 \notin Boven
    BY <1>3, <1>5
  <1> QED
    BY <1>3, <1>5, <1>6

(***************************************************************************)
(* The history of an object.                                               *)
(***************************************************************************)
(* The version on a day is a count, is at least that of an earlier day, and *)
(* at most m when the first m entries hold what was done before that day.   *)
Voor(k, dag) == {i \in DOMAIN Historie[k] : Historie[k][i] < dag}

LEMMA HistorieType ==
    ASSUME NEW k \in Sleutels
    PROVE  /\ Len(Historie[k]) \in Nat
           /\ DOMAIN Historie[k] = 1..Len(Historie[k])
           /\ \A i \in DOMAIN Historie[k] : Historie[k][i] \in Nat
  BY BAG2Aannames

LEMMA VersieType ==
    ASSUME NEW k \in Sleutels, NEW dag
    PROVE  /\ Versie(k, dag) \in Nat
           /\ Versie(k, dag) <= Len(Historie[k])
           /\ IsFiniteSet(Voor(k, dag))
  <1>1. IsFiniteSet(1..Len(Historie[k])) /\ Cardinality(1..Len(Historie[k])) = Len(Historie[k])
    BY HistorieType, FS_Interval
  <1>2. Voor(k, dag) \in SUBSET (1..Len(Historie[k]))
    BY HistorieType DEF Voor
  <1>3. Cardinality(Voor(k, dag)) <= Len(Historie[k]) /\ IsFiniteSet(Voor(k, dag))
    BY <1>1, <1>2, FS_Subset
  <1> QED
    BY <1>3, FS_CardinalityType DEF Versie, Voor

LEMMA VersieMonotoon ==
    ASSUME NEW k \in Sleutels, NEW dag \in Nat, NEW later \in Nat, dag <= later
    PROVE  Versie(k, dag) <= Versie(k, later)
  <1>1. Voor(k, dag) \in SUBSET Voor(k, later)
    BY HistorieType DEF Voor
  <1>2. IsFiniteSet(Voor(k, later))
    BY VersieType
  <1>3. Cardinality(Voor(k, dag)) <= Cardinality(Voor(k, later))
    BY <1>1, <1>2, FS_Subset
  <1> QED
    BY <1>3 DEF Versie, Voor

LEMMA VersieBegrensd ==
    ASSUME NEW k \in Sleutels, NEW dag \in Nat, NEW m \in DOMAIN Historie[k],
           \A i \in Voor(k, dag) : i <= m
    PROVE  Versie(k, dag) <= m
  <1>1. m \in Nat /\ m > 0
    BY HistorieType
  <1>2. IsFiniteSet(1..m) /\ Cardinality(1..m) = m
    BY <1>1, FS_Interval
  <1>3. Voor(k, dag) \in SUBSET (1..m)
    BY HistorieType DEF Voor
  <1>4. Cardinality(Voor(k, dag)) <= m
    BY <1>2, <1>3, FS_Subset
  <1> QED
    BY <1>4 DEF Versie, Voor

(* At the last of its mutaties in a file an object is not older than on the *)
(* last day of the file.                                                    *)
LEMMA LaatsteIsActueel ==
    ASSUME NEW k \in Sleutels, NEW b, b.van \in Nat, b.tot \in Nat,
           NEW m \in Mutaties(k, b), \A i \in Mutaties(k, b) : m >= i
    PROVE  Versie(k, b.tot) <= m
  <1>1. m \in DOMAIN Historie[k] /\ b.van <= Historie[k][m]
    BY DEF Mutaties
  <1>2. ASSUME NEW i \in Voor(k, b.tot)
        PROVE  i <= m
    <2>1. i \in DOMAIN Historie[k] /\ Historie[k][i] < b.tot
      BY DEF Voor
    <2>2. i \in Nat /\ m \in Nat /\ Historie[k][i] \in Nat /\ Historie[k][m] \in Nat
      BY <1>1, <2>1, HistorieType
    <2>3. CASE b.van <= Historie[k][i]
      BY <2>1, <2>2, <2>3 DEF Mutaties
    <2>4. CASE ~(b.van <= Historie[k][i])
      <3>1. ~(m < i)
        BY <1>1, <2>1, <2>2, <2>4, BAG2Aannames
      <3> QED
        BY <2>2, <3>1
    <2> QED
      BY <2>3, <2>4
  <1> QED
    BY <1>1, <1>2, VersieBegrensd

LEMMA LaatsteMutatie ==
    ASSUME NEW k \in Sleutels, NEW b, b.van \in Nat, b.tot \in Nat,
           Mutaties(k, b) # {}
    PROVE  /\ Max(Mutaties(k, b)) \in Mutaties(k, b)
           /\ Versie(k, b.tot) <= Max(Mutaties(k, b))
  <1>1. \E m \in Mutaties(k, b) : \A i \in Mutaties(k, b) : m >= i
    <2>1. Mutaties(k, b) \in SUBSET (1..Len(Historie[k])) /\ Len(Historie[k]) \in Nat
      BY HistorieType DEF Mutaties
    <2> QED
      BY <2>1, GrootsteBestaat
  <1>2. Max(Mutaties(k, b)) \in Mutaties(k, b)
        /\ \A i \in Mutaties(k, b) : Max(Mutaties(k, b)) >= i
    BY <1>1 DEF Max
  <1> QED
    BY <1>2, LaatsteIsActueel

LEMMA GeenMutatie ==
    ASSUME NEW k \in Sleutels, NEW b, b.van \in Nat, b.tot \in Nat, b.van < b.tot,
           Mutaties(k, b) = {}
    PROVE  Versie(k, b.tot) = Versie(k, b.van)
  <1>1. Voor(k, b.tot) = Voor(k, b.van)
    BY HistorieType DEF Voor, Mutaties
  <1> QED
    BY <1>1 DEF Versie, Voor

(***************************************************************************)
(* The inductive invariant.                                                *)
(***************************************************************************)
StandDelen == UNION {{<<i, g, s>> : g \in levering[i].gebied, s \in Soorten}
                     : i \in DOMAIN levering}
MutatieDelen == UNION {Delen(i) : i \in Toepasbaar}
Gefilterd(k) == k \in Buiten /\ filter

(* What is left over between runs, and when the database has a date.        *)
Rust == /\ Levering(levering)
        /\ pc \in {"klaar", "kies"} => bagInfo = 0
        /\ pc \in {"klaar", "kies", "zoek"} => gezien = {} /\ teLaden = {}
        /\ pc \in {"zoek", "mutaties"} => datum # 0 /\ huidig = datum
Datering == /\ datum # 0 \/ pc = "stand" => reeks
            /\ ~reeks => \A k \in Sleutels : tabel[k] = 0

(* A stand: the files before the one in hand were loaded and have the date  *)
(* of the first, those after it are still to be loaded.                     *)
StandVolgorde ==
    /\ datum = 0 /\ levering # <<>> /\ Eerste.stand
    /\ teLaden \subseteq StandDelen
    /\ \A j \in 1..(bagInfo - 1) : levering[j].van = Eerste.van
    /\ \A d \in StandDelen : /\ d[1] < bagInfo => d \notin teLaden
                             /\ d[1] > bagInfo => d \in teLaden
(* As long as the dates agree what was loaded, or was seen, is in the table.*)
StandInhoud ==
    (bagInfo # 0 => levering[bagInfo].van = Eerste.van) =>
        /\ \A d \in StandDelen \ teLaden : \A k \in Inhoud(d[2]) :
              Soort[k] = d[3] => tabel[k] >= Versie(k, Eerste.van)
        /\ \A k \in gezien : tabel[k] >= Versie(k, Eerste.van)
(* Who has a row was seen, or duplicates cannot occur.                      *)
StandUniek ==
    \A k \in Sleutels : tabel[k] > 0 =>
        IF NegeerDubbel THEN k \in gezien
                        ELSE \A d \in teLaden : d[3] # Soort[k]

(* A round of mutaties: files that start at the date of the database, what  *)
(* was loaded of them, or seen, is at the date they end.                    *)
Ronde ==
    /\ Toepasbaar # {} /\ Ontbreekt = {}
    /\ teLaden \subseteq MutatieDelen
    /\ MutatieDelen \ teLaden # {} => bagInfo \in Toepasbaar
    /\ \A d \in MutatieDelen \ teLaden : \A k \in InDatabase :
          k \in Inhoud(d[2]) => \/ tabel[k] >= Versie(k, levering[d[1]].tot)
                                \/ Gefilterd(k)
    /\ \A k \in gezien \cap InDatabase : \A i \in Toepasbaar :
          tabel[k] >= Versie(k, levering[i].tot) \/ Gefilterd(k)

(* No file of the kind of the first starts where the database is.           *)
NietsOver ==
    levering # <<>> /\ ~Eerste.stand =>
        \A i \in DOMAIN levering :
            ~(/\ ~levering[i].stand
              /\ levering[i].van = datum
              /\ levering[i].gebied = {NLD} <=> Eerste.gebied = {NLD}
              /\ levering[i].gebied = {NLD}
                 \/ levering[i].gebied \cap gemeenten # {})

Inv == /\ TypeOK /\ Rust /\ Datering
       /\ pc = "stand" => StandVolgorde /\ StandInhoud /\ StandUniek
       /\ pc = "mutaties" => Ronde
       /\ pc = "filter" => NietsOver
       /\ NietsGemist /\ GeenDubbel /\ Bijgewerkt

LEMMA LeveringFeit ==
    ASSUME Levering(levering)
    PROVE  /\ Len(levering) \in Nat /\ DOMAIN levering = 1..Len(levering)
           /\ levering # <<>> => 1 \in DOMAIN levering
           /\ \A i \in DOMAIN levering : Bestand(levering[i])
           /\ levering = <<>> => DOMAIN levering = {}
  BY DEF Levering

LEMMA Opdracht ==
    ASSUME opdracht' = opdracht
    PROVE  levering' = levering /\ Eerste' = Eerste
  BY DEF levering, Eerste

LEMMA InitInv == Init => Inv
  <1> SUFFICES ASSUME Init PROVE Inv
    OBVIOUS
  <1> USE DEF Init
  <1>1. levering = <<>> /\ Levering(levering)
    BY DEF levering, Levering, VoorGemeenten
  <1>2. TypeOK
    <2>1. \A k \in Sleutels : tabel[k] = 0 /\ 0 <= Len(Historie[k])
      BY HistorieType
    <2> QED
      BY <2>1 DEF TypeOK, Uitkomsten
  <1>3. Rust /\ Datering
    BY <1>1 DEF Rust, Datering
  <1> QED
    BY <1>1, <1>2, <1>3 DEF Inv, NietsGemist, GeenDubbel, Bijgewerkt

(* A run that ends: the tables keep their rows, the filter can only come.   *)
LEMMA EindeInv ==
    ASSUME Inv, NEW u \in Uitkomsten, Eindig(u),
           u = "ok" => pc = "filter" \/ levering = <<>>,
           dubbel' \subseteq dubbel, UNCHANGED <<tabellen, reeks, datum, gemeenten>>,
           filter' \in {filter, TRUE}, tabel' \in [Sleutels -> Nat],
           \A k \in Sleutels : \/ tabel'[k] = tabel[k]
                               \/ tabel'[k] = 0 /\ k \in Buiten /\ filter'
    PROVE  Inv'
  <1> USE DEF Inv, Eindig
  <1>0. levering' = levering /\ Eerste' = Eerste
    BY Opdracht
  <1>1. TypeOK'
    <2>1. \A k \in Sleutels : tabel'[k] <= Len(Historie[k])
      BY HistorieType DEF TypeOK
    <2> QED
      BY <1>0, <2>1 DEF TypeOK, Uitkomsten
  <1>2. Rust' /\ Datering'
    <2>1. Levering(levering)'
      BY <1>0 DEF Rust, Levering
    <2> QED
      BY <1>0, <2>1 DEF Rust, Datering, TypeOK
  <1>3. NietsGemist'
    BY DEF NietsGemist, TypeOK, InDatabase
  <1>4. GeenDubbel'
    BY DEF GeenDubbel
  <1>5. Bijgewerkt'
    BY <1>0 DEF Bijgewerkt, NietsOver
  <1> QED
    BY <1>1, <1>2, <1>3, <1>4, <1>5

(* Steps that end a run.                                                    *)
LEMMA EindigenInv ==
    ASSUME Inv, NietsTeDoen \/ StandGeweigerd \/ AndereDatum \/ GeenStand \/ Onvolledig
                \/ (\E d \in Volgende : LaadMislukt(d))
                \/ GeenFilter \/ FilterMislukt \/ Storing
    PROVE  Inv'
  <1>1. PICK u \in Uitkomsten :
           /\ Eindig(u)
           /\ u = "ok" => pc = "filter" \/ levering = <<>>
           /\ UNCHANGED <<tabel, dubbel, tabellen, reeks, datum, gemeenten>>
           /\ filter' \in {filter, TRUE}
    <2>1. CASE NietsTeDoen
      BY <2>1 DEF NietsTeDoen, dbVars, Uitkomsten
    <2>2. CASE StandGeweigerd
      BY <2>2 DEF StandGeweigerd, dbVars, Uitkomsten
    <2>3. CASE AndereDatum
      BY <2>3 DEF AndereDatum, dbVars, Uitkomsten
    <2>4. CASE GeenStand
      BY <2>4 DEF GeenStand, dbVars, Uitkomsten
    <2>5. CASE Onvolledig
      BY <2>5 DEF Onvolledig, dbVars, Uitkomsten
    <2>6. CASE \E d \in Volgende : LaadMislukt(d)
      BY <2>6 DEF LaadMislukt, dbVars, Uitkomsten
    <2>7. CASE GeenFilter
      BY <2>7 DEF GeenFilter, dbVars, Uitkomsten
    <2>8. CASE FilterMislukt
      BY <2>8 DEF FilterMislukt, FilterMisschienBewaard, Uitkomsten
    <2>9. CASE Storing
      BY <2>9 DEF Storing, FilterMisschienBewaard, Uitkomsten
    <2> QED
      BY <2>1, <2>2, <2>3, <2>4, <2>5, <2>6, <2>7, <2>8, <2>9
  <1> QED
    BY <1>1, EindeInv DEF Inv, TypeOK

(* Rows outside the filter go, and the metadata say that there is a filter. *)
LEMMA GeoFilterInv ==
    ASSUME Inv, GeoFilter
    PROVE  Inv'
  <1>1. /\ \A k \in Sleutels : \/ tabel'[k] = tabel[k]
                               \/ tabel'[k] = 0 /\ k \in Buiten /\ filter'
        /\ tabel' \in [Sleutels -> Nat]
    BY DEF GeoFilter, Inv, TypeOK
  <1> QED
    BY <1>1, EindeInv DEF GeoFilter, Uitkomsten

(***************************************************************************)
(* Steps that choose what to do.                                           *)
(***************************************************************************)
LEMMA StartInv ==
    ASSUME Inv, NEW o \in Opdrachten, Start(o)
    PROVE  Inv'
  <1>1. Levering(levering)'
    <2>1. levering' = o.levering
      BY DEF Start, levering
    <2>2. Levering(o.levering)
      BY BAG2Aannames
    <2> QED
      BY <2>1, <2>2 DEF Levering
  <1>2. TypeOK'
    BY DEF Start, Inv, TypeOK, Rust, dbVars
  <1>3. Rust' /\ Datering'
    BY <1>1 DEF Start, Inv, Rust, Datering, dbVars
  <1> QED
    BY <1>2, <1>3 DEF Start, Inv, NietsGemist, GeenDubbel, Bijgewerkt, InDatabase, dbVars

LEMMA KiesMutatiesInv ==
    ASSUME Inv, KiesMutaties
    PROVE  Inv'
  <1>0. levering' = levering /\ Eerste' = Eerste
    BY Opdracht DEF KiesMutaties
  <1>1. TypeOK'
    BY <1>0 DEF KiesMutaties, IsMutaties, Inv, TypeOK, dbVars
  <1>2. Rust' /\ Datering'
    BY <1>0 DEF KiesMutaties, IsMutaties, Inv, Rust, Datering, Levering, dbVars
  <1> QED
    BY <1>1, <1>2
       DEF KiesMutaties, Inv, NietsGemist, GeenDubbel, Bijgewerkt, InDatabase, dbVars

(* Nothing applies: there is no file, nor, among the landelijke, a last one.*)
LEMMA NietsToepasbaarInv ==
    ASSUME Inv, NietsToepasbaar
    PROVE  Inv'
  <1>0. levering' = levering /\ Eerste' = Eerste
    BY Opdracht DEF NietsToepasbaar
  <1>1. TypeOK'
    BY <1>0 DEF NietsToepasbaar, Inv, TypeOK, dbVars
  <1>2. Rust' /\ Datering'
    BY <1>0 DEF NietsToepasbaar, Inv, Rust, Datering, Levering, dbVars
  <1>3. NietsOver
    <2> SUFFICES ASSUME levering # <<>>, NEW i \in DOMAIN levering,
                        Aansluitend(i),
                        levering[i].gebied = {NLD} <=> Eerste.gebied = {NLD},
                        levering[i].gebied = {NLD}
                        \/ levering[i].gebied \cap gemeenten # {}
                 PROVE  FALSE
      BY DEF NietsOver, Aansluitend, NietsToepasbaar, Inv, Rust
    <2>1. CASE PerGemeente
      BY <2>1 DEF PerGemeente, Toepasbaar, NietsToepasbaar
    <2>2. CASE ~PerGemeente
      <3> DEFINE S == {j \in DOMAIN levering :
                         Aansluitend(j) /\ levering[j].gebied = {NLD}}
      <3>1. i \in S
        BY <2>2 DEF PerGemeente
      <3>2. S \in SUBSET (1..Len(levering)) /\ Len(levering) \in Nat
        BY LeveringFeit DEF Inv, Rust
      <3>3. PICK m \in S : \A j \in S : m >= j
        <4> HIDE DEF S
        <4> QED
          BY <3>1, <3>2, GrootsteBestaat
      <3>4. \A j \in DOMAIN levering :
               j > m => ~(Aansluitend(j) /\ levering[j].gebied = {NLD})
        BY <3>2, <3>3
      <3>5. m \in Toepasbaar
        BY <2>2, <3>3, <3>4 DEF Toepasbaar
      <3> QED
        BY <3>5 DEF NietsToepasbaar
    <2> QED
      BY <2>1, <2>2
  <1>4. NietsOver'
    BY <1>0, <1>3 DEF NietsOver, NietsToepasbaar, dbVars
  <1> QED
    BY <1>1, <1>2, <1>4
       DEF NietsToepasbaar, Inv, NietsGemist, GeenDubbel, Bijgewerkt, InDatabase, dbVars

(***************************************************************************)
(* A stand.                                                                *)
(***************************************************************************)
LEMMA StandDelenFeit ==
    /\ \A d \in StandDelen : /\ d[1] \in DOMAIN levering
                             /\ d[2] \in levering[d[1]].gebied
                             /\ d[3] \in Soorten
                             /\ d = <<d[1], d[2], d[3]>>
    /\ \A i \in DOMAIN levering : \A g \in levering[i].gebied : \A s \in Soorten :
          <<i, g, s>> \in StandDelen
  BY DEF StandDelen

(* Each file has parts.                                                     *)
LEMMA HeeftDeel ==
    ASSUME Levering(levering), NEW i \in DOMAIN levering
    PROVE  \E d \in StandDelen : d[1] = i
  <1>1. PICK g : g \in levering[i].gebied
    BY LeveringFeit DEF Bestand
  <1>2. PICK s : s \in Soorten
    BY BAG2Aannames DEF Soorten
  <1> QED
    BY <1>1, <1>2, StandDelenFeit

LEMMA KiesStandInv ==
    ASSUME Inv, KiesStand
    PROVE  Inv'
  <1>0. levering' = levering /\ Eerste' = Eerste
    BY Opdracht DEF KiesStand
  <1>1. /\ teLaden' = StandDelen /\ datum' = 0 /\ bagInfo' = 0 /\ gezien' = {}
        /\ pc' = "stand" /\ reeks' /\ levering # <<>> /\ Eerste.stand
        /\ \A k \in Sleutels : tabel'[k] = 0
    BY DEF KiesStand, IsStand, Inv, Rust, Datering, StandDelen
  <1>2. \A d \in StandDelen : d[1] \in DOMAIN levering /\ d[1] > 0 /\ ~(d[1] < 0)
    BY StandDelenFeit, LeveringFeit DEF Inv, Rust
  <1>3. TypeOK'
    BY <1>0, <1>1, <1>2 DEF KiesStand, IsStand, Inv, TypeOK
  <1>4. Rust' /\ Datering'
    BY <1>0, <1>1 DEF Inv, Rust, Datering, Levering
  <1>5. StandDelen' = StandDelen
    BY <1>0 DEF StandDelen
  <1>6. StandVolgorde'
    BY <1>0, <1>1, <1>2, <1>5 DEF StandVolgorde
  <1>7. StandInhoud'
    BY <1>0, <1>1, <1>5 DEF StandInhoud
  <1>8. StandUniek'
    BY <1>1 DEF StandUniek
  <1> QED
    BY <1>1, <1>3, <1>4, <1>6, <1>7, <1>8
       DEF KiesStand, Inv, NietsGemist, GeenDubbel, Bijgewerkt

(* Without more gemeenten there is one part for an object type.             *)
LEMMA EenDeelPerSoort ==
    ASSUME Levering(levering), levering # <<>>, ~NegeerDubbel,
           NEW d \in StandDelen, NEW e \in StandDelen, d[3] = e[3]
    PROVE  d = e
  <1>1. 1 \in DOMAIN levering /\ Len(levering) = 1 /\ Bestand(Eerste)
    BY LeveringFeit DEF NegeerDubbel, Eerste
  <1>2. IsFiniteSet(Eerste.gebied) /\ Eerste.gebied # {}
        /\ ~(Cardinality(Eerste.gebied) > 1)
    BY <1>1 DEF Bestand, NegeerDubbel
  <1>3. Cardinality(Eerste.gebied) = 1
    BY <1>2, FS_EmptySet, FS_CardinalityType
  <1>4. PICK g : Eerste.gebied = {g}
    BY <1>2, <1>3, FS_Singleton
  <1>5. d[1] = 1 /\ e[1] = 1
    BY <1>1, LeveringFeit, StandDelenFeit
  <1>6. d[2] = g /\ e[2] = g
    BY <1>4, <1>5, StandDelenFeit DEF Eerste
  <1> QED
    BY <1>5, <1>6, StandDelenFeit

(* A part is of the file in hand or of the next one, and the next one is    *)
(* begun only when the one in hand has the date of the first.               *)
LEMMA VolgendBestand ==
    ASSUME Levering(levering), TypeOK, StandVolgorde, NEW d \in Volgende,
           GelijkeDatum(d[1] - 1)
    PROVE  /\ d[1] = bagInfo \/ d[1] = bagInfo + 1
           /\ bagInfo # 0 /\ d[1] = bagInfo + 1 => levering[bagInfo].van = Eerste.van
  <1>1. d \in teLaden /\ (\A e \in teLaden : d[1] <= e[1]) /\ d \in StandDelen
    BY DEF Volgende, StandVolgorde
  <1>2. /\ Len(levering) \in Nat /\ DOMAIN levering = 1..Len(levering)
        /\ \A e \in StandDelen : e[1] \in 1..Len(levering)
        /\ bagInfo \in 0..Len(levering)
    BY LeveringFeit, StandDelenFeit DEF TypeOK, StandVolgorde
  <1>3. d[1] >= bagInfo
    BY <1>1, <1>2 DEF StandVolgorde
  <1>4. ASSUME d[1] > bagInfo + 1
        PROVE  FALSE
    <2>1. bagInfo + 1 \in DOMAIN levering
      BY <1>1, <1>2, <1>4
    <2>2. PICK e \in StandDelen : e[1] = bagInfo + 1
      BY <2>1, HeeftDeel
    <2>3. e \in teLaden
      BY <1>2, <2>2 DEF StandVolgorde
    <2> QED
      BY <1>1, <1>2, <1>4, <2>2, <2>3
  <1>5. d[1] = bagInfo \/ d[1] = bagInfo + 1
    BY <1>1, <1>2, <1>3, <1>4
  <1>6. ASSUME bagInfo # 0, d[1] = bagInfo + 1
        PROVE  levering[bagInfo].van = Eerste.van
    <2>1. CASE bagInfo = 1
      BY <2>1 DEF Eerste
    <2>2. CASE bagInfo # 1
      <3>1. bagInfo \in 2..(d[1] - 1) /\ bagInfo - 1 \in 1..(bagInfo - 1)
        BY <1>2, <1>6, <2>2
      <3>2. levering[bagInfo].van = levering[bagInfo - 1].van
        BY <3>1 DEF GelijkeDatum
      <3> QED
        BY <3>1, <3>2 DEF StandVolgorde
    <2> QED
      BY <2>1, <2>2
  <1> QED
    BY <1>5, <1>6

LEMMA LaadStandInv ==
    ASSUME Inv, NEW d \in Volgende, LaadStand(d)
    PROVE  Inv'
  <1> DEFINE b == levering[d[1]]
             objecten == {k \in Inhoud(d[2]) : Soort[k] = d[3] /\ Versie(k, b.van) > 0}
             nieuw == IF NegeerDubbel THEN objecten \ gezien ELSE objecten
  <1>0. levering' = levering /\ Eerste' = Eerste /\ StandDelen' = StandDelen
        /\ NegeerDubbel' = NegeerDubbel
    BY Opdracht DEF LaadStand, StandDelen, NegeerDubbel
  <1>1. /\ pc = "stand" /\ pc' = "stand" /\ GelijkeDatum(d[1] - 1)
        /\ tabel' = [k \in Sleutels |-> IF k \in nieuw THEN Versie(k, b.van) ELSE tabel[k]]
        /\ dubbel' = dubbel \union {k \in nieuw : tabel[k] > 0}
        /\ gezien' = IF NegeerDubbel THEN gezien \union objecten ELSE gezien
        /\ tabellen' = tabellen \union (IF objecten = {} THEN {} ELSE {d[3]})
        /\ teLaden' = teLaden \ {d} /\ bagInfo' = d[1] /\ los' = "bezig"
        /\ UNCHANGED <<reeks, datum, gemeenten, filter, opdracht, huidig, uitkomst>>
    BY DEF LaadStand
  <1>2. /\ TypeOK /\ Rust /\ Datering /\ StandVolgorde /\ StandInhoud /\ StandUniek
        /\ GeenDubbel /\ Levering(levering)
    BY <1>1 DEF Inv, Rust
  <1>3. /\ d \in teLaden /\ \A e \in teLaden : d[1] <= e[1]
        /\ d \in StandDelen
    BY <1>2 DEF Volgende, StandVolgorde
  <1>4. /\ Len(levering) \in Nat /\ DOMAIN levering = 1..Len(levering)
        /\ \A e \in StandDelen : e[1] \in 1..Len(levering)
        /\ bagInfo \in 0..Len(levering)
        /\ b.van \in Nat /\ Eerste.van \in Nat
    BY <1>2, <1>3, LeveringFeit, StandDelenFeit DEF TypeOK, Bestand, Eerste, StandVolgorde
  <1>5. objecten \subseteq Sleutels /\ nieuw \subseteq objecten
    BY DEF Inhoud
  <1>6. \A k \in Sleutels : Versie(k, b.van) \in Nat /\ Versie(k, b.van) <= Len(Historie[k])
                            /\ tabel[k] \in Nat
    BY <1>2, VersieType DEF TypeOK
  <1> HIDE DEF b, objecten, nieuw
  <1>7. /\ d[1] = bagInfo \/ d[1] = bagInfo + 1
        /\ bagInfo # 0 /\ d[1] = bagInfo + 1 => levering[bagInfo].van = Eerste.van
    BY <1>1, <1>2, VolgendBestand
  <1>8. ASSUME bagInfo # 0, d[1] = bagInfo + 1
        PROVE  levering[bagInfo].van = Eerste.van
    BY <1>7, <1>8
  <1>9. StandVolgorde'
    <2>1. \A j \in 1..(d[1] - 1) : levering[j].van = Eerste.van
      BY <1>2, <1>3, <1>4, <1>7, <1>8 DEF StandVolgorde
    <2>2. \A e \in StandDelen : /\ e[1] < d[1] => e \notin teLaden \ {d}
                                /\ e[1] > d[1] => e \in teLaden \ {d}
      BY <1>2, <1>3, <1>4, <1>7 DEF StandVolgorde
    <2> QED
      BY <1>0, <1>1, <1>2, <2>1, <2>2 DEF StandVolgorde
  <1>10. StandInhoud'
    <2> SUFFICES ASSUME b.van = Eerste.van
                 PROVE  /\ \A e \in StandDelen \ (teLaden \ {d}) : \A k \in Inhoud(e[2]) :
                              Soort[k] = e[3] => tabel'[k] >= Versie(k, Eerste.van)
                        /\ \A k \in gezien' : tabel'[k] >= Versie(k, Eerste.van)
      <3>1. (bagInfo' # 0 => levering'[bagInfo'].van = Eerste'.van) <=> b.van = Eerste.van
        BY <1>0, <1>1, <1>3, <1>4 DEF b
      <3> QED
        BY <1>0, <1>1, <3>1 DEF StandInhoud
    <2>1. /\ \A e \in StandDelen \ teLaden : \A k \in Inhoud(e[2]) :
               Soort[k] = e[3] => tabel[k] >= Versie(k, Eerste.van)
          /\ \A k \in gezien : tabel[k] >= Versie(k, Eerste.van)
      BY <1>2, <1>7, <1>8 DEF StandInhoud, b
    <2>2. \A k \in Sleutels : tabel[k] >= Versie(k, Eerste.van)
                                 => tabel'[k] >= Versie(k, Eerste.van)
      BY <1>1, <1>5, <1>6
    <2>3. ASSUME NEW k \in objecten
          PROVE  tabel'[k] >= Versie(k, Eerste.van)
      BY <1>1, <1>5, <1>6, <2>1, <2>3 DEF nieuw
    <2>4. ASSUME NEW k \in Inhoud(d[2]), Soort[k] = d[3]
          PROVE  tabel'[k] >= Versie(k, Eerste.van)
      <3>1. CASE k \in objecten
        BY <2>3, <3>1
      <3>2. CASE k \notin objecten
        BY <1>1, <1>5, <1>6, <2>4, <3>2 DEF objecten, Inhoud
      <3> QED
        BY <3>1, <3>2
    <2> QED
      BY <1>1, <1>2, <2>1, <2>2, <2>3, <2>4 DEF Inhoud, TypeOK
  <1>11. StandUniek'
    <2> SUFFICES ASSUME NEW k \in Sleutels, tabel'[k] > 0
                 PROVE  IF NegeerDubbel THEN k \in gezien'
                        ELSE \A e \in teLaden \ {d} : e[3] # Soort[k]
      BY <1>0, <1>1 DEF StandUniek
    <2>1. CASE NegeerDubbel
      BY <1>1, <1>2, <1>5, <2>1 DEF StandUniek
    <2>2. CASE ~NegeerDubbel
      <3>1. CASE k \in nieuw
        <4>1. Soort[k] = d[3]
          BY <1>5, <3>1 DEF objecten
        <4>2. \A e \in teLaden \ {d} : e \in StandDelen
          BY <1>2 DEF StandVolgorde
        <4> QED
          BY <1>2, <1>3, <2>2, <4>1, <4>2, EenDeelPerSoort DEF StandVolgorde
      <3>2. CASE k \notin nieuw
        BY <1>1, <1>2, <2>2, <3>2 DEF StandUniek
      <3> QED
        BY <3>1, <3>2
    <2> QED
      BY <2>1, <2>2
  <1>12. \A k \in nieuw : ~(tabel[k] > 0)
    BY <1>2, <1>3, <1>5 DEF StandUniek, nieuw, objecten
  <1>13. GeenDubbel'
    BY <1>1, <1>2, <1>12 DEF GeenDubbel
  <1>14. TypeOK'
    <2>1. tabel' \in [Sleutels -> Nat] /\ \A k \in Sleutels : tabel'[k] <= Len(Historie[k])
      BY <1>1, <1>2, <1>6 DEF TypeOK
    <2>2. tabellen' \subseteq Soorten /\ gezien' \subseteq Sleutels
      BY <1>1, <1>2, <1>3, <1>5, StandDelenFeit DEF TypeOK
    <2>3. dubbel' = {}
      BY <1>13 DEF GeenDubbel
    <2> QED
      BY <1>0, <1>1, <1>2, <1>3, <1>4, <2>1, <2>2, <2>3 DEF TypeOK
  <1>15. Rust' /\ Datering'
    BY <1>0, <1>1, <1>2 DEF Rust, Datering, Levering
  <1>16. NietsGemist'
    BY <1>1, <1>2 DEF NietsGemist, StandVolgorde
  <1>17. Bijgewerkt'
    BY <1>1 DEF Bijgewerkt
  <1> QED
    BY <1>1, <1>9, <1>10, <1>11, <1>13, <1>14, <1>15, <1>16, <1>17 DEF Inv

(* The date of the stand is written when all of it is in the tables.        *)
LEMMA StandGeladenInv ==
    ASSUME Inv, StandGeladen
    PROVE  Inv'
  <1>0. levering' = levering /\ Eerste' = Eerste
    BY Opdracht DEF StandGeladen
  <1>1. /\ TypeOK /\ Rust /\ Datering /\ StandVolgorde /\ StandInhoud /\ StandUniek
        /\ GeenDubbel /\ Levering(levering) /\ pc = "stand" /\ teLaden = {}
    BY DEF StandGeladen, Inv, Rust
  <1>2. /\ Len(levering) \in Nat /\ DOMAIN levering = 1..Len(levering)
        /\ Len(levering) \in DOMAIN levering /\ bagInfo \in 0..Len(levering)
    BY <1>1, LeveringFeit DEF TypeOK, StandVolgorde
  <1>3. bagInfo = Len(levering)
    <2>1. PICK d \in StandDelen : d[1] = Len(levering)
      BY <1>1, <1>2, HeeftDeel
    <2>2. ~(Len(levering) > bagInfo)
      BY <1>1, <2>1 DEF StandVolgorde
    <2>3. bagInfo \in Int /\ bagInfo <= Len(levering) /\ Len(levering) \in Int
      BY <1>2
    <2> QED
      BY <2>2, <2>3
  <1>4. levering[bagInfo].van = Eerste.van
    <2>1. CASE bagInfo = 1
      BY <2>1 DEF Eerste
    <2>2. CASE bagInfo # 1
      <3>1. bagInfo \in 2..bagInfo /\ bagInfo - 1 \in 1..(bagInfo - 1)
        BY <1>2, <1>3, <2>2
      <3>2. levering[bagInfo].van = levering[bagInfo - 1].van
        BY <3>1 DEF GelijkeDatum, StandGeladen
      <3> QED
        BY <1>1, <3>1, <3>2 DEF StandVolgorde
    <2> QED
      BY <2>1, <2>2
  <1>5. datum' = Eerste.van /\ Eerste.van \in Nat
    BY <1>1, <1>2, <1>3, <1>4, LeveringFeit DEF StandGeladen, Bestand
  <1>6. TypeOK'
    BY <1>0, <1>1, <1>5 DEF TypeOK, StandGeladen
  <1>7. Rust' /\ Datering'
    BY <1>0, <1>1 DEF Rust, Datering, Levering, StandGeladen
  <1>8. NietsGemist'
    <2> SUFFICES ASSUME NEW k \in Sleutels,
                        NLD \in gemeenten' \/ GemeentenVan[k] \cap gemeenten' # {}
                 PROVE  tabel[k] >= Versie(k, Eerste.van)
      BY <1>5 DEF NietsGemist, InDatabase, StandGeladen
    <2>1. PICK i \in DOMAIN levering : \E g \in levering[i].gebied : k \in Inhoud(g)
      BY DEF Inhoud, StandGeladen
    <2>2. PICK g \in levering[i].gebied : k \in Inhoud(g)
      BY <2>1
    <2>3. <<i, g, Soort[k]>> \in StandDelen \ teLaden
      BY <1>1, <2>2, StandDelenFeit DEF Soorten
    <2> QED
      BY <1>1, <1>4, <2>2, <2>3 DEF StandInhoud
  <1>9. NietsOver'
    BY <1>0, <1>1 DEF NietsOver, StandVolgorde
  <1> QED
    BY <1>1, <1>6, <1>7, <1>8, <1>9 DEF Inv, StandGeladen, GeenDubbel, Bijgewerkt

(***************************************************************************)
(* Mutaties.                                                               *)
(***************************************************************************)
LEMMA MutatieDelenFeit ==
    /\ \A d \in MutatieDelen : /\ d[1] \in Toepasbaar
                               /\ d[2] \in levering[d[1]].gebied
    /\ \A i \in Toepasbaar : \A g \in levering[i].gebied : <<i, g>> \in MutatieDelen
  BY DEF MutatieDelen, Delen

(* The files of a round start at the date reached and end on the same day.  *)
LEMMA ToepasbaarFeit ==
    ASSUME Levering(levering), levering # <<>>
    PROVE  /\ Toepasbaar \subseteq DOMAIN levering
           /\ \A i \in Toepasbaar :
                 /\ levering[i].van = huidig /\ levering[i].van < levering[i].tot
                 /\ levering[i].van \in Nat /\ levering[i].tot \in Nat
           /\ \A i, j \in Toepasbaar : levering[i].tot = levering[j].tot
  <1>1. Toepasbaar \subseteq DOMAIN levering
    BY DEF Toepasbaar
  <1>2. \A i \in Toepasbaar : ~levering[i].stand /\ levering[i].van = huidig
    BY DEF Toepasbaar, Aansluitend
  <1>3. \A i \in Toepasbaar : /\ levering[i].van < levering[i].tot
                              /\ levering[i].van \in Nat /\ levering[i].tot \in Nat
    BY <1>1, <1>2, LeveringFeit DEF Bestand
  <1>4. ASSUME NEW i \in Toepasbaar, NEW j \in Toepasbaar
        PROVE  levering[i].tot = levering[j].tot
    <2>1. CASE PerGemeente
      <3>1. levering[i].gebied # {NLD} /\ levering[j].gebied # {NLD}
        BY <2>1 DEF Toepasbaar
      <3> QED
        BY <1>1, <1>2, <3>1 DEF Levering, VoorGemeenten
    <2>2. CASE ~PerGemeente
      <3>1. ~(j > i) /\ ~(i > j)
        BY <2>2 DEF Toepasbaar
      <3> QED
        BY <1>1, <3>1, LeveringFeit
    <2> QED
      BY <2>1, <2>2
  <1> QED
    BY <1>1, <1>2, <1>3, <1>4

LEMMA PasToeInv ==
    ASSUME Inv, PasToe
    PROVE  Inv'
  <1>0. levering' = levering /\ Eerste' = Eerste
    BY Opdracht DEF PasToe
  <1>1. levering # <<>>
    BY LeveringFeit DEF PasToe, Inv, Rust, Toepasbaar
  <1>2. /\ Toepasbaar' = Toepasbaar /\ InDatabase' = InDatabase /\ Ontbreekt' = Ontbreekt
        /\ MutatieDelen' = MutatieDelen
    BY <1>0 DEF PasToe, Toepasbaar, Aansluitend, PerGemeente, InDatabase, Ontbreekt,
                MutatieDelen, Delen, dbVars
  <1>3. teLaden' = MutatieDelen /\ gezien' = {}
    BY DEF PasToe, MutatieDelen, Inv, Rust
  <1>4. Ronde'
    BY <1>2, <1>3 DEF PasToe, Ronde
  <1>5. TypeOK'
    BY <1>0, <1>1, <1>3, MutatieDelenFeit, ToepasbaarFeit
       DEF PasToe, Inv, Rust, TypeOK, dbVars
  <1>6. Rust' /\ Datering'
    BY <1>0 DEF PasToe, Inv, Rust, Datering, Levering, dbVars
  <1> QED
    BY <1>2, <1>4, <1>5, <1>6
       DEF PasToe, Inv, NietsGemist, GeenDubbel, Bijgewerkt, dbVars

(* What a part does to a row: it stays, because it was skipped or has no    *)
(* mutaties, or becomes at least what it is on the last day of the file.    *)
LEMMA VerwerktFeit ==
    ASSUME NEW d, NEW k \in Sleutels,
           levering[d[1]].van \in Nat, levering[d[1]].tot \in Nat,
           tabel \in [Sleutels -> Nat], tabel[k] <= Len(Historie[k])
    PROVE  /\ Verwerkt(d)[k] \in Nat /\ Verwerkt(d)[k] <= Len(Historie[k])
           /\ \/ /\ Verwerkt(d)[k] = tabel[k]
                 /\ k \notin Geraakt(d) \/ k \in gezien
              \/ Verwerkt(d)[k] >= Versie(k, levering[d[1]].tot)
  <1> DEFINE b == levering[d[1]]
  <1>1. CASE k \in Geraakt(d) /\ ~(k \in Overgeslagen(d) /\ Mutaties(k, b) = {1})
    <2>1. Mutaties(k, b) # {}
      BY <1>1 DEF Geraakt
    <2>2. /\ Max(Mutaties(k, b)) \in Mutaties(k, b)
          /\ Versie(k, b.tot) <= Max(Mutaties(k, b))
      BY <2>1, LaatsteMutatie
    <2>3. Max(Mutaties(k, b)) \in 1..Len(Historie[k])
      BY <2>2, HistorieType DEF Mutaties
    <2>4. Verwerkt(d)[k] = Max(Mutaties(k, b))
      BY <1>1 DEF Verwerkt
    <2> QED
      BY <2>2, <2>3, <2>4, VersieType, HistorieType
  <1>2. CASE ~(k \in Geraakt(d) /\ ~(k \in Overgeslagen(d) /\ Mutaties(k, b) = {1}))
    <2>1. Verwerkt(d)[k] = tabel[k]
      BY <1>2 DEF Verwerkt
    <2>2. k \notin Geraakt(d) \/ k \in gezien
      BY <1>2 DEF Overgeslagen
    <2> QED
      BY <2>1, <2>2
  <1> QED
    BY <1>1, <1>2

LEMMA LaadMutatiesInv ==
    ASSUME Inv, NEW d \in Volgende, LaadMutaties(d)
    PROVE  Inv'
  <1>0. /\ levering' = levering /\ Eerste' = Eerste
        /\ Toepasbaar' = Toepasbaar /\ InDatabase' = InDatabase /\ Ontbreekt' = Ontbreekt
        /\ MutatieDelen' = MutatieDelen
    <2>1. levering' = levering /\ Eerste' = Eerste
      BY Opdracht DEF LaadMutaties
    <2> QED
      BY <2>1 DEF LaadMutaties, Toepasbaar, Aansluitend, PerGemeente, InDatabase,
                  Ontbreekt, MutatieDelen, Delen, metaVars
  <1>1. /\ pc = "mutaties" /\ pc' = "mutaties" /\ tabel' = Verwerkt(d)
        /\ gezien' \subseteq gezien \union Toevoegingen(d) /\ gezien' \subseteq Sleutels
        /\ teLaden' = teLaden \ {d} /\ bagInfo' = d[1] /\ los' \in {"nee", "bezig", "afgebroken"}
        /\ UNCHANGED <<dubbel, tabellen, reeks, datum, gemeenten, filter, opdracht,
                       huidig, uitkomst>>
    BY DEF LaadMutaties, metaVars, Inv, TypeOK, Toevoegingen, Inhoud
  <1>2. /\ TypeOK /\ Rust /\ Datering /\ Ronde /\ NietsGemist /\ Levering(levering)
        /\ levering # <<>>
    BY <1>1, LeveringFeit DEF Inv, Rust, Ronde, Toepasbaar
  <1>3. /\ d \in teLaden /\ d \in MutatieDelen /\ d[1] \in Toepasbaar
        /\ d[1] \in DOMAIN levering
    BY <1>2, MutatieDelenFeit, ToepasbaarFeit DEF Volgende, Ronde
  <1>4. /\ levering[d[1]].van = datum /\ datum \in Nat /\ datum # 0 /\ reeks
        /\ levering[d[1]].tot \in Nat /\ datum < levering[d[1]].tot
        /\ \A i \in Toepasbaar : levering[i].tot = levering[d[1]].tot
    BY <1>1, <1>2, <1>3, ToepasbaarFeit DEF Rust, TypeOK, Datering
  <1> DEFINE tot == levering[d[1]].tot
  <1>5. ASSUME NEW k \in Sleutels
        PROVE  /\ tabel'[k] \in Nat /\ tabel'[k] <= Len(Historie[k]) /\ tabel[k] \in Nat
               /\ \/ /\ tabel'[k] = tabel[k]
                     /\ k \notin Geraakt(d) \/ k \in gezien
                  \/ tabel'[k] >= Versie(k, tot)
               /\ Versie(k, tot) >= Versie(k, datum)
               /\ Versie(k, tot) \in Nat /\ Versie(k, datum) \in Nat
    <2>1. /\ tabel \in [Sleutels -> Nat] /\ tabel[k] <= Len(Historie[k])
          /\ levering[d[1]].van \in Nat /\ levering[d[1]].tot \in Nat
      BY <1>2, <1>4 DEF TypeOK
    <2>2. /\ Verwerkt(d)[k] \in Nat /\ Verwerkt(d)[k] <= Len(Historie[k])
          /\ \/ /\ Verwerkt(d)[k] = tabel[k]
                /\ k \notin Geraakt(d) \/ k \in gezien
             \/ Verwerkt(d)[k] >= Versie(k, levering[d[1]].tot)
      BY <2>1, VerwerktFeit
    <2>3. /\ Versie(k, levering[d[1]].tot) \in Nat /\ Versie(k, datum) \in Nat
          /\ Versie(k, datum) <= Versie(k, levering[d[1]].tot)
      BY <1>4, VersieMonotoon, VersieType
    <2> QED
      BY <1>1, <2>1, <2>2, <2>3
  <1> HIDE DEF tot
  <1>6. tabel' \in [Sleutels -> Nat]
    BY <1>1, <1>5 DEF Verwerkt
  <1>7. NietsGemist'
    BY <1>0, <1>1, <1>2, <1>5 DEF NietsGemist, InDatabase
  <1>8. ASSUME NEW k \in InDatabase, k \in Inhoud(d[2]) \/ k \in gezien
        PROVE  tabel'[k] >= Versie(k, tot) \/ Gefilterd(k)
    <2>1. k \in Sleutels
      BY DEF InDatabase
    <2>2. CASE k \in gezien
      BY <1>2, <1>3, <1>5, <2>1, <2>2 DEF Ronde, tot
    <2>3. CASE k \in Inhoud(d[2]) /\ k \notin gezien
      <3>1. CASE k \in Geraakt(d)
        BY <1>5, <2>1, <2>3, <3>1
      <3>2. CASE k \notin Geraakt(d)
        <4>1. Mutaties(k, levering[d[1]]) = {}
          BY <2>3, <3>2 DEF Geraakt
        <4>2. Versie(k, tot) = Versie(k, datum)
          BY <1>4, <2>1, <4>1, GeenMutatie DEF tot
        <4>3. tabel[k] >= Versie(k, datum) \/ Gefilterd(k)
          BY <1>2, <1>4 DEF NietsGemist, Gefilterd
        <4> QED
          BY <1>5, <2>1, <4>2, <4>3
      <3> QED
        BY <3>1, <3>2
    <2> QED
      BY <1>8, <2>2, <2>3
  <1>9. ASSUME NEW k \in InDatabase, tabel[k] >= Versie(k, tot) \/ Gefilterd(k)
        PROVE  tabel'[k] >= Versie(k, tot) \/ Gefilterd(k)
    BY <1>5, <1>9 DEF InDatabase
  <1>10. Toevoegingen(d) \subseteq Inhoud(d[2])
    BY DEF Toevoegingen
  <1>11. Ronde'
    <2>1. \A e \in MutatieDelen \ (teLaden \ {d}) : \A k \in InDatabase :
             k \in Inhoud(e[2]) => \/ tabel'[k] >= Versie(k, levering[e[1]].tot)
                                   \/ Gefilterd(k)
      <3> SUFFICES ASSUME NEW e \in MutatieDelen \ (teLaden \ {d}), NEW k \in InDatabase,
                          k \in Inhoud(e[2])
                   PROVE  tabel'[k] >= Versie(k, tot) \/ Gefilterd(k)
        BY <1>4, MutatieDelenFeit DEF tot
      <3>1. CASE e = d
        BY <1>8, <3>1
      <3>2. CASE e # d
        <4>1. tabel[k] >= Versie(k, tot) \/ Gefilterd(k)
          BY <1>2, <1>4, <3>2, MutatieDelenFeit DEF Ronde, tot
        <4> QED
          BY <1>9, <4>1
      <3> QED
        BY <3>1, <3>2
    <2>2. \A k \in gezien' \cap InDatabase : \A i \in Toepasbaar :
             tabel'[k] >= Versie(k, levering[i].tot) \/ Gefilterd(k)
      BY <1>1, <1>4, <1>8, <1>10 DEF tot
    <2>3. \A k : Gefilterd(k)' <=> Gefilterd(k)
      BY <1>1 DEF Gefilterd
    <2> QED
      BY <1>0, <1>1, <1>2, <1>3, <2>1, <2>2, <2>3 DEF Ronde
  <1>12. TypeOK'
    BY <1>0, <1>1, <1>2, <1>3, <1>5, <1>6 DEF TypeOK
  <1>13. Rust' /\ Datering'
    BY <1>0, <1>1, <1>2, <1>4 DEF Rust, Datering, Levering
  <1> QED
    BY <1>1, <1>7, <1>11, <1>12, <1>13 DEF Inv, GeenDubbel, Bijgewerkt

(* The date moves when each gemeente of the database had its file.          *)
LEMMA MutatiesGeladenInv ==
    ASSUME Inv, MutatiesGeladen
    PROVE  Inv'
  <1>0. levering' = levering /\ Eerste' = Eerste
    BY Opdracht DEF MutatiesGeladen
  <1>1. /\ TypeOK /\ Rust /\ Datering /\ Ronde /\ Levering(levering)
        /\ pc = "mutaties" /\ teLaden = {} /\ levering # <<>> /\ reeks
    BY LeveringFeit DEF MutatiesGeladen, Inv, Rust, Ronde, Toepasbaar, Datering
  <1>2. PICK i \in Toepasbaar : TRUE
    BY <1>1 DEF Ronde
  <1>3. bagInfo \in Toepasbaar
    <2>1. PICK g : g \in levering[i].gebied
      BY <1>1, ToepasbaarFeit, LeveringFeit DEF Bestand
    <2> QED
      BY <1>1, <2>1, MutatieDelenFeit DEF Ronde
  <1>4. /\ datum' = levering[bagInfo].tot /\ datum' \in Nat /\ datum' # 0 /\ huidig' = datum'
        /\ \A j \in Toepasbaar : levering[j].tot = datum'
    BY <1>1, <1>3, ToepasbaarFeit DEF MutatiesGeladen
  <1>5. ASSUME NEW k \in InDatabase
        PROVE  \E d \in MutatieDelen : k \in Inhoud(d[2])
    <2>1. CASE PerGemeente
      <3>1. \A g \in gemeenten : \E j \in Toepasbaar : g \in levering[j].gebied
        BY <1>1, <2>1 DEF Ronde, Ontbreekt
      <3>2. \A j \in Toepasbaar : NLD \notin levering[j].gebied
        BY <1>1, <2>1, ToepasbaarFeit, LeveringFeit DEF Toepasbaar, Bestand
      <3>3. PICK g \in gemeenten : g \in GemeentenVan[k]
        BY <3>1, <3>2 DEF InDatabase
      <3>4. PICK j \in Toepasbaar : g \in levering[j].gebied
        BY <3>1
      <3>5. <<j, g>> \in MutatieDelen
        BY <3>4, MutatieDelenFeit
      <3> QED
        BY <3>3, <3>5 DEF Inhoud, InDatabase
    <2>2. CASE ~PerGemeente
      <3>1. NLD \in levering[i].gebied
        BY <2>2 DEF Toepasbaar
      <3>2. <<i, NLD>> \in MutatieDelen
        BY <3>1, MutatieDelenFeit
      <3> QED
        BY <3>2 DEF Inhoud, InDatabase
    <2> QED
      BY <2>1, <2>2
  <1>6. ASSUME NEW k \in InDatabase
        PROVE  tabel[k] >= Versie(k, datum') \/ Gefilterd(k)
    <2>1. PICK d \in MutatieDelen : k \in Inhoud(d[2])
      BY <1>5
    <2>2. tabel[k] >= Versie(k, levering[d[1]].tot) \/ Gefilterd(k)
      BY <1>1, <2>1 DEF Ronde
    <2> QED
      BY <1>4, <2>2, MutatieDelenFeit
  <1>7. NietsGemist'
    BY <1>6 DEF NietsGemist, MutatiesGeladen, InDatabase, Gefilterd
  <1>8. TypeOK'
    BY <1>0, <1>1, <1>4 DEF TypeOK, MutatiesGeladen
  <1>9. Rust' /\ Datering'
    BY <1>0, <1>1, <1>4 DEF Rust, Datering, Levering, MutatiesGeladen
  <1> QED
    BY <1>7, <1>8, <1>9 DEF Inv, MutatiesGeladen, GeenDubbel, Bijgewerkt

(***************************************************************************)
(* The theorems.                                                           *)
(***************************************************************************)
LEMMA StapInv == Inv /\ [Next]_vars => Inv'
  <1> SUFFICES ASSUME Inv, [Next]_vars PROVE Inv'
    OBVIOUS
  <1>1. ASSUME NEW o \in Opdrachten, Start(o) PROVE Inv'
    BY <1>1, StartInv
  <1>2. ASSUME NEW d \in Volgende, LaadStand(d) PROVE Inv'
    BY <1>2, LaadStandInv
  <1>3. ASSUME NEW d \in Volgende, LaadMutaties(d) PROVE Inv'
    BY <1>3, LaadMutatiesInv
  <1>4. CASE \/ NietsTeDoen \/ StandGeweigerd \/ AndereDatum \/ GeenStand \/ Onvolledig
             \/ (\E d \in Volgende : LaadMislukt(d))
             \/ GeenFilter \/ FilterMislukt \/ Storing
    BY <1>4, EindigenInv
  <1>5. CASE UNCHANGED vars
    <2>1. levering' = levering /\ Eerste' = Eerste
      BY <1>5, Opdracht DEF vars
    <2>2. /\ StandDelen' = StandDelen /\ MutatieDelen' = MutatieDelen
          /\ InDatabase' = InDatabase /\ Toepasbaar' = Toepasbaar
          /\ Ontbreekt' = Ontbreekt /\ NegeerDubbel' = NegeerDubbel
      BY <1>5, <2>1 DEF vars, dbVars, StandDelen, MutatieDelen, Delen, InDatabase,
         Toepasbaar, Aansluitend, PerGemeente, Ontbreekt, NegeerDubbel
    <2>3. TypeOK' /\ Rust' /\ Datering' /\ NietsGemist' /\ GeenDubbel' /\ Bijgewerkt'
      BY <1>5, <2>1, <2>2 DEF vars, dbVars, begrensd, Inv, TypeOK, Rust, Datering,
         Levering, NietsGemist, GeenDubbel, Bijgewerkt
    <2>4. pc = "stand" => (StandVolgorde /\ StandInhoud /\ StandUniek)'
      BY <1>5, <2>1, <2>2 DEF vars, dbVars, Inv, StandVolgorde, StandInhoud, StandUniek
    <2>5. (pc = "mutaties" => Ronde') /\ (pc = "filter" => NietsOver')
      BY <1>5, <2>1, <2>2 DEF vars, dbVars, Inv, Ronde, NietsOver, Gefilterd
    <2> QED
      BY <1>5, <2>3, <2>4, <2>5 DEF Inv, vars
  <1> QED
    BY <1>1, <1>2, <1>3, <1>4, <1>5, KiesStandInv, StandGeladenInv, KiesMutatiesInv,
       NietsToepasbaarInv, PasToeInv, MutatiesGeladenInv, GeoFilterInv
       DEF Next, Stap

(* What holds underway: a stand is loaded file by file with one date, a     *)
(* round of mutaties consists of files of one period that cover all of the  *)
(* gemeenten, and what was loaded of them is in the tables.                 *)
THEOREM Invariant == Spec => []Inv
  <1> QED
    BY InitInv, StapInv, PTL DEF Spec

(* Every variable keeps its type, no row gets a version that is not there.  *)
THEOREM Types == Spec => []TypeOK
  <1>1. Inv => TypeOK
    BY DEF Inv
  <1> QED
    BY <1>1, Invariant, PTL

(* The technical date in the metadata never claims more than the tables     *)
(* hold, whatever files were given and whatever broke off.                  *)
THEOREM DatumKlopt == Spec => []NietsGemist
  <1>1. Inv => NietsGemist
    BY DEF Inv
  <1> QED
    BY <1>1, Invariant, PTL

(* Objects of several gemeenten are in the tables once.                     *)
THEOREM EenRijPerSleutel == Spec => []GeenDubbel
  <1>1. Inv => GeenDubbel
    BY DEF Inv
  <1> QED
    BY <1>1, Invariant, PTL

(* A run that ended well left no file that starts at the date reached, in   *)
(* whatever order the files were given.                                     *)
THEOREM AllesToegepast == Spec => []Bijgewerkt
  <1>1. Inv => Bijgewerkt
    BY DEF Inv
  <1> QED
    BY <1>1, Invariant, PTL

(***************************************************************************)
(* Nothing newer than the date.  The tables are at most at the technical   *)
(* date, as long as no run broke off between the data and the metadata of  *)
(* a period; together with NietsGemist: exactly at it.                     *)
(***************************************************************************)
NietNieuwer(dag) == \A k \in Sleutels : tabel[k] <= Versie(k, dag)
Geladen == MutatieDelen \ teLaden

(* A run that does not load is not between data and metadata; before the    *)
(* first stand nothing broke off, so neither has it while one is loaded.    *)
Losheid ==
    /\ pc \in {"klaar", "kies", "zoek", "filter"} => los # "bezig"
    /\ ~reeks => los = "nee"
    /\ pc = "stand" => los # "afgebroken" /\ (los = "bezig" => bagInfo # 0)

(* Between data and metadata rows are newer than the date only by what was  *)
(* loaded since the date was written.                                       *)
Bovengrens ==
    /\ los = "nee" => NietNieuwer(datum)
    /\ pc = "stand" /\ los = "bezig" /\ levering[bagInfo].van = Eerste.van
          => NietNieuwer(Eerste.van)
    /\ pc = "mutaties" /\ los = "bezig" =>
          \A k \in Sleutels :
              \/ tabel[k] <= Versie(k, datum)
              \/ \E e \in Geladen : /\ k \in Geraakt(e)
                                    /\ tabel[k] <= Versie(k, levering[e[1]].tot)

(* Where duplicates are looked for all objects added in this round were seen.*)
Ontdubbeld ==
    pc = "mutaties" /\ PerGemeente /\ Cardinality(gemeenten) > 1 =>
        \A e \in Geladen : Toevoegingen(e) \subseteq gezien

(* A run that gets as far as the filter, or ended well, has a date, and     *)
(* leaves nothing outside the filter.                                       *)
Schoon ==
    /\ pc = "filter" => datum # 0
    /\ pc = "klaar" /\ uitkomst = "ok" /\ levering # <<>> =>
          /\ datum # 0
          /\ filter /\ opdracht.wkt # "ongeldig" =>
                \A k \in Sleutels : k \in Buiten => tabel[k] = 0

Grens == Losheid /\ Bovengrens /\ Ontdubbeld /\ Schoon /\ IsFiniteSet(gemeenten)

LEMMA VersieVanNiets ==
    ASSUME NEW k \in Sleutels
    PROVE  Versie(k, 0) = 0
  <1>1. Voor(k, 0) = {}
    BY HistorieType DEF Voor
  <1> QED
    BY <1>1, FS_EmptySet DEF Versie, Voor

(* The history is in order of time: all that comes before a mutatie of a    *)
(* file was done before the file ends.                                      *)
LEMMA LaatsteNietNieuwer ==
    ASSUME NEW k \in Sleutels, NEW b, b.van \in Nat, b.tot \in Nat,
           NEW m \in Mutaties(k, b)
    PROVE  m <= Versie(k, b.tot)
  <1>1. m \in DOMAIN Historie[k] /\ Historie[k][m] < b.tot
    BY DEF Mutaties
  <1>2. m \in Nat /\ m > 0 /\ IsFiniteSet(1..m) /\ Cardinality(1..m) = m
    <2>1. m \in Nat /\ m > 0
      BY <1>1, HistorieType
    <2> QED
      BY <2>1, FS_Interval
  <1>3. ASSUME NEW i \in 1..m
        PROVE  i \in Voor(k, b.tot)
    <2>1. i \in DOMAIN Historie[k] /\ i <= m
      BY <1>1, <1>2, HistorieType
    <2>2. Historie[k][i] <= Historie[k][m]
      <3>1. CASE i = m
        BY <1>1, <3>1, HistorieType
      <3>2. CASE i < m
        BY <1>1, <2>1, <3>2, BAG2Aannames
      <3> QED
        BY <1>2, <2>1, <3>1, <3>2
    <2> QED
      BY <1>1, <2>1, <2>2, HistorieType DEF Voor
  <1>4. (1..m) \in SUBSET Voor(k, b.tot)
    BY <1>3
  <1>5. Cardinality(1..m) <= Cardinality(Voor(k, b.tot))
    <2>1. IsFiniteSet(Voor(k, b.tot))
      BY VersieType
    <2> QED
      BY <1>4, <2>1, FS_Subset
  <1>6. Versie(k, b.tot) = Cardinality(Voor(k, b.tot))
    BY DEF Versie, Voor
  <1> QED
    BY <1>2, <1>5, <1>6

(* An object that is added in a file did not exist when the file starts.    *)
LEMMA NogNiet ==
    ASSUME NEW k \in Sleutels, NEW b, b.van \in Nat, 1 \in Mutaties(k, b)
    PROVE  Versie(k, b.van) = 0
  <1>1. 1 \in DOMAIN Historie[k] /\ b.van <= Historie[k][1]
    BY DEF Mutaties
  <1>2. ASSUME NEW i \in Voor(k, b.van)
        PROVE  FALSE
    <2>1. i \in DOMAIN Historie[k] /\ Historie[k][i] < b.van
      BY DEF Voor
    <2>2. i = 1 \/ 1 < i
      BY <2>1, HistorieType
    <2>3. Historie[k][1] <= Historie[k][i]
      BY <1>1, <2>1, <2>2, HistorieType, BAG2Aannames
    <2> QED
      BY <1>1, <2>1, <2>3, HistorieType
  <1>3. Voor(k, b.van) = {}
    BY <1>2
  <1> QED
    BY <1>3, FS_EmptySet DEF Versie, Voor

LEMMA InitGrens == Init => Grens
  <1> SUFFICES ASSUME Init PROVE Grens
    OBVIOUS
  <1> USE DEF Init
  <1>1. levering = <<>>
    BY DEF levering
  <1>2. NietNieuwer(datum)
    BY VersieVanNiets DEF NietNieuwer
  <1>3. IsFiniteSet(gemeenten)
    BY FS_EmptySet
  <1> QED
    BY <1>1, <1>2, <1>3 DEF Grens, Losheid, Bovengrens, Ontdubbeld, Schoon

(* A run that ends between data and metadata has broken off.                *)
LEMMA EindeGrens ==
    ASSUME Inv, Grens, NEW u, Eindig(u),
           u = "ok" /\ levering # <<>> =>
               /\ pc = "filter"
               /\ filter' /\ opdracht.wkt # "ongeldig" =>
                      \A k \in Sleutels : k \in Buiten => tabel'[k] = 0,
           UNCHANGED <<reeks, datum, gemeenten>>,
           \A k \in Sleutels : tabel'[k] \in {tabel[k], 0}
    PROVE  Grens'
  <1> USE DEF Eindig
  <1>0. levering' = levering
    BY Opdracht
  <1>1. Losheid'
    BY DEF Grens, Losheid, Inv, TypeOK
  <1>2. Bovengrens'
    <2> SUFFICES ASSUME los = "nee"
                 PROVE  NietNieuwer(datum)'
      BY DEF Bovengrens
    <2>1. NietNieuwer(datum)
      BY DEF Grens, Bovengrens
    <2>2. ASSUME NEW k \in Sleutels
          PROVE  tabel'[k] <= Versie(k, datum)
      BY <2>1, VersieType DEF NietNieuwer
    <2> QED
      BY <2>2 DEF NietNieuwer, Versie
  <1>3. Ontdubbeld' /\ Schoon' /\ IsFiniteSet(gemeenten)'
    BY <1>0 DEF Ontdubbeld, Schoon, Grens
  <1> QED
    BY <1>1, <1>2, <1>3 DEF Grens

LEMMA EindigenGrens ==
    ASSUME Inv, Grens,
           \/ NietsTeDoen \/ StandGeweigerd \/ AndereDatum \/ GeenStand \/ Onvolledig
           \/ (\E d \in Volgende : LaadMislukt(d))
           \/ GeoFilter \/ GeenFilter \/ FilterMislukt \/ Storing
    PROVE  Grens'
  <1>1. CASE GeoFilter
    <2>1. \A k \in Sleutels : /\ tabel'[k] \in {tabel[k], 0}
                              /\ k \in Buiten => tabel'[k] = 0
      BY <1>1 DEF GeoFilter
    <2> QED
      BY <1>1, <2>1, EindeGrens DEF GeoFilter
  <1>2. CASE GeenFilter
    <2>1. /\ opdracht.wkt # "ongeldig" => ~filter
          /\ UNCHANGED <<reeks, datum, gemeenten, filter, tabel>> /\ Eindig("ok") /\ pc = "filter"
      <3>1. pc # "klaar" /\ opdracht \in Opdrachten
        BY <1>2 DEF GeenFilter, Inv, TypeOK
      <3>2. opdracht.wkt \in {"geen", "filter", "ongeldig"}
        BY <3>1, BAG2Aannames
      <3> QED
        BY <1>2, <3>2 DEF GeenFilter, TeFilteren, dbVars
    <2> QED
      BY <2>1, EindeGrens
  <1>3. CASE \/ NietsTeDoen \/ StandGeweigerd \/ AndereDatum \/ GeenStand \/ Onvolledig
             \/ (\E d \in Volgende : LaadMislukt(d)) \/ FilterMislukt \/ Storing
    <2>1. \E u : /\ Eindig(u)
                 /\ u = "ok" => levering = <<>>
                 /\ UNCHANGED <<tabel, reeks, datum, gemeenten>>
      <3>1. CASE NietsTeDoen
        BY <3>1 DEF NietsTeDoen, dbVars
      <3>2. CASE StandGeweigerd
        BY <3>2 DEF StandGeweigerd, dbVars
      <3>3. CASE AndereDatum
        BY <3>3 DEF AndereDatum, dbVars
      <3>4. CASE GeenStand
        BY <3>4 DEF GeenStand, dbVars
      <3>5. CASE Onvolledig
        BY <3>5 DEF Onvolledig, dbVars
      <3>6. CASE \E d \in Volgende : LaadMislukt(d)
        BY <3>6 DEF LaadMislukt, dbVars
      <3>7. CASE FilterMislukt
        BY <3>7 DEF FilterMislukt
      <3>8. CASE Storing
        BY <3>8 DEF Storing
      <3> QED
        BY <1>3, <3>1, <3>2, <3>3, <3>4, <3>5, <3>6, <3>7, <3>8
    <2> QED
      BY <2>1, EindeGrens
  <1> QED
    BY <1>1, <1>2, <1>3

(* Steps that choose: the tables stay, and nothing was loaded yet.          *)
LEMMA KiesGrens ==
    ASSUME Inv, Grens, UNCHANGED <<tabel, datum, gemeenten, filter, los>>,
           \/ pc' = "kies" /\ pc = "klaar" /\ UNCHANGED reeks
           \/ pc' = "zoek" /\ pc = "kies" /\ UNCHANGED reeks
           \/ pc' = "filter" /\ pc = "zoek" /\ UNCHANGED reeks
           \/ pc' = "stand" /\ pc = "kies" /\ ~reeks /\ reeks'
           \/ pc' = "mutaties" /\ pc = "zoek" /\ Geladen' = {} /\ UNCHANGED reeks
    PROVE  Grens'
  <1>1. Losheid' /\ los' # "bezig"
    BY DEF Grens, Losheid
  <1>2. los' = "nee" => NietNieuwer(datum)'
    BY DEF Grens, Bovengrens, NietNieuwer, Versie
  <1>3. Bovengrens'
    BY <1>1, <1>2 DEF Bovengrens
  <1>4. Ontdubbeld'
    BY DEF Ontdubbeld
  <1>5. Schoon' /\ IsFiniteSet(gemeenten)'
    BY DEF Schoon, Grens, Inv, Rust
  <1> QED
    BY <1>1, <1>3, <1>4, <1>5 DEF Grens

LEMMA KiezenGrens ==
    ASSUME Inv, Grens,
           \/ (\E o \in Opdrachten : Start(o)) \/ KiesStand \/ KiesMutaties
           \/ NietsToepasbaar \/ PasToe
    PROVE  Grens'
  <1>1. CASE \E o \in Opdrachten : Start(o)
    BY <1>1, KiesGrens DEF Start, dbVars
  <1>2. CASE KiesStand
    BY <1>2, KiesGrens DEF KiesStand, IsStand
  <1>3. CASE KiesMutaties
    BY <1>3, KiesGrens DEF KiesMutaties, IsMutaties, dbVars
  <1>4. CASE NietsToepasbaar
    BY <1>4, KiesGrens DEF NietsToepasbaar, dbVars
  <1>5. CASE PasToe
    <2>1. levering' = levering /\ Eerste' = Eerste
      BY <1>5, Opdracht DEF PasToe
    <2>2. Geladen' = {}
      BY <1>5, <2>1 DEF PasToe, Geladen, MutatieDelen, Delen, Toepasbaar, Aansluitend,
                        PerGemeente, dbVars
    <2> QED
      BY <1>5, <2>2, KiesGrens DEF PasToe, dbVars
  <1> QED
    BY <1>1, <1>2, <1>3, <1>4, <1>5

LEMMA LaadStandGrens ==
    ASSUME Inv, Grens, NEW d \in Volgende, LaadStand(d)
    PROVE  Grens'
  <1> DEFINE b == levering[d[1]]
  <1>0. levering' = levering /\ Eerste' = Eerste
    BY Opdracht DEF LaadStand
  <1>1. /\ pc = "stand" /\ pc' = "stand" /\ bagInfo' = d[1] /\ los' = "bezig"
        /\ \A k \in Sleutels : tabel'[k] \in {tabel[k], Versie(k, b.van)}
        /\ UNCHANGED <<reeks, datum, gemeenten, filter>> /\ GelijkeDatum(d[1] - 1)
    BY DEF LaadStand
  <1>2. /\ StandVolgorde /\ StandInhoud /\ Levering(levering) /\ TypeOK /\ reeks /\ datum = 0
        /\ los \in {"nee", "bezig"}
    BY <1>1 DEF Inv, Rust, Datering, Grens, Losheid, TypeOK, StandVolgorde
  <1>3. /\ d \in StandDelen /\ d[1] \in 1..Len(levering) /\ Len(levering) \in Nat
        /\ bagInfo \in 0..Len(levering) /\ Eerste.van \in Nat
    BY <1>2, LeveringFeit, StandDelenFeit
       DEF Volgende, StandVolgorde, TypeOK, Eerste, Bestand
  <1>4. ASSUME b.van = Eerste.van, los = "bezig"
        PROVE  levering[bagInfo].van = Eerste.van
    <2>1. bagInfo # 0
      BY <1>1, <1>4 DEF Grens, Losheid
    <2> QED
      BY <1>1, <1>2, <1>4, <2>1, VolgendBestand
  <1>5. ASSUME b.van = Eerste.van
        PROVE  NietNieuwer(Eerste.van)'
    <2>1. ASSUME NEW k \in Sleutels
          PROVE  tabel[k] <= Versie(k, Eerste.van)
      <3>1. CASE los = "bezig"
        BY <1>1, <1>4, <1>5, <3>1 DEF Grens, Bovengrens, NietNieuwer
      <3>2. CASE los = "nee"
        <4>1. tabel[k] <= Versie(k, 0)
          BY <1>2, <3>2 DEF Grens, Bovengrens, NietNieuwer
        <4>2. tabel[k] \in Nat /\ Versie(k, Eerste.van) \in Nat
          BY <1>2, VersieType DEF TypeOK
        <4> QED
          BY <4>1, <4>2, VersieVanNiets
      <3> QED
        BY <1>2, <3>1, <3>2
    <2>2. \A k \in Sleutels : Versie(k, Eerste.van) \in Nat
      BY VersieType
    <2> QED
      BY <1>0, <1>1, <1>5, <2>1, <2>2 DEF NietNieuwer, Versie
  <1>6. Bovengrens'
    BY <1>0, <1>1, <1>5 DEF Bovengrens, NietNieuwer, Versie
  <1>7. Losheid'
    BY <1>1, <1>2, <1>3 DEF Losheid
  <1> QED
    BY <1>1, <1>2, <1>6, <1>7 DEF Grens, Ontdubbeld, Schoon

(* In the stand of the database each file had the date of the first.        *)
LEMMA StandDatum ==
    ASSUME Inv, StandGeladen
    PROVE  /\ bagInfo \in DOMAIN levering /\ levering[bagInfo].van = Eerste.van
           /\ Eerste.van \in Nat \ {0}
           /\ \A i \in DOMAIN levering : IsFiniteSet(levering[i].gebied)
           /\ Len(levering) \in Nat /\ DOMAIN levering = 1..Len(levering)
  <1>1. /\ TypeOK /\ StandVolgorde /\ Levering(levering) /\ teLaden = {}
    BY DEF StandGeladen, Inv, Rust
  <1>2. /\ Len(levering) \in Nat /\ DOMAIN levering = 1..Len(levering)
        /\ Len(levering) \in DOMAIN levering /\ bagInfo \in 0..Len(levering)
        /\ \A i \in DOMAIN levering : IsFiniteSet(levering[i].gebied)
        /\ Eerste.van \in Nat \ {0}
    BY <1>1, LeveringFeit DEF TypeOK, StandVolgorde, Bestand, Eerste
  <1>3. PICK d \in StandDelen : d[1] = Len(levering)
    BY <1>1, <1>2, HeeftDeel
  <1>4. ~(Len(levering) > bagInfo)
    BY <1>1, <1>3 DEF StandVolgorde
  <1>5. bagInfo = Len(levering)
    <2>1. bagInfo \in Int /\ bagInfo <= Len(levering) /\ Len(levering) \in Int
      BY <1>2
    <2> QED
      BY <1>4, <2>1
  <1>6. CASE bagInfo = 1
    BY <1>2, <1>5, <1>6 DEF Eerste
  <1>7. CASE bagInfo # 1
    <2>1. bagInfo \in 2..bagInfo /\ bagInfo - 1 \in 1..(bagInfo - 1)
      BY <1>2, <1>5, <1>7
    <2>2. levering[bagInfo].van = levering[bagInfo - 1].van
      BY <2>1 DEF GelijkeDatum, StandGeladen
    <2> QED
      BY <1>1, <1>2, <1>5, <2>1, <2>2 DEF StandVolgorde
  <1> QED
    BY <1>6, <1>7

LEMMA StandGeladenGrens ==
    ASSUME Inv, Grens, StandGeladen
    PROVE  Grens'
  <1>1. /\ datum' = Eerste.van /\ datum' \in Nat \ {0} /\ pc = "stand" /\ pc' = "filter"
        /\ reeks /\ datum = 0 /\ los \in {"nee", "bezig"} /\ los' = "nee"
        /\ UNCHANGED <<tabel, reeks, filter>> /\ TypeOK
    BY StandDatum DEF StandGeladen, Inv, Datering, StandVolgorde, Grens, Losheid, TypeOK
  <1>2. ASSUME NEW k \in Sleutels
        PROVE  tabel[k] <= Versie(k, datum')
    <2>1. CASE los = "bezig"
      BY <1>1, <2>1, StandDatum DEF Grens, Bovengrens, NietNieuwer
    <2>2. CASE los = "nee"
      <3>1. tabel[k] <= 0 /\ tabel[k] \in Nat /\ Versie(k, datum') \in Nat
        BY <1>1, <2>2, VersieVanNiets, VersieType DEF Grens, Bovengrens, NietNieuwer, TypeOK
      <3> QED
        BY <3>1
    <2> QED
      BY <1>1, <2>1, <2>2
  <1>3. Bovengrens'
    BY <1>1, <1>2 DEF Bovengrens, NietNieuwer, Versie
  <1>4. IsFiniteSet(gemeenten')
    <2> DEFINE gebieden == {levering[i].gebied : i \in DOMAIN levering}
    <2>1. IsFiniteSet(DOMAIN levering)
      BY StandDatum, FS_Interval
    <2>2. IsFiniteSet(gebieden)
      <3>1. [i \in DOMAIN levering |-> levering[i].gebied]
                \in Surjection(DOMAIN levering, gebieden)
        BY DEF Surjection
      <3> QED
        BY <2>1, <3>1, FS_Surjection
    <2>3. \A g \in gebieden : IsFiniteSet(g)
      BY StandDatum
    <2>4. gemeenten' = UNION gebieden
      BY DEF StandGeladen
    <2> HIDE DEF gebieden
    <2> QED
      BY <2>2, <2>3, <2>4, FS_UNION
  <1> QED
    BY <1>1, <1>3, <1>4 DEF Grens, Losheid, Ontdubbeld, Schoon

(* All parts of a round are about the same days.                            *)
LEMMA RondeFeit ==
    ASSUME Inv, pc = "mutaties"
    PROVE  /\ levering # <<>> /\ Levering(levering) /\ datum \in Nat /\ datum # 0 /\ reeks
           /\ Toepasbaar # {} /\ Toepasbaar \subseteq DOMAIN levering
           /\ \A d \in MutatieDelen :
                 /\ d[1] \in Toepasbaar /\ d[2] \in levering[d[1]].gebied
                 /\ levering[d[1]].van = datum
                 /\ levering[d[1]].tot \in Nat /\ datum < levering[d[1]].tot
           /\ \A d, e \in MutatieDelen :
                 /\ levering[d[1]].tot = levering[e[1]].tot
                 /\ \A k \in Sleutels :
                       Mutaties(k, levering[d[1]]) = Mutaties(k, levering[e[1]])
           /\ teLaden \subseteq MutatieDelen
  <1>1. /\ levering # <<>> /\ Levering(levering) /\ datum \in Nat /\ datum # 0 /\ reeks
        /\ Toepasbaar # {} /\ huidig = datum /\ teLaden \subseteq MutatieDelen
    BY LeveringFeit DEF Inv, Rust, Ronde, Toepasbaar, TypeOK, Datering
  <1>2. /\ Toepasbaar \subseteq DOMAIN levering
        /\ \A d \in MutatieDelen :
              /\ d[1] \in Toepasbaar /\ d[2] \in levering[d[1]].gebied
              /\ levering[d[1]].van = datum
              /\ levering[d[1]].tot \in Nat /\ datum < levering[d[1]].tot
        /\ \A d, e \in MutatieDelen : levering[d[1]].tot = levering[e[1]].tot
    BY <1>1, ToepasbaarFeit, MutatieDelenFeit
  <1>3. \A d, e \in MutatieDelen : \A k \in Sleutels :
           Mutaties(k, levering[d[1]]) = Mutaties(k, levering[e[1]])
    BY <1>2 DEF Mutaties
  <1> QED
    BY <1>1, <1>2, <1>3

(* What a part does to a row: it stays, or has mutaties in the part and     *)
(* becomes no newer than the file.                                          *)
LEMMA VerwerktGrens ==
    ASSUME NEW d, NEW k \in Sleutels,
           levering[d[1]].van \in Nat, levering[d[1]].tot \in Nat
    PROVE  \/ Verwerkt(d)[k] = tabel[k]
           \/ k \in Geraakt(d) /\ Verwerkt(d)[k] <= Versie(k, levering[d[1]].tot)
  <1>1. CASE k \in Geraakt(d) /\ Verwerkt(d)[k] = Max(Mutaties(k, levering[d[1]]))
    <2>1. Mutaties(k, levering[d[1]]) # {}
      BY <1>1 DEF Geraakt
    <2> QED
      BY <1>1, <2>1, LaatsteMutatie, LaatsteNietNieuwer
  <1>2. CASE ~(k \in Geraakt(d) /\ Verwerkt(d)[k] = Max(Mutaties(k, levering[d[1]])))
    BY <1>2 DEF Verwerkt
  <1> QED
    BY <1>1, <1>2

LEMMA LaadMutatiesGrens ==
    ASSUME Inv, Grens, NEW d \in Volgende, LaadMutaties(d)
    PROVE  Grens'
  <1>0. /\ levering' = levering /\ Toepasbaar' = Toepasbaar /\ PerGemeente' = PerGemeente
        /\ MutatieDelen' = MutatieDelen
    <2>1. levering' = levering /\ Eerste' = Eerste
      BY Opdracht DEF LaadMutaties
    <2> QED
      BY <2>1 DEF LaadMutaties, Toepasbaar, Aansluitend, PerGemeente, MutatieDelen, Delen,
                  metaVars
  <1>1. /\ pc = "mutaties" /\ pc' = "mutaties" /\ tabel' = Verwerkt(d)
        /\ gezien' = IF PerGemeente /\ Cardinality(gemeenten) > 1
                     THEN gezien \union Toevoegingen(d) ELSE gezien
        /\ teLaden' = teLaden \ {d} /\ los' = IF los = "nee" THEN "bezig" ELSE los
        /\ UNCHANGED <<reeks, datum, gemeenten, filter>>
    BY DEF LaadMutaties, metaVars
  <1>2. /\ d \in teLaden /\ d \in MutatieDelen /\ Geladen' = Geladen \union {d}
        /\ datum \in Nat /\ reeks
        /\ levering[d[1]].van \in Nat /\ levering[d[1]].tot \in Nat
    BY <1>0, <1>1, RondeFeit DEF Volgende, Geladen
  <1>3. \A e : Geraakt(e)' = Geraakt(e) /\ Toevoegingen(e)' = Toevoegingen(e)
    BY <1>0 DEF Geraakt, Toevoegingen, Inhoud, Mutaties
  <1>4. ASSUME NEW k \in Sleutels, los # "afgebroken"
        PROVE  \/ tabel'[k] <= Versie(k, datum)
               \/ \E e \in Geladen' : /\ k \in Geraakt(e)
                                      /\ tabel'[k] <= Versie(k, levering[e[1]].tot)
    <2>1. CASE tabel'[k] = tabel[k]
      <3>1. CASE los = "nee"
        BY <1>4, <2>1, <3>1 DEF Grens, Bovengrens, NietNieuwer
      <3>2. CASE los = "bezig"
        BY <1>1, <1>2, <2>1, <3>2 DEF Grens, Bovengrens
      <3> QED
        BY <1>4, <3>1, <3>2 DEF Inv, TypeOK
    <2>2. CASE tabel'[k] # tabel[k]
      <3>1. k \in Geraakt(d) /\ tabel'[k] <= Versie(k, levering[d[1]].tot)
        BY <1>1, <1>2, <2>2, VerwerktGrens
      <3> QED
        BY <1>2, <3>1
    <2> QED
      BY <2>1, <2>2
  <1>5. Bovengrens'
    BY <1>0, <1>1, <1>3, <1>4 DEF Bovengrens, Versie
  <1>6. Ontdubbeld'
    BY <1>0, <1>1, <1>2, <1>3 DEF Ontdubbeld, Grens
  <1> QED
    BY <1>1, <1>2, <1>5, <1>6 DEF Grens, Losheid, Schoon

LEMMA MutatiesGeladenGrens ==
    ASSUME Inv, Grens, MutatiesGeladen
    PROVE  Grens'
  <1>1. /\ pc = "mutaties" /\ pc' = "zoek" /\ teLaden = {}
        /\ los' = IF los = "bezig" THEN "nee" ELSE los
        /\ UNCHANGED <<tabel, reeks, gemeenten>> /\ datum' = levering[bagInfo].tot
    BY DEF MutatiesGeladen
  <1>2. /\ bagInfo \in Toepasbaar /\ \E d \in MutatieDelen : d[1] = bagInfo
    <2>1. PICK i \in Toepasbaar : i \in DOMAIN levering
      BY <1>1, RondeFeit
    <2>2. PICK g : g \in levering[i].gebied
      BY <1>1, <2>1, RondeFeit, LeveringFeit DEF Bestand
    <2>3. bagInfo \in Toepasbaar
      BY <1>1, <2>1, <2>2, MutatieDelenFeit DEF Inv, Ronde
    <2>4. PICK h : h \in levering[bagInfo].gebied
      BY <1>1, <2>3, RondeFeit, LeveringFeit DEF Bestand
    <2>5. <<bagInfo, h>> \in MutatieDelen
      BY <2>3, <2>4, MutatieDelenFeit
    <2> QED
      BY <2>3, <2>5
  <1>3. /\ datum \in Nat /\ datum' \in Nat /\ datum < datum' /\ reeks
        /\ \A d \in MutatieDelen : levering[d[1]].tot = datum'
    BY <1>1, <1>2, RondeFeit
  <1>4. ASSUME NEW k \in Sleutels, los # "afgebroken"
        PROVE  tabel[k] <= Versie(k, datum')
    <2> DEFINE later == datum'
    <2>1. /\ Versie(k, datum) \in Nat /\ Versie(k, later) \in Nat /\ tabel[k] \in Nat
          /\ Versie(k, datum) <= Versie(k, later)
      <3>1. later \in Nat /\ datum <= later
        BY <1>3
      <3> HIDE DEF later
      <3> QED
        BY <1>3, <3>1, VersieType, VersieMonotoon DEF Inv, TypeOK
    <2>2. CASE los = "nee"
      BY <2>1, <2>2 DEF Grens, Bovengrens, NietNieuwer
    <2>3. CASE los = "bezig"
      BY <1>1, <1>3, <2>1, <2>3 DEF Grens, Bovengrens, Geladen
    <2> QED
      BY <1>4, <2>2, <2>3 DEF Inv, TypeOK
  <1>5. Bovengrens'
    BY <1>1, <1>4 DEF Bovengrens, NietNieuwer, Versie
  <1> QED
    BY <1>1, <1>3, <1>5 DEF Grens, Losheid, Ontdubbeld, Schoon

LEMMA StapGrens == Inv /\ Grens /\ [Next]_vars => Grens'
  <1> SUFFICES ASSUME Inv, Grens, [Next]_vars PROVE Grens'
    OBVIOUS
  <1>1. ASSUME NEW d \in Volgende, LaadStand(d) PROVE Grens'
    BY <1>1, LaadStandGrens
  <1>2. ASSUME NEW d \in Volgende, LaadMutaties(d) PROVE Grens'
    BY <1>2, LaadMutatiesGrens
  <1>3. CASE \/ NietsTeDoen \/ StandGeweigerd \/ AndereDatum \/ GeenStand \/ Onvolledig
             \/ (\E d \in Volgende : LaadMislukt(d))
             \/ GeoFilter \/ GeenFilter \/ FilterMislukt \/ Storing
    BY <1>3, EindigenGrens
  <1>4. CASE \/ (\E o \in Opdrachten : Start(o)) \/ KiesStand \/ KiesMutaties
             \/ NietsToepasbaar \/ PasToe
    BY <1>4, KiezenGrens
  <1>5. CASE UNCHANGED vars
    <2>1. /\ levering' = levering /\ Eerste' = Eerste
      BY <1>5, Opdracht DEF vars
    <2>2. /\ Geladen' = Geladen /\ PerGemeente' = PerGemeente
          /\ \A e : Geraakt(e)' = Geraakt(e) /\ Toevoegingen(e)' = Toevoegingen(e)
      BY <1>5, <2>1 DEF vars, dbVars, Geladen, MutatieDelen, Delen, Toepasbaar,
         Aansluitend, PerGemeente, Geraakt, Toevoegingen, Inhoud, Mutaties
    <2>3. Bovengrens'
      BY <1>5, <2>1, <2>2 DEF vars, dbVars, Grens, Bovengrens, NietNieuwer, Versie
    <2>4. Losheid' /\ Ontdubbeld' /\ Schoon' /\ IsFiniteSet(gemeenten')
      BY <1>5, <2>1, <2>2 DEF vars, dbVars, Grens, Losheid, Ontdubbeld, Schoon
    <2> QED
      BY <2>3, <2>4 DEF Grens
  <1> QED
    BY <1>1, <1>2, <1>3, <1>4, <1>5, StandGeladenGrens, MutatiesGeladenGrens DEF Next, Stap

LEMMA Samen == Spec => [](Inv /\ Grens)
  <1>1. Init => Inv /\ Grens
    BY InitInv, InitGrens
  <1>2. Inv /\ Grens /\ [Next]_vars => (Inv /\ Grens)'
    BY StapInv, StapGrens
  <1> QED
    BY <1>1, <1>2, PTL DEF Spec

(* After a run that ended well, no run having broken off between data and   *)
(* metadata, the tables are exactly those of the technical date: at least   *)
(* (NietsGemist), at most (Bovengrens), and nothing outside the filter.     *)
THEOREM PreciesOpDatum == Spec => []Actueel
  <1>1. Inv /\ Grens => Actueel
    <2> SUFFICES ASSUME Inv, Grens, pc = "klaar", uitkomst = "ok", los # "afgebroken",
                        opdracht.wkt # "ongeldig", levering # <<>>, NEW k \in InDatabase
                 PROVE  tabel[k] = IF filter /\ k \in Buiten THEN 0 ELSE Versie(k, datum)
      BY DEF Actueel
    <2>1. k \in Sleutels /\ tabel[k] \in Nat /\ Versie(k, datum) \in Nat
      BY VersieType DEF InDatabase, Inv, TypeOK
    <2>2. datum # 0 /\ (filter /\ k \in Buiten => tabel[k] = 0)
      BY <2>1 DEF Grens, Schoon
    <2>3. tabel[k] >= Versie(k, datum) \/ (k \in Buiten /\ filter)
      BY <2>2 DEF Inv, NietsGemist
    <2>4. los = "nee"
      BY DEF Grens, Losheid, Inv, TypeOK
    <2>5. tabel[k] <= Versie(k, datum)
      BY <2>1, <2>4 DEF Grens, Bovengrens, NietNieuwer
    <2> QED
      BY <2>1, <2>2, <2>3, <2>5
  <1> QED
    BY <1>1, Samen, PTL

(* An object that a part adds, while it has a row and nothing broke off, was*)
(* added by another part of this round: before the date it did not exist.   *)
LEMMA EerderToegevoegd ==
    ASSUME Inv, Grens, pc = "mutaties", los # "afgebroken",
           NEW d \in teLaden, NEW k \in Toevoegingen(d), tabel[k] > 0
    PROVE  \E e \in Geladen : e # d /\ k \in Toevoegingen(e)
  <1>1. /\ d \in MutatieDelen /\ k \in Sleutels /\ 1 \in Mutaties(k, levering[d[1]])
        /\ levering[d[1]].van = datum /\ datum \in Nat /\ tabel[k] \in Nat
    BY RondeFeit DEF Toevoegingen, Inhoud, Inv, TypeOK
  <1>2. Versie(k, datum) = 0
    BY <1>1, NogNiet
  <1>3. ~(tabel[k] <= Versie(k, datum))
    BY <1>1, <1>2
  <1>4. los = "bezig"
    BY <1>1, <1>3 DEF Grens, Bovengrens, NietNieuwer, Inv, TypeOK
  <1>5. PICK e \in Geladen : k \in Geraakt(e)
    BY <1>1, <1>3, <1>4 DEF Grens, Bovengrens
  <1>6. e # d /\ e \in MutatieDelen
    BY DEF Geladen
  <1>7. k \in Inhoud(e[2]) /\ 1 \in Mutaties(k, levering[e[1]])
    BY <1>1, <1>5, <1>6, RondeFeit DEF Geraakt
  <1> QED
    BY <1>6, <1>7 DEF Toevoegingen

(* Two parts in a round without removal of duplicates: the database is of a *)
(* single gemeente.                                                         *)
LEMMA TweeDelen ==
    ASSUME Inv, Grens, pc = "mutaties", ~(PerGemeente /\ Cardinality(gemeenten) > 1),
           NEW d \in MutatieDelen, NEW e \in MutatieDelen, d # e
    PROVE  NietOntdubbeld
  <1>1. /\ Levering(levering) /\ levering # <<>> /\ Toepasbaar \subseteq DOMAIN levering
        /\ d[1] \in Toepasbaar /\ d[2] \in levering[d[1]].gebied
        /\ e[1] \in Toepasbaar /\ e[2] \in levering[e[1]].gebied
        /\ d = <<d[1], d[2]>> /\ e = <<e[1], e[2]>>
        /\ Len(levering) \in Nat /\ DOMAIN levering = 1..Len(levering)
    BY RondeFeit, LeveringFeit DEF MutatieDelen, Delen
  <1>2. PerGemeente
    <2> SUFFICES ASSUME ~PerGemeente PROVE FALSE
      OBVIOUS
    <2>1. levering[d[1]].gebied = {NLD} /\ levering[e[1]].gebied = {NLD}
          /\ ~(d[1] > e[1]) /\ ~(e[1] > d[1])
      BY <1>1 DEF Toepasbaar
    <2>2. d[1] = e[1] /\ d[2] = e[2]
      BY <1>1, <2>1
    <2> QED
      BY <1>1, <2>2
  <1>3. Cardinality(gemeenten) = 1
    <2>1. gemeenten # {}
      BY <1>1, <1>2 DEF Toepasbaar
    <2>2. IsFiniteSet(gemeenten)
      BY DEF Grens
    <2>3. Cardinality(gemeenten) \in Nat /\ Cardinality(gemeenten) # 0
      BY <2>1, <2>2, FS_CardinalityType, FS_EmptySet
    <2> QED
      BY <1>2, <2>3
  <1>4. IsFiniteSet(MutatieDelen)
    <2>1. IsFiniteSet(Toepasbaar)
      <3>1. IsFiniteSet(1..Len(levering))
        BY <1>1, FS_Interval
      <3> QED
        BY <1>1, <3>1, FS_Subset
    <2>2. ASSUME NEW i \in Toepasbaar
          PROVE  IsFiniteSet(Delen(i))
      <3>1. IsFiniteSet(levering[i].gebied)
        BY <1>1, LeveringFeit DEF Bestand
      <3>2. [g \in levering[i].gebied |-> <<i, g>>] \in Surjection(levering[i].gebied, Delen(i))
        BY DEF Surjection, Delen
      <3> QED
        BY <3>1, <3>2, FS_Surjection
    <2> DEFINE alle == {Delen(i) : i \in Toepasbaar}
    <2>3. IsFiniteSet(alle)
      <3>1. [i \in Toepasbaar |-> Delen(i)] \in Surjection(Toepasbaar, alle)
        BY DEF Surjection
      <3> QED
        BY <2>1, <3>1, FS_Surjection
    <2>4. \A x \in alle : IsFiniteSet(x)
      BY <2>2
    <2>5. MutatieDelen = UNION alle
      BY DEF MutatieDelen
    <2> HIDE DEF alle
    <2> QED
      BY <2>3, <2>4, <2>5, FS_UNION
  <1>5. Cardinality(MutatieDelen) > 1
    <2>1. Cardinality(MutatieDelen) \in Nat
      BY <1>4, FS_CardinalityType
    <2>2. Cardinality(MutatieDelen) # 0
      BY <1>4, FS_EmptySet
    <2>3. Cardinality(MutatieDelen) # 1
      BY <1>4, FS_Singleton
    <2> QED
      BY <2>1, <2>2, <2>3
  <1> QED
    BY <1>2, <1>3, <1>5 DEF NietOntdubbeld, MutatieDelen

(* As long as no run broke off between the data and the metadata of a       *)
(* period, a toevoeging never meets a row with its key, but in a database of*)
(* one gemeente that is given a round of several parts.                     *)
THEOREM GeenSleutelBestaat == Spec => GeenSleutelFout
  <1>1. Inv /\ Grens /\ [Next]_vars =>
            [pc = "mutaties" /\ pc' = "klaar" /\ uitkomst' = "sleutel"
                => los = "afgebroken" \/ NietOntdubbeld]_vars
    <2> SUFFICES ASSUME Inv, Grens, Next, pc = "mutaties", pc' = "klaar",
                        uitkomst' = "sleutel", los # "afgebroken"
                 PROVE  NietOntdubbeld
      OBVIOUS
    <2>1. PICK d \in Volgende : LaadMislukt(d)
      BY DEF Next, Stap, Start, NietsTeDoen, StandGeweigerd, IsStand, KiesStand, LaadStand,
             AndereDatum, StandGeladen, GeenStand, IsMutaties, KiesMutaties, NietsToepasbaar,
             Onvolledig, PasToe, LaadMutaties, MutatiesGeladen, GeoFilter, GeenFilter,
             FilterMislukt, Storing, Eindig
    <2>2. SleutelBestaat(d)
      BY <2>1 DEF LaadMislukt, Eindig
    <2>3. PICK k \in Toevoegingen(d) \ Overgeslagen(d) : tabel[k] > 0
      BY <2>2 DEF SleutelBestaat
    <2>4. d \in teLaden /\ d \in MutatieDelen
      BY RondeFeit DEF Volgende
    <2>5. PICK e \in Geladen : e # d /\ k \in Toevoegingen(e)
      BY <2>3, <2>4, EerderToegevoegd
    <2>6. ~(PerGemeente /\ Cardinality(gemeenten) > 1)
      BY <2>3, <2>5 DEF Overgeslagen, Grens, Ontdubbeld
    <2> QED
      BY <2>4, <2>5, <2>6, TweeDelen DEF Geladen
  <1> QED
    BY <1>1, Samen, PTL DEF Spec, GeenSleutelFout
=============================================================================
