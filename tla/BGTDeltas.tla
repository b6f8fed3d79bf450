------------------------------ MODULE BGTDeltas ------------------------------
(***************************************************************************)
(* The commands download initial and download update of the BGT loader     *)
(* (DownloadCommand), which keep a copy of the BGT: the feature types that *)
(* were asked for, a table each, at the day of the delta id in the         *)
(* metadata table.                                                         *)
(*                                                                         *)
(* A zip has a file per feature type. Each file is a transaction           *)
(* (BGTObjectTableWriter.write, modelled by itself in ObjectTableWriter);  *)
(* the delta id is committed after the last of them. The metadata that an  *)
(* initial load sets before its download are committed one by one, because *)
(* the connection still has autocommit.                                    *)
(*                                                                         *)
(* PDOK has, of every day, an extract and the delta from the day before.   *)
(* Of one object per feature type the register has the versions 1..versie; *)
(* all but the last were ended, and the last too unless it is actief. The  *)
(* row of an ended version has another GML id than that of the version     *)
(* while it was current. A zip has a file for each feature type that was   *)
(* asked for, if need be without objects.                                  *)
(***************************************************************************)
EXTENDS Integers, Sequences, FiniteSets

CONSTANTS
    Typen,          \* feature types
    Labels,         \* those whose objects become several rows: the parser gives
                    \* a BGTObject per item of their collection attribute
    Keuzes,         \* options of download initial that are used
    Bewaard,        \* the number of latest deltas that PDOK keeps (31 days)
    MaxDag,         \* bounds: days,
    MaxLadingen,    \* initial loads,
    MaxPech         \* and commands that break off

Keuze == [typen : SUBSET Typen, historie : BOOLEAN, maak : BOOLEAN, drop : BOOLEAN]

ASSUME BGTAannames ==
    /\ Labels \subseteq Typen
    /\ Keuzes \subseteq Keuze
    /\ Bewaard \in Nat \ {0}
    /\ {MaxDag, MaxLadingen, MaxPech} \subseteq Nat

VARIABLES
    register,   \* what the BGT was on each day
    tabellen,   \* the feature types that have a table
    tabel,      \* rows of each table
    meta,       \* metadata table; delta Geen: null
    pc,         \* where the command that runs is
    keuze,      \* its options, from the command line or from the metadata
    dag,        \* the day whose extract or delta it is loading
    tot,        \* the last delta of the list it got
    rest,       \* the files of the zip it still has to load
    exit,       \* exit code of the last command that ended
    gemengd,    \* an initial load without new schema is or was broken off over a copy
    ladingen, pech

vars == <<register, tabellen, tabel, meta, pc, keuze, dag, tot, rest, exit, gemengd,
          ladingen, pech>>
opdracht == <<keuze, dag, tot, rest>>

Geen == 0
Nu == Len(register)

-----------------------------------------------------------------------------
(* The register. *)

Toestand == [versie : Nat, actief : BOOLEAN]
Rij == [versie : Nat, eind : BOOLEAN]

\* The rows of a feature type, those of history included.
Stand(s) == {r \in [versie : 1..s.versie, eind : BOOLEAN] :
               r.eind <=> (r.versie < s.versie \/ ~s.actief)}

\* What an object goes through in a day: nothing, a new version, or its end.
Na(s, wat) == CASE wat = "niets" -> s
                [] wat = "versie" -> [versie |-> s.versie + 1, actief |-> TRUE]
                [] wat = "einde" -> [s EXCEPT !.actief = FALSE]

\* Historic objects are skipped, unless asked for.
Gekozen(rijen, historie) == {r \in rijen : historie \/ ~r.eind}

\* <was> and <wordt> of the delta that leads to day d.
Was(t, d) == Stand(register[d - 1][t]) \ Stand(register[d][t])
Wordt(t, d) == Stand(register[d][t]) \ Stand(register[d - 1][t])

\* The deltas that PDOK lists.
Beschikbaar == {d \in 1..Nu : d > Nu - Bewaard}

RegisterStap == /\ Nu < MaxDag
                /\ \E wat \in [Typen -> {"niets", "versie", "einde"}] :
                     register' = Append(register, [t \in Typen |-> Na(register[Nu][t], wat[t])])
                /\ UNCHANGED <<tabellen, tabel, meta, pc, opdracht, exit, gemengd, ladingen, pech>>

-----------------------------------------------------------------------------
GeenKeuze == [typen |-> {}, historie |-> FALSE, maak |-> FALSE, drop |-> FALSE]
LegeMeta(bestaat) == [bestaat |-> bestaat, delta |-> Geen, typen |-> {}, historie |-> FALSE]

Init == /\ register \in [{1} -> [Typen -> {s \in [versie : {0, 1}, actief : BOOLEAN] :
                                             s.actief <=> s.versie = 1}]]
        /\ tabellen = {}
        /\ tabel = [t \in Typen |-> {}]
        /\ meta = LegeMeta(FALSE)
        /\ pc = "rust"
        /\ keuze = GeenKeuze /\ dag = Geen /\ tot = Geen /\ rest = {}
        /\ exit = 0 /\ gemengd = FALSE
        /\ ladingen = 0 /\ pech = 0

\* The command ends with an exit code.
Einde(code) == /\ pc' = "rust" /\ exit' = code
               /\ keuze' = GeenKeuze /\ dag' = Geen /\ tot' = Geen /\ rest' = {}

\* An exception in a file: its transaction is rolled back with the connection.
Mislukt == /\ Einde(1)
           /\ UNCHANGED <<register, tabellen, tabel, meta, gemengd, ladingen, pech>>

\* The file of t is committed.
Geladen(t, rijen) == /\ tabellen' = tabellen \union {t}
                     /\ tabel' = [tabel EXCEPT ![t] = rijen]
                     /\ rest' = rest \ {t}
                     /\ UNCHANGED <<register, meta, pc, keuze, dag, tot, exit, gemengd, ladingen, pech>>

\* A file without objects touches no table.
LeegBestand(t) == /\ rest' = rest \ {t}
                  /\ UNCHANGED <<register, tabellen, tabel, meta, pc, keuze, dag, tot, exit,
                                 gemengd, ladingen, pech>>

-----------------------------------------------------------------------------
(* download initial *)

\* Creating the metadata table fails when it exists, setting a value when it does not.
KanBeginnen(k) == IF k.maak THEN meta.bestaat => k.drop ELSE meta.bestaat

Initial(k) ==
    /\ pc = "rust" /\ ladingen < MaxLadingen
    /\ ladingen' = ladingen + 1
    /\ IF KanBeginnen(k)
       THEN /\ meta' = IF k.maak THEN LegeMeta(TRUE) ELSE meta
            /\ gemengd' = (~k.maak /\ meta.delta # Geen)
            /\ keuze' = k
            /\ pc' = "typen"
            /\ UNCHANGED <<dag, tot, rest, exit>>
       ELSE /\ Einde(1)
            /\ UNCHANGED <<meta, gemengd>>
    /\ UNCHANGED <<register, tabellen, tabel, pech>>

ZetTypen == /\ pc = "typen" /\ pc' = "historie"
            /\ meta' = [meta EXCEPT !.typen = keuze.typen]
            /\ UNCHANGED <<register, tabellen, tabel, opdracht, exit, gemengd, ladingen, pech>>

ZetHistorie == /\ pc = "historie" /\ pc' = "extract"
               /\ meta' = [meta EXCEPT !.historie = keuze.historie]
               /\ UNCHANGED <<register, tabellen, tabel, opdracht, exit, gemengd, ladingen, pech>>

\* The extract is that of the latest delta, whose id it carries.
Extract == /\ pc = "extract" /\ pc' = "initial"
           /\ dag' = Nu
           /\ rest' = keuze.typen
           /\ UNCHANGED <<register, tabellen, tabel, meta, keuze, tot, exit, gemengd, ladingen, pech>>

\* The first object of a file, a historic one too, creates or truncates the table.
KanVullen(t) == IF keuze.maak THEN t \in tabellen => keuze.drop ELSE t \in tabellen

BestandInitial(t) ==
    /\ pc = "initial" /\ t \in rest
    /\ LET stand == Stand(register[dag][t])
       IN IF stand = {} THEN LeegBestand(t)
          ELSE IF KanVullen(t) THEN Geladen(t, Gekozen(stand, keuze.historie))
          ELSE Mislukt

KlaarInitial == /\ pc = "initial" /\ rest = {}
                /\ meta' = [meta EXCEPT !.delta = dag]
                /\ gemengd' = FALSE
                /\ Einde(0)
                /\ UNCHANGED <<register, tabellen, tabel, ladingen, pech>>

-----------------------------------------------------------------------------
(* download update *)

(* The list of deltas is searched for the id in the metadata; what follows  *)
(* it is loaded. Mutants: one delta too many or too few is found new.       *)
UpdateTeVeel ==
    /\ pc = "rust"
    /\ IF meta.delta \in Beschikbaar /\ meta.delta < Nu
       THEN /\ keuze' = [GeenKeuze EXCEPT !.typen = meta.typen, !.historie = meta.historie]
            /\ dag' = meta.delta /\ tot' = Nu + 1
            /\ pc' = "delta"
            /\ UNCHANGED <<rest, exit>>
       ELSE Einde(IF meta.delta \in Beschikbaar THEN 0 ELSE 1)
    /\ UNCHANGED <<register, tabellen, tabel, meta, gemengd, ladingen, pech>>
UpdateTeWeinig ==
    /\ pc = "rust"
    /\ IF meta.delta \in Beschikbaar /\ meta.delta + 1 < Nu
       THEN /\ keuze' = [GeenKeuze EXCEPT !.typen = meta.typen, !.historie = meta.historie]
            /\ dag' = meta.delta /\ tot' = Nu
            /\ pc' = "delta"
            /\ UNCHANGED <<rest, exit>>
       ELSE Einde(IF meta.delta \in Beschikbaar THEN 0 ELSE 1)
    /\ UNCHANGED <<register, tabellen, tabel, meta, gemengd, ladingen, pech>>
Update ==
    /\ pc = "rust"
    /\ IF meta.delta \in Beschikbaar /\ meta.delta < Nu
       THEN /\ keuze' = [GeenKeuze EXCEPT !.typen = meta.typen, !.historie = meta.historie]
            /\ dag' = meta.delta /\ tot' = Nu
            /\ pc' = "delta"
            /\ UNCHANGED <<rest, exit>>
       ELSE Einde(IF meta.delta \in Beschikbaar THEN 0 ELSE 1)
    /\ UNCHANGED <<register, tabellen, tabel, meta, gemengd, ladingen, pech>>

\* The next delta of the list, for the feature types in the metadata.
VraagDelta == /\ pc = "delta" /\ pc' = "update"
              /\ dag' = dag + 1
              /\ rest' = keuze.typen
              /\ UNCHANGED <<register, tabellen, tabel, meta, keuze, tot, exit, gemengd, ladingen, pech>>

(* deletePreviousVersion, of an object that still has its mutatieStatus.    *)
(* Mutant: the status is lost for every object.                             *)
VerwijderdNooit(t) == {}
Verwijderd(t) == IF t \in Labels THEN {} ELSE Was(t, dag)
Toegevoegd(t) == Gekozen(Wordt(t, dag), keuze.historie)

\* There is a table, and no row of it has the key of a new one.
KanBijwerken(t) == t \in tabellen /\ Toegevoegd(t) \intersect tabel[t] = {}

BestandUpdate(t) ==
    /\ pc = "update" /\ t \in rest
    /\ IF Was(t, dag) \union Wordt(t, dag) = {} THEN LeegBestand(t)
       ELSE IF KanBijwerken(t) THEN Geladen(t, (tabel[t] \ Verwijderd(t)) \union Toegevoegd(t))
       ELSE Mislukt

(* The id of the delta is set, and committed after all of its files.        *)
(* Mutant: it is not set.                                                   *)
KlaarDeltaZonderId ==
    /\ pc = "update" /\ rest = {}
    /\ IF dag = tot THEN Einde(0) ELSE pc' = "delta" /\ UNCHANGED <<opdracht, exit>>
    /\ UNCHANGED <<register, tabellen, tabel, meta, gemengd, ladingen, pech>>
KlaarDelta == /\ pc = "update" /\ rest = {}
              /\ meta' = [meta EXCEPT !.delta = dag]
              /\ IF dag = tot THEN Einde(0) ELSE pc' = "delta" /\ UNCHANGED <<opdracht, exit>>
              /\ UNCHANGED <<register, tabellen, tabel, gemengd, ladingen, pech>>

-----------------------------------------------------------------------------
\* A download or the database fails, or the process dies, between two commits.
Breekt == /\ pc # "rust" /\ pech < MaxPech
          /\ pech' = pech + 1
          /\ Einde(1)
          /\ UNCHANGED <<register, tabellen, tabel, meta, gemengd, ladingen>>

Bestand == \E t \in Typen : BestandInitial(t) \/ BestandUpdate(t)
Stap == \/ ZetTypen \/ ZetHistorie \/ Extract \/ KlaarInitial
        \/ VraagDelta \/ KlaarDelta \/ Bestand
Next == \/ RegisterStap \/ Update \/ Stap \/ Breekt
        \/ \E k \in Keuzes : Initial(k)

\* A command goes on until it ends, and the update is in a cron job.
Spec == Init /\ [][Next]_vars /\ WF_vars(Stap) /\ WF_vars(Update)

-----------------------------------------------------------------------------
TypeOK ==
    /\ register \in Seq([Typen -> Toestand]) /\ Nu > 0
    /\ tabellen \subseteq Typen
    /\ tabel \in [Typen -> SUBSET Rij]
    /\ meta \in [bestaat : BOOLEAN, delta : 0..Nu, typen : SUBSET Typen, historie : BOOLEAN]
    /\ pc \in {"rust", "typen", "historie", "extract", "initial", "delta", "update"}
    /\ keuze \in Keuze
    /\ dag \in 0..Nu /\ tot \in 0..Nu
    /\ rest \subseteq Typen
    /\ exit \in {0, 1} /\ gemengd \in BOOLEAN
    /\ ladingen \in Nat /\ pech \in Nat

\* The rows that belong to day d.
Gewenst(t, d) == Gekozen(Stand(register[d][t]), meta.historie)

\* Previous versions of a label stay.
Inhoud(t, d) == IF t \in Labels THEN Gewenst(t, d) \subseteq tabel[t]
                                ELSE tabel[t] = Gewenst(t, d)

(* The delta id says where every table is: at that day, or at the next when *)
(* an update was broken off or is running, as each file is committed before *)
(* the id (DownloadCommand.loadZipFromURI). Not when an initial load over   *)
(* the old tables broke off, which keeps the old id.                        *)
TabelKlopt ==
    meta.delta # Geen /\ ~gemengd =>
        \A t \in meta.typen : \/ Inhoud(t, meta.delta)
                              \/ meta.delta < Nu /\ Inhoud(t, meta.delta + 1)

(* A command that ends with exit code 0 leaves tables that are, every one   *)
(* of them, those of the delta id: an update that starts from what a broken *)
(* one left either repairs it or fails (DownloadCommand.update, initial).   *)
SuccesIsActueel ==
    [][pc # "rust" /\ pc' = "rust" /\ exit' = 0 /\ ~gemengd' =>
         \A t \in meta'.typen : Inhoud(t, meta.delta)']_vars

(* A table has rows that are newer than the delta id. *)
Vooruit(t) == ~(tabel[t] \subseteq UNION {Stand(register[d][t]) : d \in 1..meta.delta})

(* The daily update brings the copy up to date in the end, unless an        *)
(* initial load is needed: there is no delta id, PDOK no longer has it, an  *)
(* update broke off between two files, or a feature type had no objects     *)
(* when it was loaded and has no table (DownloadCommand.update).            *)
BijOfVast ==
    <>[](\/ meta.delta = Nu
         \/ meta.delta \notin Beschikbaar
         \/ \E t \in meta.typen : Vooruit(t) \/ t \notin tabellen)

(* "Historische objecten worden standaard overgeslagen" (README.md of the   *)
(* loader): without the option, a copy has current versions only.           *)
GeenHistorie ==
    meta.delta # Geen /\ ~gemengd /\ ~meta.historie /\ pc = "rust" /\ exit = 0 =>
        \A t \in meta.typen : tabel[t] \subseteq Gewenst(t, meta.delta)
=============================================================================
