--------------------------- MODULE BGTDeltasProofs ---------------------------
(***************************************************************************)
(* Theorems about BGTDeltas: the delta id says where every table is, for   *)
(* any feature types, options, register and number of commands that break  *)
(* off between two commits.                                                *)
(***************************************************************************)
EXTENDS BGTDeltas, SequenceTheorems, TLAPS

(* Types, with which days the command that runs is about.                   *)
Typering ==
    /\ TypeOK
    /\ pc = "initial" => dag \in 1..Nu
    /\ pc = "delta" => meta.delta \in 1..Nu /\ dag = meta.delta /\ dag < tot
    /\ pc = "update" => meta.delta \in 1..Nu /\ dag = meta.delta + 1 /\ dag <= tot

(* A command that is under way uses what is in the metadata.                *)
Opdracht ==
    /\ pc \in {"historie", "extract", "initial", "delta", "update"} => meta.typen = keuze.typen
    /\ pc \in {"extract", "initial", "delta", "update"} => meta.historie = keuze.historie
    /\ pc \in {"typen", "historie", "extract", "initial"} => meta.delta = Geen \/ gemengd

(* An object that has been there stays in the register, ended or not; a     *)
(* table has rows of objects that have been there only, also on the day of  *)
(* the extract that is being loaded.                                        *)
Geweest(t, d) == register[d][t].versie > 0
Blijvend ==
    /\ \A t \in Typen, d \in 1..Nu : Geweest(t, d) => Geweest(t, Nu)
    /\ \A t \in Typen : tabel[t] # {} => Geweest(t, Nu)
    /\ pc = "initial" => \A t \in Typen : tabel[t] # {} => Geweest(t, dag)

(* The tables: in an initial load the files that are done have the day of   *)
(* the extract; otherwise each has the day of the delta id or the next, and *)
(* in an update the files that are done have the next.                      *)
Tabellen ==
    /\ pc = "initial" => \A t \in keuze.typen \ rest : Inhoud(t, dag)
    /\ TabelKlopt
    /\ pc = "update" /\ ~gemengd => \A t \in meta.typen \ rest : Inhoud(t, dag)

Inv == Typering /\ Opdracht /\ Blijvend /\ Tabellen

-----------------------------------------------------------------------------
(* What the delta of a day leads from the rows of the day before to those   *)
(* of the day; loaded again it makes no difference.                         *)
LEMMA DeltaKlopt ==
    ASSUME NEW S, NEW N, NEW T, NEW h \in BOOLEAN
    PROVE  /\ T = Gekozen(S, h) \/ T = Gekozen(N, h)
                => (T \ (S \ N)) \union Gekozen(N \ S, h) = Gekozen(N, h)
           /\ Gekozen(S, h) \subseteq T \/ Gekozen(N, h) \subseteq T
                => Gekozen(N, h) \subseteq T \union Gekozen(N \ S, h)
  BY DEF Gekozen

(* Rows of an object that was never there.                                  *)
LEMMA StandFeit ==
    ASSUME NEW s \in Toestand
    PROVE  /\ Stand(s) \subseteq Rij
           /\ s.versie = 0 => Stand(s) = {}
           /\ Stand(s) = {} => s.versie = 0
  <1>1. Stand(s) \subseteq Rij /\ (s.versie = 0 => Stand(s) = {})
    BY DEF Stand, Rij, Toestand
  <1>2. ASSUME s.versie # 0 PROVE Stand(s) # {}
    <2>1. s.versie \in 1..s.versie /\ s.actief \in BOOLEAN
      BY <1>2 DEF Toestand
    <2>2. CASE s.actief
      <3>1. [versie |-> s.versie, eind |-> FALSE] \in Stand(s)
        BY <2>1, <2>2 DEF Stand
      <3> QED
        BY <3>1
    <2>3. CASE ~s.actief
      <3>1. [versie |-> s.versie, eind |-> TRUE] \in Stand(s)
        BY <2>1, <2>3 DEF Stand
      <3> QED
        BY <3>1
    <2> QED
      BY <2>2, <2>3
  <1> QED
    BY <1>1, <1>2

(* The state of a feature type on a day.                                    *)
LEMMA Dagen ==
    ASSUME TypeOK, NEW t \in Typen, NEW d \in 1..Nu
    PROVE  register[d][t] \in Toestand
  BY DEF TypeOK, Nu

LEMMA InitInv == ASSUME Init PROVE Inv
  <1>1. register \in Seq([Typen -> Toestand]) /\ Nu = 1
    <2>1. PICK f \in [Typen -> {s \in [versie : {0, 1}, actief : BOOLEAN] :
                                  s.actief <=> s.versie = 1}] : register = [i \in {1} |-> f]
      <3>1. register \in [{1} -> [Typen -> {s \in [versie : {0, 1}, actief : BOOLEAN] :
                                              s.actief <=> s.versie = 1}]]
        BY DEF Init
      <3> QED
        BY <3>1
    <2>2. f \in [Typen -> Toestand]
      BY DEF Toestand
    <2>3. register \in [1..1 -> [Typen -> Toestand]]
      BY <2>1, <2>2
    <2>4. register \in Seq([Typen -> Toestand])
      BY <2>3, SeqDef
    <2> QED
      BY <2>3, <2>4, LenProperties DEF Nu
  <1>2. TypeOK
    <2>1. meta \in [bestaat : BOOLEAN, delta : 0..Nu, typen : SUBSET Typen, historie : BOOLEAN]
      BY <1>1 DEF Init, LegeMeta, Geen
    <2>2. keuze \in Keuze
      BY DEF Init, GeenKeuze, Keuze
    <2>3. tabel \in [Typen -> SUBSET Rij] /\ tabellen \subseteq Typen /\ rest \subseteq Typen
      BY DEF Init
    <2>4. dag \in 0..Nu /\ tot \in 0..Nu /\ exit \in {0, 1} /\ ladingen \in Nat /\ pech \in Nat
      BY <1>1 DEF Init, Geen
    <2>5. gemengd \in BOOLEAN /\ pc = "rust"
      BY DEF Init
    <2> QED
      BY <1>1, <2>1, <2>2, <2>3, <2>4, <2>5 DEF TypeOK
  <1>3. Typering /\ Opdracht
    BY <1>2 DEF Init, Typering, Opdracht, LegeMeta
  <1>4. Blijvend
    BY <1>1 DEF Init, Blijvend
  <1>5. Tabellen
    BY DEF Init, Tabellen, TabelKlopt, LegeMeta
  <1> QED
    BY <1>3, <1>4, <1>5 DEF Inv

-----------------------------------------------------------------------------
(* A day more does not change the days before it.                           *)
LEMMA NieuweDag ==
    ASSUME TypeOK, RegisterStap
    PROVE  /\ register' \in Seq([Typen -> Toestand])
           /\ Nu' = Nu + 1 /\ Nu \in Nat
           /\ \A d \in 1..Nu : register'[d] = register[d]
           /\ \A t \in Typen : Geweest(t, Nu) => Geweest(t, Nu)'
  <1>1. PICK wat \in [Typen -> {"niets", "versie", "einde"}] :
          register' = Append(register, [t \in Typen |-> Na(register[Nu][t], wat[t])])
    BY DEF RegisterStap
  <1> DEFINE f == [t \in Typen |-> Na(register[Nu][t], wat[t])]
  <1>2. Nu \in Nat /\ Nu > 0 /\ register \in Seq([Typen -> Toestand])
    BY DEF TypeOK, Nu
  <1>3. ASSUME NEW t \in Typen
        PROVE  f[t] \in Toestand /\ (Geweest(t, Nu) => f[t].versie > 0)
    <2>1. register[Nu][t] \in Toestand
      BY <1>2, Dagen
    <2>2. f[t] = Na(register[Nu][t], wat[t]) /\ wat[t] \in {"niets", "versie", "einde"}
      OBVIOUS
    <2>3. CASE wat[t] = "niets"
      BY <2>1, <2>2, <2>3 DEF Na, Geweest
    <2>4. CASE wat[t] = "versie"
      BY <2>1, <2>2, <2>4 DEF Na, Toestand, Geweest
    <2>5. CASE wat[t] = "einde"
      BY <2>1, <2>2, <2>5 DEF Na, Toestand, Geweest
    <2> QED
      BY <2>2, <2>3, <2>4, <2>5
  <1>4. f \in [Typen -> Toestand]
    BY <1>3
  <1> HIDE DEF f
  <1>5. /\ register' \in Seq([Typen -> Toestand]) /\ Len(register') = Nu + 1
        /\ \A d \in 1..Nu : register'[d] = register[d]
        /\ register'[Nu + 1] = f
    BY <1>1, <1>2, <1>4 DEF Nu, f
  <1> QED
    BY <1>2, <1>3, <1>5 DEF Nu, Geweest

LEMMA RegisterStapInv == ASSUME Inv, RegisterStap PROVE Inv'
  <1>1. TypeOK
    BY DEF Inv, Typering
  <1>2. /\ register' \in Seq([Typen -> Toestand])
        /\ Nu' = Nu + 1 /\ Nu \in Nat /\ Nu > 0
        /\ \A d \in 1..Nu : register'[d] = register[d]
        /\ \A t \in Typen : Geweest(t, Nu) => Geweest(t, Nu)'
    BY <1>1, NieuweDag DEF TypeOK
  <1>3. UNCHANGED <<tabellen, tabel, meta, pc, keuze, dag, tot, rest, exit, gemengd, ladingen, pech>>
    BY DEF RegisterStap, opdracht
  <1>4. Typering'
    <2>1. TypeOK'
      BY <1>1, <1>2, <1>3 DEF TypeOK
    <2> QED
      BY <1>2, <1>3, <2>1 DEF Inv, Typering
  <1>5. Opdracht'
    BY <1>3 DEF Inv, Opdracht
  <1>6. \A t \in Typen, d \in 1..Nu : Geweest(t, d)' <=> Geweest(t, d)
    BY <1>2 DEF Geweest
  <1>7. Blijvend'
    <2>1. \A t \in Typen, d \in 1..Nu' : Geweest(t, d)' => Geweest(t, Nu)'
      <3> SUFFICES ASSUME NEW t \in Typen, NEW d \in 1..Nu', Geweest(t, d)'
                   PROVE  Geweest(t, Nu)'
        OBVIOUS
      <3>1. CASE d \in 1..Nu
        BY <3>1, <1>2, <1>6 DEF Inv, Blijvend
      <3>2. CASE d = Nu'
        BY <3>2 DEF Geweest
      <3> QED
        BY <3>1, <3>2, <1>2
    <2>2. \A t \in Typen : tabel'[t] # {} => Geweest(t, Nu)'
      BY <1>2, <1>3 DEF Inv, Blijvend
    <2>3. pc' = "initial" => \A t \in Typen : tabel'[t] # {} => Geweest(t, dag)'
      BY <1>2, <1>3, <1>6 DEF Inv, Blijvend, Typering, Geweest
    <2> QED
      BY <2>1, <2>2, <2>3 DEF Blijvend
  <1>8. \A t \in Typen, d \in 1..Nu : Inhoud(t, d) => Inhoud(t, d)'
    BY <1>2, <1>3 DEF Inhoud, Gewenst
  <1>9. Tabellen'
    <2>1. pc' = "initial" => \A t \in keuze'.typen \ rest' : Inhoud(t, dag)'
      BY <1>1, <1>3, <1>8 DEF Inv, Tabellen, Typering, TypeOK, Keuze, Inhoud, Gewenst
    <2>2. TabelKlopt'
      BY <1>1, <1>2, <1>3, <1>8 DEF Inv, Tabellen, TabelKlopt, TypeOK, Geen, Inhoud, Gewenst
    <2>3. pc' = "update" /\ ~gemengd' => \A t \in meta'.typen \ rest' : Inhoud(t, dag)'
      BY <1>1, <1>3, <1>8 DEF Inv, Tabellen, Typering, TypeOK, Inhoud, Gewenst
    <2> QED
      BY <2>1, <2>2, <2>3 DEF Tabellen
  <1> QED
    BY <1>4, <1>5, <1>7, <1>9 DEF Inv

(* A command that ends without more, whatever the reason.                   *)
LEMMA EindeInv ==
    ASSUME Inv, NEW code \in {0, 1}, Einde(code),
           UNCHANGED <<register, tabellen, tabel, meta, gemengd>>,
           ladingen' \in Nat, pech' \in Nat
    PROVE  Inv'
  <1>1. TypeOK'
    <2>1. Nu' = Nu /\ Nu \in Nat /\ keuze' \in Keuze /\ Geen \in 0..Nu
      BY DEF Inv, Typering, TypeOK, Nu, Einde, GeenKeuze, Keuze, Geen
    <2> QED
      BY <2>1 DEF Inv, Typering, TypeOK, Einde
  <1>2. Typering' /\ Opdracht'
    BY <1>1 DEF Typering, Opdracht, Einde
  <1>3. Blijvend'
    BY DEF Inv, Blijvend, Einde, Geweest, Nu
  <1>4. Tabellen'
    BY DEF Inv, Tabellen, TabelKlopt, Inhoud, Gewenst, Einde, Nu
  <1> QED
    BY <1>2, <1>3, <1>4 DEF Inv

LEMMA BreektInv == ASSUME Inv, Breekt PROVE Inv'
  <1>1. ladingen' \in Nat /\ pech' \in Nat
    BY DEF Inv, Typering, TypeOK, Breekt
  <1> QED
    BY <1>1, EindeInv DEF Breekt

LEMMA MisluktInv == ASSUME Inv, Mislukt PROVE Inv'
  <1>1. ladingen' \in Nat /\ pech' \in Nat
    BY DEF Inv, Typering, TypeOK, Mislukt
  <1> QED
    BY <1>1, EindeInv DEF Mislukt

-----------------------------------------------------------------------------
(* The start of an initial load.                                            *)
LEMMA InitialInv == ASSUME Inv, NEW k \in Keuzes, Initial(k) PROVE Inv'
  <1>0. k \in Keuze
    BY BGTAannames
  <1>1. CASE ~KanBeginnen(k)
    <2>1. ladingen' \in Nat /\ pech' \in Nat
      BY DEF Inv, Typering, TypeOK, Initial
    <2> QED
      BY <1>1, <2>1, EindeInv DEF Initial
  <1>2. CASE KanBeginnen(k)
    <2>1. /\ meta' = IF k.maak THEN LegeMeta(TRUE) ELSE meta
          /\ gemengd' = (~k.maak /\ meta.delta # Geen)
          /\ keuze' = k /\ pc' = "typen" /\ ladingen' = ladingen + 1
          /\ UNCHANGED <<register, tabellen, tabel, dag, tot, rest, exit, pech>>
      BY <1>2 DEF Initial
    <2>2. Nu' = Nu /\ Nu \in Nat /\ Nu > 0
      BY <2>1 DEF Inv, Typering, TypeOK, Nu
    <2>3. meta' \in [bestaat : BOOLEAN, delta : 0..Nu, typen : SUBSET Typen, historie : BOOLEAN]
      BY <2>1, <2>2 DEF Inv, Typering, TypeOK, LegeMeta, Geen
    <2>4. gemengd' \in BOOLEAN
      BY <2>1
    <2>5. TypeOK'
      <3>1. keuze' \in Keuze /\ ladingen' \in Nat
        BY <1>0, <2>1 DEF Inv, Typering, TypeOK
      <3> QED
        BY <2>1, <2>2, <2>3, <2>4, <3>1 DEF Inv, Typering, TypeOK
    <2>6. meta'.delta = Geen \/ gemengd'
      BY <2>1 DEF LegeMeta
    <2>7. Typering' /\ Opdracht'
      BY <2>1, <2>5, <2>6 DEF Typering, Opdracht
    <2>8. Blijvend'
      BY <2>1, <2>2 DEF Inv, Blijvend, Geweest
    <2>9. Tabellen'
      BY <2>1, <2>6 DEF Tabellen, TabelKlopt
    <2> QED
      BY <2>7, <2>8, <2>9 DEF Inv
  <1> QED
    BY <1>1, <1>2

(* The metadata that are set before the download.                           *)
LEMMA ZetInv == ASSUME Inv, ZetTypen \/ ZetHistorie PROVE Inv'
  <1>1. \/ meta' = [meta EXCEPT !.typen = keuze.typen] /\ pc = "typen" /\ pc' = "historie"
        \/ meta' = [meta EXCEPT !.historie = keuze.historie] /\ pc = "historie" /\ pc' = "extract"
    BY DEF ZetTypen, ZetHistorie
  <1>2. UNCHANGED <<register, tabellen, tabel, keuze, dag, tot, rest, exit, gemengd, ladingen, pech>>
    BY DEF ZetTypen, ZetHistorie, opdracht
  <1>3. Nu' = Nu /\ Nu \in Nat /\ Nu > 0
    BY <1>2 DEF Inv, Typering, TypeOK, Nu
  <1>4. meta' \in [bestaat : BOOLEAN, delta : 0..Nu, typen : SUBSET Typen, historie : BOOLEAN]
    BY <1>1 DEF Inv, Typering, TypeOK, Keuze
  <1>5. meta'.delta = meta.delta /\ (meta'.delta = Geen \/ gemengd)
    BY <1>1 DEF Inv, Typering, TypeOK, Opdracht
  <1>6. TypeOK'
    BY <1>1, <1>2, <1>3, <1>4 DEF Inv, Typering, TypeOK
  <1>7. Typering' /\ Opdracht'
    BY <1>1, <1>2, <1>5, <1>6 DEF Inv, Typering, TypeOK, Opdracht
  <1>8. Blijvend'
    BY <1>1, <1>2, <1>3 DEF Inv, Blijvend, Geweest
  <1>9. Tabellen'
    BY <1>1, <1>2, <1>5 DEF Tabellen, TabelKlopt
  <1> QED
    BY <1>7, <1>8, <1>9 DEF Inv

LEMMA ExtractInv == ASSUME Inv, Extract PROVE Inv'
  <1>1. /\ pc' = "initial" /\ dag' = Nu /\ rest' = keuze.typen
        /\ UNCHANGED <<register, tabellen, tabel, meta, keuze, tot, exit, gemengd, ladingen, pech>>
    BY DEF Extract
  <1>2. Nu' = Nu /\ Nu \in 1..Nu
    BY <1>1 DEF Inv, Typering, TypeOK, Nu
  <1>3. TypeOK'
    <2>1. rest' \subseteq Typen
      BY <1>1 DEF Inv, Typering, TypeOK, Keuze
    <2> QED
      BY <1>1, <1>2, <2>1 DEF Inv, Typering, TypeOK
  <1>4. Typering' /\ Opdracht'
    BY <1>1, <1>2, <1>3 DEF Inv, Typering, Opdracht, Extract
  <1>5. Blijvend'
    BY <1>1, <1>2 DEF Inv, Blijvend, Geweest
  <1>6. Tabellen'
    BY <1>1, <1>2 DEF Inv, Opdracht, Extract, Tabellen, TabelKlopt
  <1> QED
    BY <1>4, <1>5, <1>6 DEF Inv

(* A file that is done, with rows of objects that have been there.          *)
LEMMA BestandInv ==
    ASSUME Inv, NEW t \in rest, NEW rijen \in SUBSET Rij,
           pc \in {"initial", "update"},
           \/ Geladen(t, rijen)
           \/ LeegBestand(t) /\ rijen = tabel[t],
           rijen # {} => Geweest(t, Nu) /\ (pc = "initial" => Geweest(t, dag))
    PROVE  /\ Typering' /\ Opdracht' /\ Blijvend'
           /\ Nu' = Nu /\ rest' = rest \ {t} /\ t \in Typen
           /\ UNCHANGED <<register, meta, pc, keuze, dag, tot, gemengd>>
           /\ tabel'[t] = rijen
           /\ \A s \in Typen \ {t} : tabel'[s] = tabel[s]
  <1>0. t \in Typen /\ TypeOK
    BY DEF Inv, Typering, TypeOK
  <1>1. /\ rest' = rest \ {t}
        /\ UNCHANGED <<register, meta, pc, keuze, dag, tot, exit, gemengd, ladingen, pech>>
    BY DEF Geladen, LeegBestand
  <1>2. /\ tabel' \in [Typen -> SUBSET Rij]
        /\ tabel'[t] = rijen
        /\ \A s \in Typen \ {t} : tabel'[s] = tabel[s]
        /\ tabellen' \subseteq Typen
    BY <1>0 DEF TypeOK, Geladen, LeegBestand
  <1>3. Nu' = Nu
    BY <1>1 DEF Nu
  <1>4. TypeOK'
    BY <1>0, <1>1, <1>2, <1>3 DEF TypeOK
  <1>5. Typering' /\ Opdracht'
    BY <1>1, <1>3, <1>4 DEF Inv, Typering, Opdracht
  <1>6. Blijvend'
    <2>1. \A s \in Typen : tabel'[s] # {} => Geweest(s, Nu)'
      BY <1>1, <1>2, <1>3 DEF Inv, Blijvend, Geweest
    <2>2. pc' = "initial" => \A s \in Typen : tabel'[s] # {} => Geweest(s, dag)'
      BY <1>1, <1>2 DEF Inv, Blijvend, Geweest
    <2>3. \A s \in Typen, d \in 1..Nu' : Geweest(s, d)' => Geweest(s, Nu)'
      BY <1>1, <1>3 DEF Inv, Blijvend, Geweest
    <2> QED
      BY <2>1, <2>2, <2>3 DEF Blijvend
  <1> QED
    BY <1>0, <1>1, <1>2, <1>3, <1>5, <1>6

LEMMA BestandInitialInv == ASSUME Inv, NEW t \in Typen, BestandInitial(t) PROVE Inv'
  <1> DEFINE stand == Stand(register[dag][t])
             rijen == IF stand = {} THEN tabel[t] ELSE Gekozen(stand, keuze.historie)
  <1>0. TypeOK /\ pc = "initial" /\ t \in rest /\ dag \in 1..Nu
    BY DEF Inv, Typering, BestandInitial
  <1>1. register[dag][t] \in Toestand
    BY <1>0, Dagen
  <1>2. stand \subseteq Rij /\ (stand = {} <=> ~Geweest(t, dag))
    BY <1>1, StandFeit DEF Geweest, Toestand
  <1>3. CASE stand # {} /\ ~KanVullen(t)
    BY <1>3, MisluktInv DEF BestandInitial
  <1>4. CASE stand = {} \/ KanVullen(t)
    <2>1. Geladen(t, rijen) \/ (LeegBestand(t) /\ rijen = tabel[t])
      BY <1>4 DEF BestandInitial
    <2>2. rijen \in SUBSET Rij
      BY <1>0, <1>2 DEF TypeOK, Gekozen
    <2>3. rijen # {} => Geweest(t, Nu) /\ Geweest(t, dag)
      BY <1>0, <1>2 DEF Inv, Blijvend
    <2>4. /\ Typering' /\ Opdracht' /\ Blijvend'
          /\ Nu' = Nu /\ rest' = rest \ {t}
          /\ UNCHANGED <<register, meta, pc, keuze, dag, tot, gemengd>>
          /\ tabel'[t] = rijen
          /\ \A s \in Typen \ {t} : tabel'[s] = tabel[s]
      <3> HIDE DEF rijen
      <3> QED
        BY <1>0, <2>1, <2>2, <2>3, BestandInv
    <2>5. meta.historie = keuze.historie /\ (meta.delta = Geen \/ gemengd)
      BY <1>0 DEF Inv, Opdracht
    <2>6. rijen = Gewenst(t, dag)
      <3>1. CASE stand = {}
        <4>1. tabel[t] = {}
          BY <1>0, <1>2, <3>1 DEF Inv, Blijvend
        <4> QED
          BY <3>1, <4>1 DEF Gewenst, Gekozen
      <3>2. CASE stand # {}
        BY <2>5, <3>2 DEF Gewenst
      <3> QED
        BY <3>1, <3>2
    <2>7. \A s \in keuze.typen \ rest' : Inhoud(s, dag)'
      <3> HIDE DEF rijen
      <3> SUFFICES ASSUME NEW s \in keuze.typen \ rest' PROVE Inhoud(s, dag)'
        OBVIOUS
      <3>1. CASE s = t
        BY <2>4, <2>6, <3>1 DEF Inhoud, Gewenst
      <3>2. CASE s # t
        <4>1. s \in Typen /\ s \in keuze.typen \ rest
          BY <1>0, <2>4, <3>2 DEF TypeOK, Keuze
        <4>2. Inhoud(s, dag)
          BY <1>0, <4>1 DEF Inv, Tabellen
        <4> QED
          BY <2>4, <3>2, <4>1, <4>2 DEF Inhoud, Gewenst
      <3> QED
        BY <3>1, <3>2
    <2>8. Tabellen'
      BY <1>0, <2>4, <2>5, <2>7 DEF Tabellen, TabelKlopt
    <2> QED
      BY <2>4, <2>8 DEF Inv
  <1> QED
    BY <1>3, <1>4

LEMMA KlaarInitialInv == ASSUME Inv, KlaarInitial PROVE Inv'
  <1>1. /\ pc = "initial" /\ rest = {} /\ pc' = "rust" /\ exit' = 0
        /\ meta' = [meta EXCEPT !.delta = dag] /\ gemengd' = FALSE
        /\ keuze' = GeenKeuze /\ dag' = Geen /\ tot' = Geen /\ rest' = {}
        /\ UNCHANGED <<register, tabellen, tabel, ladingen, pech>>
    BY DEF KlaarInitial, Einde
  <1>2. TypeOK /\ dag \in 1..Nu /\ Nu' = Nu /\ Nu \in Nat
    BY <1>1 DEF Inv, Typering, TypeOK, Nu
  <1>3. /\ meta' \in [bestaat : BOOLEAN, delta : 0..Nu, typen : SUBSET Typen, historie : BOOLEAN]
        /\ meta'.delta = dag /\ meta'.typen = meta.typen /\ meta'.historie = meta.historie
    BY <1>1, <1>2 DEF TypeOK
  <1>4. TypeOK'
    <2>1. keuze' \in Keuze /\ Geen \in 0..Nu
      BY <1>1, <1>2 DEF GeenKeuze, Keuze, Geen
    <2> QED
      BY <1>1, <1>2, <1>3, <2>1 DEF TypeOK
  <1>5. Typering' /\ Opdracht'
    BY <1>1, <1>4 DEF Typering, Opdracht
  <1>6. Blijvend'
    BY <1>1, <1>2 DEF Inv, Blijvend, Geweest
  <1>7. \A t \in meta'.typen : Inhoud(t, meta.delta)'
    <2>1. \A t \in meta.typen : Inhoud(t, dag)
      BY <1>1 DEF Inv, Tabellen, Opdracht
    <2> QED
      BY <1>1, <1>3, <2>1 DEF Inhoud, Gewenst
  <1>8. Tabellen'
    BY <1>1, <1>7 DEF Tabellen, TabelKlopt
  <1> QED
    BY <1>5, <1>6, <1>8 DEF Inv

-----------------------------------------------------------------------------
LEMMA UpdateInv == ASSUME Inv, Update PROVE Inv'
  <1>0. TypeOK /\ Nu \in Nat /\ pc = "rust"
    BY DEF Inv, Typering, TypeOK, Nu, Update
  <1>1. CASE ~(meta.delta \in Beschikbaar /\ meta.delta < Nu)
    <2>1. /\ Einde(0) \/ Einde(1)
          /\ UNCHANGED <<register, tabellen, tabel, meta, gemengd, ladingen, pech>>
      BY <1>1 DEF Update
    <2>2. ladingen' \in Nat /\ pech' \in Nat
      BY <1>0, <2>1 DEF TypeOK
    <2> QED
      BY <2>1, <2>2, EindeInv
  <1>2. CASE meta.delta \in Beschikbaar /\ meta.delta < Nu
    <2>1. /\ keuze' = [GeenKeuze EXCEPT !.typen = meta.typen, !.historie = meta.historie]
          /\ dag' = meta.delta /\ tot' = Nu /\ pc' = "delta"
          /\ UNCHANGED <<register, tabellen, tabel, meta, rest, exit, gemengd, ladingen, pech>>
      BY <1>2 DEF Update
    <2>2. Nu' = Nu /\ meta.delta \in 1..Nu /\ meta.delta < Nu
      BY <1>0, <1>2, <2>1 DEF Beschikbaar, Nu
    <2>3. keuze' \in Keuze /\ keuze'.typen = meta.typen /\ keuze'.historie = meta.historie
      BY <1>0, <2>1 DEF TypeOK, GeenKeuze, Keuze
    <2>4. TypeOK'
      <3>1. dag' \in 0..Nu' /\ tot' \in 0..Nu'
        BY <1>0, <2>1, <2>2
      <3> QED
        BY <1>0, <2>1, <2>2, <2>3, <3>1 DEF TypeOK
    <2>5. Typering' /\ Opdracht'
      BY <2>1, <2>2, <2>3, <2>4 DEF Typering, Opdracht
    <2>6. Blijvend'
      BY <2>1, <2>2 DEF Inv, Blijvend, Geweest
    <2>7. Tabellen'
      BY <2>1, <2>2 DEF Inv, Tabellen, TabelKlopt, Inhoud, Gewenst
    <2> QED
      BY <2>5, <2>6, <2>7 DEF Inv
  <1> QED
    BY <1>1, <1>2

LEMMA VraagDeltaInv == ASSUME Inv, VraagDelta PROVE Inv'
  <1>1. /\ pc = "delta" /\ pc' = "update" /\ dag' = dag + 1 /\ rest' = keuze.typen
        /\ UNCHANGED <<register, tabellen, tabel, meta, keuze, tot, exit, gemengd, ladingen, pech>>
    BY DEF VraagDelta
  <1>2. /\ TypeOK /\ Nu' = Nu /\ Nu \in Nat
        /\ meta.delta \in 1..Nu /\ dag = meta.delta /\ dag < tot /\ tot \in 0..Nu
        /\ meta.typen = keuze.typen
    BY <1>1 DEF Inv, Typering, TypeOK, Nu, Opdracht
  <1>3. dag' \in 0..Nu /\ dag' <= tot /\ rest' \subseteq Typen
    BY <1>1, <1>2 DEF TypeOK, Keuze
  <1>4. TypeOK'
    BY <1>1, <1>2, <1>3 DEF TypeOK
  <1>5. Typering' /\ Opdracht'
    BY <1>1, <1>2, <1>3, <1>4 DEF Inv, Typering, Opdracht
  <1>6. Blijvend'
    BY <1>1, <1>2 DEF Inv, Blijvend, Geweest
  <1>7. Tabellen'
    BY <1>1, <1>2 DEF Inv, Tabellen, TabelKlopt, Inhoud, Gewenst
  <1> QED
    BY <1>5, <1>6, <1>7 DEF Inv

(* The file of a delta leads a table to its day, whether it was at the day  *)
(* before or was led there by an earlier update that broke off.             *)
LEMMA BestandUpdateInv == ASSUME Inv, NEW t \in Typen, BestandUpdate(t) PROVE Inv'
  <1> DEFINE S == Stand(register[dag - 1][t])
             N == Stand(register[dag][t])
             rijen == IF Was(t, dag) \union Wordt(t, dag) = {} THEN tabel[t]
                      ELSE (tabel[t] \ Verwijderd(t)) \union Toegevoegd(t)
  <1>0. /\ TypeOK /\ pc = "update" /\ t \in rest /\ Nu \in Nat
        /\ meta.delta \in 1..Nu /\ dag = meta.delta + 1 /\ dag \in 1..Nu
        /\ meta.historie = keuze.historie /\ keuze.historie \in BOOLEAN
    BY DEF Inv, Typering, TypeOK, Nu, Opdracht, BestandUpdate, Keuze
  <1>1. N \subseteq Rij /\ (N # {} => Geweest(t, dag))
    <2>1. register[dag][t] \in Toestand
      BY <1>0, Dagen
    <2> QED
      BY <2>1, StandFeit DEF Geweest, Toestand
  <1>2. Was(t, dag) = S \ N /\ Wordt(t, dag) = N \ S
    BY DEF Was, Wordt
  <1>3. CASE Was(t, dag) \union Wordt(t, dag) # {} /\ ~KanBijwerken(t)
    BY <1>3, MisluktInv DEF BestandUpdate
  <1>4. CASE Was(t, dag) \union Wordt(t, dag) = {} \/ KanBijwerken(t)
    <2>1. Geladen(t, rijen) \/ (LeegBestand(t) /\ rijen = tabel[t])
      BY <1>4 DEF BestandUpdate
    <2>2. rijen \in SUBSET Rij
      BY <1>0, <1>1, <1>2 DEF TypeOK, Gekozen, Toegevoegd
    <2>3. rijen # {} => Geweest(t, Nu)
      BY <1>0, <1>1, <1>2 DEF Inv, Blijvend, Toegevoegd, Gekozen
    <2>4. /\ Typering' /\ Opdracht' /\ Blijvend'
          /\ Nu' = Nu /\ rest' = rest \ {t}
          /\ UNCHANGED <<register, meta, pc, keuze, dag, tot, gemengd>>
          /\ tabel'[t] = rijen
          /\ \A s \in Typen \ {t} : tabel'[s] = tabel[s]
      <3> HIDE DEF rijen
      <3> QED
        BY <1>0, <2>1, <2>2, <2>3, BestandInv
    <2>5. Inhoud(t, dag - 1) \/ Inhoud(t, dag) => Inhoud(t, dag)'
      <3>1. CASE Was(t, dag) \union Wordt(t, dag) = {}
        <4>1. S = N /\ rijen = tabel[t]
          BY <1>2, <3>1
        <4> HIDE DEF rijen
        <4> QED
          BY <2>4, <4>1 DEF Inhoud, Gewenst
      <3>2. CASE Was(t, dag) \union Wordt(t, dag) # {}
        <4>1. rijen = (tabel[t] \ Verwijderd(t)) \union Gekozen(N \ S, keuze.historie)
          BY <1>2, <3>2 DEF Toegevoegd
        <4>2. CASE t \in Labels
          <5>1. rijen = tabel[t] \union Gekozen(N \ S, keuze.historie)
            BY <4>1, <4>2 DEF Verwijderd
          <5> HIDE DEF rijen, S, N
          <5>2. Gekozen(S, keuze.historie) \subseteq tabel[t]
                  \/ Gekozen(N, keuze.historie) \subseteq tabel[t]
                => Gekozen(N, keuze.historie) \subseteq rijen
            BY <1>0, <5>1, DeltaKlopt
          <5> QED
            BY <1>0, <2>4, <4>2, <5>2 DEF Inhoud, Gewenst, S, N
        <4>3. CASE t \notin Labels
          <5>1. rijen = (tabel[t] \ (S \ N)) \union Gekozen(N \ S, keuze.historie)
            BY <1>2, <4>1, <4>3 DEF Verwijderd
          <5> HIDE DEF rijen, S, N
          <5>2. tabel[t] = Gekozen(S, keuze.historie) \/ tabel[t] = Gekozen(N, keuze.historie)
                => rijen = Gekozen(N, keuze.historie)
            BY <1>0, <5>1, DeltaKlopt
          <5> QED
            BY <1>0, <2>4, <4>3, <5>2 DEF Inhoud, Gewenst, S, N
        <4> QED
          BY <4>2, <4>3
      <3> QED
        BY <3>1, <3>2
    <2>6. ASSUME ~gemengd, NEW s \in meta.typen, s # t
          PROVE  /\ Inhoud(s, meta.delta) => Inhoud(s, meta.delta)'
                 /\ Inhoud(s, dag) => Inhoud(s, dag)'
      <3>1. s \in Typen
        BY <1>0 DEF TypeOK
      <3> HIDE DEF rijen
      <3> QED
        BY <2>4, <2>6, <3>1 DEF Inhoud, Gewenst
    <2>7. t \in meta.typen /\ ~gemengd => Inhoud(t, dag)'
      BY <1>0, <2>5 DEF Inv, Tabellen, TabelKlopt, Geen
    <2>8. dag' = meta'.delta + 1 /\ meta'.delta < Nu'
      BY <1>0, <2>4
    <2>9. Tabellen'
      <3> HIDE DEF rijen
      <3>1. TabelKlopt'
        BY <1>0, <2>4, <2>6, <2>7, <2>8 DEF Inv, Tabellen, TabelKlopt, Geen, Inhoud, Gewenst
      <3>2. ~gemengd' => \A s \in meta'.typen \ rest' : Inhoud(s, dag)'
        BY <1>0, <2>4, <2>6, <2>7 DEF Inv, Tabellen
      <3> QED
        BY <1>0, <2>4, <3>1, <3>2 DEF Tabellen
    <2> QED
      BY <2>4, <2>9 DEF Inv
  <1> QED
    BY <1>3, <1>4

(* A zip of which every file is committed, and then its id.                 *)
LEMMA KlaarFeit ==
    ASSUME Inv, KlaarInitial \/ (KlaarDelta /\ ~gemengd)
    PROVE  \A t \in meta'.typen : Inhoud(t, meta.delta)'
  <1>1. /\ rest = {} /\ meta' = [meta EXCEPT !.delta = dag]
        /\ UNCHANGED <<register, tabel>>
    BY DEF KlaarInitial, KlaarDelta
  <1>2. meta'.delta = dag /\ meta'.typen = meta.typen /\ meta'.historie = meta.historie
    BY <1>1 DEF Inv, Typering, TypeOK
  <1>3. \A t \in meta.typen : Inhoud(t, dag)
    BY <1>1 DEF Inv, Tabellen, Opdracht, KlaarInitial, KlaarDelta
  <1> QED
    BY <1>1, <1>2, <1>3 DEF Inhoud, Gewenst

LEMMA KlaarDeltaInv == ASSUME Inv, KlaarDelta PROVE Inv'
  <1>1. /\ pc = "update" /\ rest = {} /\ meta' = [meta EXCEPT !.delta = dag]
        /\ UNCHANGED <<register, tabellen, tabel, gemengd, ladingen, pech>>
        /\ \/ dag = tot /\ Einde(0)
           \/ dag # tot /\ pc' = "delta" /\ UNCHANGED <<keuze, dag, tot, rest, exit>>
    BY DEF KlaarDelta, opdracht
  <1>2. /\ TypeOK /\ Nu' = Nu /\ Nu \in Nat /\ dag <= tot /\ dag \in 1..Nu /\ tot \in 0..Nu
        /\ meta.delta \in 1..Nu
    BY <1>1 DEF Inv, Typering, TypeOK, Nu
  <1>3. /\ meta' \in [bestaat : BOOLEAN, delta : 0..Nu, typen : SUBSET Typen, historie : BOOLEAN]
        /\ meta'.delta = dag /\ meta'.typen = meta.typen /\ meta'.historie = meta.historie
    BY <1>1, <1>2 DEF TypeOK
  <1>4. TypeOK'
    <2>1. CASE dag = tot /\ Einde(0)
      <3>1. keuze' \in Keuze /\ Geen \in 0..Nu
        BY <1>2, <2>1 DEF Einde, GeenKeuze, Keuze, Geen
      <3> QED
        BY <1>1, <1>2, <1>3, <2>1, <3>1 DEF TypeOK, Einde
    <2>2. CASE dag # tot /\ pc' = "delta" /\ UNCHANGED <<keuze, dag, tot, rest, exit>>
      BY <1>1, <1>2, <1>3, <2>2 DEF TypeOK
    <2> QED
      BY <1>1, <2>1, <2>2
  <1>5. Typering' /\ Opdracht'
    BY <1>1, <1>2, <1>3, <1>4 DEF Inv, Typering, Opdracht, Einde
  <1>6. Blijvend'
    BY <1>1, <1>2 DEF Inv, Blijvend, Geweest, Einde
  <1>7. Tabellen'
    BY <1>1, KlaarFeit DEF Tabellen, TabelKlopt, Einde
  <1> QED
    BY <1>5, <1>6, <1>7 DEF Inv

LEMMA NextInv == ASSUME Inv, [Next]_vars PROVE Inv'
  <1>1. CASE RegisterStap
    BY <1>1, RegisterStapInv
  <1>2. CASE Update
    BY <1>2, UpdateInv
  <1>3. CASE Breekt
    BY <1>3, BreektInv
  <1>4. CASE \E k \in Keuzes : Initial(k)
    BY <1>4, InitialInv
  <1>5. CASE Stap
    <2>1. CASE ZetTypen \/ ZetHistorie
      BY <2>1, ZetInv
    <2>2. CASE Extract
      BY <2>2, ExtractInv
    <2>3. CASE KlaarInitial
      BY <2>3, KlaarInitialInv
    <2>4. CASE VraagDelta
      BY <2>4, VraagDeltaInv
    <2>5. CASE KlaarDelta
      BY <2>5, KlaarDeltaInv
    <2>6. CASE Bestand
      BY <2>6, BestandInitialInv, BestandUpdateInv DEF Bestand
    <2> QED
      BY <1>5, <2>1, <2>2, <2>3, <2>4, <2>5, <2>6 DEF Stap
  <1>6. CASE UNCHANGED vars
    BY <1>6 DEF Inv, Typering, TypeOK, Opdracht, Blijvend, Geweest, Tabellen, TabelKlopt,
                Inhoud, Gewenst, Nu, vars
  <1> QED
    BY <1>1, <1>2, <1>3, <1>4, <1>5, <1>6 DEF Next

-----------------------------------------------------------------------------
(* The invariant: what the command that runs is about, and at which day     *)
(* every table is (DownloadCommand, BGTDatabase).                           *)
THEOREM Invariant == Spec => []Inv
  <1>1. Init => Inv
    BY InitInv
  <1>2. Inv /\ [Next]_vars => Inv'
    BY NextInv
  <1> QED
    BY <1>1, <1>2, PTL DEF Spec

(* Type correctness.                                                        *)
THEOREM Types == Spec => []TypeOK
  <1>1. Inv => TypeOK
    BY DEF Inv, Typering
  <1> QED
    BY <1>1, Invariant, PTL

(* The delta id in the metadata says where every table is, whenever a       *)
(* command breaks off (DownloadCommand.loadZipFromURI).                     *)
THEOREM DeltaIdKlopt == Spec => []TabelKlopt
  <1>1. Inv => TabelKlopt
    BY DEF Inv, Tabellen
  <1> QED
    BY <1>1, Invariant, PTL

(* A command that says it succeeded left every table at the delta id        *)
(* (DownloadCommand.initial, update).                                       *)
THEOREM SuccesKlopt == Spec => SuccesIsActueel
  <1> DEFINE Succes == pc # "rust" /\ pc' = "rust" /\ exit' = 0 /\ ~gemengd'
  <1>1. ASSUME Inv, Next, Succes PROVE \A t \in meta'.typen : Inhoud(t, meta.delta)'
    <2>1. KlaarInitial \/ (KlaarDelta /\ ~gemengd)
      <3>1. CASE RegisterStap \/ ZetTypen \/ ZetHistorie \/ Extract \/ VraagDelta
        BY <1>1, <3>1 DEF RegisterStap, ZetTypen, ZetHistorie, Extract, VraagDelta
      <3>2. CASE Update \/ \E k \in Keuzes : Initial(k)
        BY <1>1, <3>2 DEF Update, Initial
      <3>3. CASE Breekt
        BY <1>1, <3>3 DEF Breekt, Einde
      <3>4. CASE Bestand
        BY <1>1, <3>4 DEF Bestand, BestandInitial, BestandUpdate, Geladen, LeegBestand,
                          Mislukt, Einde
      <3>5. CASE KlaarInitial \/ KlaarDelta
        BY <1>1, <3>5 DEF KlaarDelta
      <3> QED
        BY <1>1, <3>1, <3>2, <3>3, <3>4, <3>5 DEF Next, Stap
    <2> QED
      BY <1>1, <2>1, KlaarFeit
  <1>2. Inv /\ [Next]_vars =>
          [pc # "rust" /\ pc' = "rust" /\ exit' = 0 /\ ~gemengd' =>
             \A t \in meta'.typen : Inhoud(t, meta.delta)']_vars
    BY <1>1
  <1> QED
    BY <1>2, Invariant, PTL DEF Spec, SuccesIsActueel
=============================================================================
