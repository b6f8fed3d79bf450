---------------------- MODULE ObjectTableWriterProofs ----------------------
(***************************************************************************)
(* What holds of the table writer for every batch size, every load and     *)
(* everything that may go wrong.                                           *)
(***************************************************************************)
EXTENDS ObjectTableWriter, SequenceTheorems, FiniteSetTheorems, WellFoundedInduction, TLAPS

(***************************************************************************)
(* Loads, objects and rows.                                                *)
(***************************************************************************)
Wijziging == [oud : Nat, nieuw : Nat, attr : BOOLEAN]

(* The fields of a load, and the numbers the sizes are made of.             *)
LEMMA LadingType ==
  ASSUME TypeOK
  PROVE  /\ lading.soort \in {"BGT", "BAG2", "BAG2mutatie"}
         /\ lading.draden \in BOOLEAN /\ lading.dubbel \in BOOLEAN
         /\ lading.begin \subseteq Rijtype
         /\ lading.bestanden \in Seq(Seq(Wijziging))
         /\ Omvang \in Nat \ {0} /\ Batch \in Nat \ {0}
BY SchrijverAannames DEF TypeOK, Omvang, Wijziging

(* The file in hand, and its objects.                                       *)
LEMMA BestandType ==
  ASSUME TypeOK, bestand > 0
  PROVE  /\ bestand \in Nat /\ bestand \in 1..Len(lading.bestanden)
         /\ Bestand \in Seq(Wijziging) /\ Len(Bestand) \in Nat
         /\ pos \in Nat /\ pos <= Len(Bestand)
         /\ \A i \in 1..Len(Bestand) : Bestand[i] \in Wijziging
<1>1. lading.bestanden \in Seq(Seq(Wijziging)) /\ Len(lading.bestanden) \in Nat
  BY LadingType, LenProperties
<1>2. bestand \in 0..Len(lading.bestanden) /\ pos \in 0..Len(Bestand)
  BY DEF TypeOK
<1>3. bestand \in 1..Len(lading.bestanden)
  BY <1>1, <1>2
<1>4. Bestand \in Seq(Wijziging)
  BY <1>1, <1>3, ElementOfSeq DEF Bestand
<1>5. Len(Bestand) \in Nat /\ \A i \in 1..Len(Bestand) : Bestand[i] \in Wijziging
  BY <1>4, LenProperties, ElementOfSeq
<1> QED BY <1>2, <1>3, <1>4, <1>5

(* An object makes at most one row in each table.                           *)
LEMMA RijenType ==
  ASSUME NEW m \in Wijziging, NEW plaats \in Nat \X Nat
  PROVE  /\ Rijen(m, plaats) \subseteq Rijtype
         /\ \A r, s \in Rijen(m, plaats) : r.tabel = s.tabel => r = s
         /\ m.nieuw = Geen => Rijen(m, plaats) = {}
         /\ \A r \in Rijen(m, plaats) : r.sleutel = m.nieuw
<1>1. m.nieuw \in Nat
  BY DEF Wijziging
<1>2. \A t \in Tabellen : /\ Rij(t, m, plaats) \in Rijtype
                          /\ Rij(t, m, plaats).tabel = t
                          /\ Rij(t, m, plaats).sleutel = m.nieuw
  BY <1>1 DEF Rij, Rijtype
<1>3. \A r \in Rijen(m, plaats) :
        /\ m.nieuw # Geen
        /\ r = Rij("hoofd", m, plaats) \/ r = Rij("attr", m, plaats)
  BY DEF Rijen
<1> QED BY <1>2, <1>3 DEF Tabellen, Rijen

(* Adding rows, at most one for a table, to the batches keeps a batch       *)
(* smaller than its size, and adds them to what is written or waiting.      *)
LEMMA VoegToeType ==
  ASSUME TypeOK, NEW nieuw \in SUBSET Rijtype,
         \A r, s \in nieuw : r.tabel = s.tabel => r = s, VoegToe(nieuw)
  PROVE  /\ tx' \subseteq Rijtype /\ batch' \in [Tabellen -> SUBSET Rijtype]
         /\ \A t \in Tabellen : IsFiniteSet(batch'[t]) /\ Cardinality(batch'[t]) < Omvang
         /\ tx \subseteq tx'
         /\ tx' \union Resteert' = tx \union Resteert \union nieuw
<1> DEFINE vol == {t \in Tabellen : Vol(t) /\ \E r \in nieuw : r.tabel = t}
           erin(t) == batch[t] \union {r \in nieuw : r.tabel = t}
<1>1. /\ tx' = tx \union UNION {erin(t) : t \in vol}
      /\ batch' = [t \in Tabellen |-> IF t \in vol THEN {} ELSE erin(t)]
  BY DEF VoegToe
<1>2. /\ tx \subseteq Rijtype /\ batch \in [Tabellen -> SUBSET Rijtype]
      /\ \A t \in Tabellen : IsFiniteSet(batch[t]) /\ Cardinality(batch[t]) < Omvang
      /\ Omvang \in Nat \ {0}
  BY LadingType DEF TypeOK
<1>3. \A t \in Tabellen : erin(t) \subseteq Rijtype
  BY <1>2
<1>4. tx' \subseteq Rijtype
  BY <1>1, <1>2, <1>3
<1>5. batch' \in [Tabellen -> SUBSET Rijtype]
  BY <1>1, <1>3
<1>6. ASSUME NEW t \in Tabellen
      PROVE  IsFiniteSet(batch'[t]) /\ Cardinality(batch'[t]) < Omvang
  <2>1. CASE t \in vol
    BY <1>1, <1>2, <2>1, FS_EmptySet
  <2>2. CASE t \notin vol /\ \E r \in nieuw : r.tabel = t
    <3>1. PICK r \in nieuw : r.tabel = t
      BY <2>2
    <3>2. {s \in nieuw : s.tabel = t} = {r}
      BY <3>1
    <3>3. batch'[t] = batch[t] \union {r}
      BY <1>1, <2>2, <3>2
    <3>4. Cardinality(batch[t]) + 1 # Omvang
      BY <2>2 DEF Vol
    <3>5. Cardinality(batch[t]) \in Nat
      BY <1>2, FS_CardinalityType
    <3>6. /\ IsFiniteSet(batch[t] \union {r})
          /\ \/ Cardinality(batch[t] \union {r}) = Cardinality(batch[t])
             \/ Cardinality(batch[t] \union {r}) = Cardinality(batch[t]) + 1
      BY <1>2, FS_AddElement
    <3>7. Cardinality(batch[t]) < Omvang /\ Omvang \in Nat
      BY <1>2
    <3> QED BY <3>3, <3>4, <3>5, <3>6, <3>7
  <2>3. CASE ~\E r \in nieuw : r.tabel = t
    <3>1. batch'[t] = batch[t]
      BY <1>1, <2>3
    <3> QED BY <1>2, <3>1
  <2> QED BY <2>1, <2>2, <2>3
<1>7. tx' \union Resteert' = tx \union Resteert \union nieuw
  <2>1. Resteert' = UNION {IF t \in vol THEN {} ELSE erin(t) : t \in Tabellen}
    BY <1>1 DEF Resteert
  <2>2. tx' \union Resteert' = tx \union UNION {erin(t) : t \in Tabellen}
    <3>1. ASSUME NEW r PROVE r \in Resteert' <=> \E t \in Tabellen \ vol : r \in erin(t)
      <4> HIDE DEF vol, erin
      <4> QED BY <2>1
    <3>2. ASSUME NEW r
          PROVE  r \in UNION {erin(t) : t \in vol} <=> \E t \in vol : r \in erin(t)
      <4> HIDE DEF vol, erin
      <4> QED OBVIOUS
    <3>3. vol \subseteq Tabellen
      OBVIOUS
    <3> HIDE DEF vol, erin
    <3> QED BY <1>1, <3>1, <3>2, <3>3
  <2>3. UNION {erin(t) : t \in Tabellen} = Resteert \union nieuw
    BY DEF Resteert, Rijtype
  <2> QED BY <2>2, <2>3
<1> QED BY <1>1, <1>4, <1>5, <1>6, <1>7

(* One object goes to the batches, or part of it, or nothing.               *)
LEMMA SchrijfType ==
  ASSUME TypeOK, bestand > 0, NEW i \in 1..Len(Bestand),
         Geschreven(i) \/ NietGeschreven(i)
  PROVE  /\ tx' \subseteq Rijtype /\ batch' \in [Tabellen -> SUBSET Rijtype]
         /\ \A t \in Tabellen : IsFiniteSet(batch'[t]) /\ Cardinality(batch'[t]) < Omvang
         /\ stuk' \in BOOLEAN
         /\ Geschreven(i) => tx' \union Resteert' = tx \union Resteert
                                   \union Rijen(Bestand[i], <<bestand, i>>)
<1> DEFINE nieuw == Rijen(Bestand[i], <<bestand, i>>)
           hoofd == {r \in nieuw : r.tabel = "hoofd"}
<1>1. /\ nieuw \in SUBSET Rijtype /\ hoofd \in SUBSET Rijtype
      /\ \A r, s \in nieuw : r.tabel = s.tabel => r = s
      /\ \A r, s \in hoofd : r.tabel = s.tabel => r = s
  <2>1. Bestand[i] \in Wijziging /\ <<bestand, i>> \in Nat \X Nat
    BY BestandType
  <2>2. nieuw \subseteq Rijtype /\ \A r, s \in nieuw : r.tabel = s.tabel => r = s
    BY <2>1, RijenType
  <2> HIDE DEF nieuw
  <2> QED BY <2>2
<1>2. /\ tx \subseteq Rijtype /\ batch \in [Tabellen -> SUBSET Rijtype]
      /\ \A t \in Tabellen : IsFiniteSet(batch[t]) /\ Cardinality(batch[t]) < Omvang
      /\ stuk \in BOOLEAN
  BY DEF TypeOK
<1>3. /\ Geschreven(i) => VoegToe(nieuw) /\ UNCHANGED stuk
      /\ NietGeschreven(i) => \/ UNCHANGED <<tx, batch, stuk>>
                              \/ VoegToe(hoofd) /\ UNCHANGED stuk
                              \/ stuk' = TRUE /\ UNCHANGED <<tx, batch>>
  BY DEF Geschreven, NietGeschreven
<1> HIDE DEF nieuw, hoofd
<1>4. CASE Geschreven(i)
  BY <1>1, <1>2, <1>3, <1>4, VoegToeType DEF nieuw
<1>5. CASE NietGeschreven(i) /\ ~Geschreven(i)
  <2>1. CASE VoegToe(hoofd) /\ UNCHANGED stuk
    BY <1>1, <1>2, <1>5, <2>1, VoegToeType
  <2>2. CASE UNCHANGED <<tx, batch, stuk>>
    BY <1>2, <1>5, <2>2
  <2>3. CASE stuk' = TRUE /\ UNCHANGED <<tx, batch>>
    BY <1>2, <1>5, <2>3
  <2> QED BY <1>3, <1>5, <2>1, <2>2, <2>3
<1> QED BY <1>4, <1>5

(***************************************************************************)
(* Type correctness: what the queue and the worker hold are places in the  *)
(* file in hand, or the marker.                                            *)
(***************************************************************************)
Plaatsing == 0..Len(Bestand)

Voortgang ==
    /\ bestand = 0 => pc = "start" /\ wpc = "uit"
    /\ bestand > 0 => queue \in Seq(Plaatsing) /\ lokaal \in Seq(Plaatsing)
    /\ pc \in {"controle", "offer", "schrijf"} => pos > 0
    /\ wpc \in {"uit", "take"} => lokaal = <<>>

TypeInv == TypeOK /\ Voortgang

(* The invariant holds before anything is read.                             *)
LEMMA InitType == Init => TypeInv
<1> SUFFICES ASSUME Init PROVE TypeInv
  OBVIOUS
<1>1. /\ lading \in Ladingen /\ lading.begin \subseteq Rijtype
      /\ lading.bestanden \in Seq(Seq(Wijziging))
      /\ Omvang \in Nat \ {0} /\ Batch \in Nat \ {0}
  BY SchrijverAannames DEF Init, Omvang, Wijziging
<1>2. Len(lading.bestanden) \in Nat
  BY <1>1, LenProperties
<1>3. queue \in Seq(Nat) /\ lokaal \in Seq(Nat) /\ Len(queue) = 0
  BY EmptySeq DEF Init
<1>4. /\ batch \in [Tabellen -> SUBSET Rijtype]
      /\ \A t \in Tabellen : IsFiniteSet(batch[t]) /\ Cardinality(batch[t]) < Omvang
  BY <1>1, FS_EmptySet DEF Init, LegeBatch
<1>5. /\ db \subseteq Rijtype /\ tx \subseteq Rijtype /\ wis = {} /\ gezien = {}
      /\ stuk = FALSE /\ leeg = TRUE /\ exceptionFromWorkerThread = FALSE
      /\ verloren = FALSE /\ pc = "start" /\ wpc = "uit" /\ bestand = 0
      /\ lokaal = <<>> /\ lading \in Ladingen
  BY <1>1 DEF Init
<1>6. TypeOK
  <2>1. bestand \in 0..Len(lading.bestanden) /\ ~(bestand > 0) /\ Len(queue) <= Batch
    BY <1>1, <1>2, <1>3, <1>5
  <2>2. wis \subseteq Nat /\ gezien \subseteq Nat
        /\ {stuk, leeg, exceptionFromWorkerThread, verloren} \subseteq BOOLEAN
    BY <1>5
  <2> QED BY <1>3, <1>4, <1>5, <2>1, <2>2 DEF TypeOK
<1>7. Voortgang
  BY <1>5 DEF Voortgang
<1> QED BY <1>6, <1>7 DEF TypeInv

(* What a step reads of the invariant.                                      *)
LEMMA Feiten ==
  ASSUME TypeInv, pc # "start" \/ wpc # "uit"
  PROVE  /\ bestand > 0 /\ bestand \in Nat /\ pos \in Nat /\ pos <= Len(Bestand)
         /\ Len(Bestand) \in Nat /\ Plaatsing \subseteq Nat /\ pos \in Plaatsing
         /\ Marker \in Plaatsing
         /\ queue \in Seq(Plaatsing) /\ lokaal \in Seq(Plaatsing)
         /\ Len(queue) \in Nat /\ Len(queue) <= Batch
<1>1. bestand \in Nat /\ bestand > 0
  <2>1. Len(lading.bestanden) \in Nat
    BY LadingType, LenProperties DEF TypeInv
  <2>2. bestand \in 0..Len(lading.bestanden) /\ bestand # 0
    BY DEF TypeInv, TypeOK, Voortgang
  <2> QED BY <2>1, <2>2
<1>2. /\ pos \in Nat /\ pos <= Len(Bestand) /\ Len(Bestand) \in Nat
  BY <1>1, BestandType DEF TypeInv
<1>3. Plaatsing \subseteq Nat /\ pos \in Plaatsing /\ Marker \in Plaatsing
  BY <1>2 DEF Plaatsing, Marker
<1>4. /\ queue \in Seq(Plaatsing) /\ lokaal \in Seq(Plaatsing) /\ Len(queue) <= Batch
  BY <1>1 DEF TypeInv, TypeOK, Voortgang
<1>5. Len(queue) \in Nat
  BY <1>4, LenProperties
<1> QED BY <1>1, <1>2, <1>3, <1>4, <1>5

(* The parts of the invariant that a step which only moves a thread keeps.  *)
LEMMA TypeGelijk ==
  ASSUME TypeInv, UNCHANGED <<lading, dbVars, batchVars, bestand, pos, verloren>>,
         exceptionFromWorkerThread' \in BOOLEAN,
         pc' \in {"start", "lees", "controle", "offer", "schrijf", "einde", "join",
                  "wissen", "voltooien", "commit", "fout", "abort", "abortjoin",
                  "gefaald"},
         wpc' \in {"uit", "take", "drain", "schrijf"},
         bestand > 0, queue' \in Seq(Plaatsing), lokaal' \in Seq(Plaatsing),
         Len(queue') <= Batch,
         pc' \in {"controle", "offer", "schrijf"} => pos > 0,
         wpc' \in {"uit", "take"} => lokaal' = <<>>
  PROVE  TypeInv'
<1>1. Plaatsing \subseteq Nat
  BY BestandType DEF TypeInv, Plaatsing
<1>2. queue' \in Seq(Nat) /\ lokaal' \in Seq(Nat)
  BY <1>1, SeqMonotonic
<1>3. TypeOK'
  BY <1>2 DEF TypeInv, TypeOK, dbVars, batchVars, Omvang, Bestand
<1>4. Voortgang'
  BY DEF Voortgang, Plaatsing, Bestand
<1> QED BY <1>3, <1>4 DEF TypeInv

(* Every step keeps it.                                                     *)
LEMMA StapType ==
  ASSUME TypeInv, [Next]_vars
  PROVE  TypeInv'
<1> USE DEF TypeInv
<1>t. /\ lading \in Ladingen /\ stuk \in BOOLEAN /\ leeg \in BOOLEAN
      /\ exceptionFromWorkerThread \in BOOLEAN /\ verloren \in BOOLEAN
      /\ db \subseteq Rijtype /\ tx \subseteq Rijtype /\ wis \subseteq Nat
      /\ gezien \subseteq Nat /\ wpc \in {"uit", "take", "drain", "schrijf"}
  BY DEF TypeOK
<1>1. CASE Start
  <2>1. /\ bestand' = bestand + 1 /\ bestand < Len(lading.bestanden) /\ pos' = 0
        /\ pc' = "lees" /\ queue' = <<>> /\ batch' = LegeBatch /\ wis' = {}
        /\ leeg' = TRUE /\ wpc' \in {"take", "uit"} /\ lokaal' = <<>>
        /\ exceptionFromWorkerThread' \in BOOLEAN
        /\ UNCHANGED <<lading, db, tx, stuk, gezien, verloren>>
    BY <1>1, <1>t DEF Start, dbVars
  <2>2. /\ lading.bestanden \in Seq(Seq(Wijziging)) /\ Len(lading.bestanden) \in Nat
        /\ Omvang \in Nat \ {0} /\ Batch \in Nat /\ bestand \in Nat
    BY LadingType, LenProperties DEF TypeOK
  <2>3. bestand' \in 1..Len(lading.bestanden)
    BY <2>1, <2>2
  <2>4. lading.bestanden[bestand'] \in Seq(Wijziging)
    BY <2>2, <2>3, ElementOfSeq
  <2>5. pos' \in 0..Len(Bestand')
    BY <2>1, <2>4, LenProperties DEF Bestand
  <2>6. /\ batch' \in [Tabellen -> SUBSET Rijtype]
        /\ \A t \in Tabellen : IsFiniteSet(batch'[t]) /\ Cardinality(batch'[t]) < Omvang'
    BY <2>1, <2>2, FS_EmptySet DEF LegeBatch, Omvang
  <2>7. /\ queue' \in Seq(Nat) /\ lokaal' \in Seq(Nat) /\ Len(queue') <= Batch
        /\ queue' \in Seq(Plaatsing') /\ lokaal' \in Seq(Plaatsing')
    BY <2>1, <2>2, EmptySeq
  <2>8. bestand' \in 0..Len(lading'.bestanden) /\ bestand' # 0
    BY <2>1, <2>2, <2>3
  <2>9. TypeOK'
    BY <2>1, <2>5, <2>6, <2>7, <2>8, <1>t DEF TypeOK
  <2>10. Voortgang'
    BY <2>1, <2>7, <2>8 DEF Voortgang
  <2> QED BY <2>9, <2>10
<1>2. CASE Lees
  <2> DEFINE m == Bestand[pos + 1]
  <2>1. /\ pc = "lees" /\ pos < Len(Bestand) /\ pos' = pos + 1
        /\ pc' \in {"lees", "controle", "schrijf"}
        /\ UNCHANGED <<lading, db, stuk, batch, exceptionFromWorkerThread, queue,
                       bestand, wpc, lokaal, verloren>>
    BY <1>2 DEF Lees, workerVars
  <2>2. /\ bestand > 0 /\ pos \in Nat /\ Len(Bestand) \in Nat
        /\ queue \in Seq(Plaatsing) /\ lokaal \in Seq(Plaatsing)
    BY <2>1, Feiten
  <2>3. m \in Wijziging
    BY <2>1, <2>2, BestandType
  <2>4. m.oud \in Nat /\ m.nieuw \in Nat
    BY <2>3 DEF Wijziging
  <2>5. /\ tx' \subseteq tx /\ wis' \subseteq wis \union {m.oud} /\ leeg' \in BOOLEAN
        /\ gezien' \subseteq gezien \union {m.nieuw}
    BY <1>2, <1>t DEF Lees, Gewist
  <2>6. tx' \subseteq Rijtype /\ wis' \subseteq Nat /\ gezien' \subseteq Nat
    BY <2>4, <2>5, <1>t
  <2>7. pos' \in 0..Len(Bestand') /\ pos' > 0
    BY <2>1, <2>2 DEF Bestand
  <2>8. TypeOK'
    BY <2>1, <2>5, <2>6, <2>7 DEF TypeOK, Omvang
  <2>9. Voortgang'
    BY <2>1, <2>2, <2>7 DEF Voortgang, Plaatsing, Bestand
  <2> QED BY <2>8, <2>9
<1>3. CASE LeesFout
  <2>1. /\ pc = "lees" /\ pc' = "fout" /\ stuk' \in BOOLEAN
        /\ UNCHANGED <<lading, db, tx, batchVars, exceptionFromWorkerThread, queue,
                       bestand, pos, workerVars, verloren>>
    BY <1>3, <1>t DEF LeesFout
  <2>2. TypeOK'
    BY <2>1 DEF TypeOK, Omvang, Bestand, batchVars, workerVars
  <2>3. Voortgang'
    BY <2>1 DEF Voortgang, Plaatsing, Bestand, workerVars
  <2> QED BY <2>2, <2>3
<1>4. CASE LeesEinde \/ Controle \/ Join \/ AbortJoin
  <2>1. /\ pc # "start" /\ pc' \in {"einde", "wissen", "fout", "offer", "gefaald"}
        /\ pc' = "offer" => pc = "controle"
        /\ UNCHANGED <<lading, dbVars, batchVars, exceptionFromWorkerThread, queue,
                       bestand, pos, workerVars, verloren>>
    BY <1>4 DEF LeesEinde, Controle, Join, AbortJoin
  <2> QED BY <2>1, <1>t, Feiten, TypeGelijk DEF Voortgang, workerVars
<1>5. CASE Offer
  <2>1. /\ pc = "offer" /\ pc' \in {"lees", "controle"}
        /\ \/ Len(queue) < Batch /\ queue' = Append(queue, pos)
           \/ queue' = queue
        /\ UNCHANGED <<lading, dbVars, batchVars, exceptionFromWorkerThread,
                       bestand, pos, workerVars, verloren>>
    BY <1>5 DEF Offer
  <2>2. queue' \in Seq(Plaatsing) /\ Len(queue') <= Batch
    <3>1. /\ pc # "start" /\ pos \in Plaatsing /\ queue \in Seq(Plaatsing)
          /\ Len(queue) \in Nat /\ Len(queue) <= Batch /\ Batch \in Nat
      BY <2>1, Feiten, LadingType
    <3>2. CASE queue' = queue
      BY <3>1, <3>2
    <3>3. CASE Len(queue) < Batch /\ queue' = Append(queue, pos)
      BY <3>1, <3>3, AppendProperties
    <3> QED BY <2>1, <3>2, <3>3
  <2> QED BY <2>1, <2>2, <1>t, Feiten, TypeGelijk DEF Voortgang, workerVars
<1>6. CASE SchrijfZelf
  <2>1. /\ pc = "schrijf" /\ pc' \in {"lees", "fout"}
        /\ Geschreven(pos) \/ NietGeschreven(pos)
        /\ UNCHANGED <<lading, db, wis, leeg, gezien, exceptionFromWorkerThread,
                       queue, bestand, pos, workerVars, verloren>>
    BY <1>6 DEF SchrijfZelf
  <2>2. bestand > 0 /\ pos \in 1..Len(Bestand)
    BY <2>1, Feiten DEF Voortgang
  <2>3. /\ tx' \subseteq Rijtype /\ batch' \in [Tabellen -> SUBSET Rijtype]
        /\ \A t \in Tabellen : IsFiniteSet(batch'[t]) /\ Cardinality(batch'[t]) < Omvang
        /\ stuk' \in BOOLEAN
    BY <2>1, <2>2, SchrijfType
  <2>4. TypeOK'
    BY <2>1, <2>3 DEF TypeOK, Omvang, Bestand, workerVars
  <2>5. Voortgang'
    BY <2>1 DEF Voortgang, Plaatsing, Bestand, workerVars
  <2> QED BY <2>4, <2>5
<1>7. CASE EindeObjecten \/ AbortPut
  <2>1. /\ pc # "start" /\ pc' \in {"join", "abortjoin"}
        /\ Len(queue) < Batch /\ queue' = Append(queue, Marker)
        /\ UNCHANGED <<lading, dbVars, batchVars, exceptionFromWorkerThread,
                       bestand, pos, workerVars, verloren>>
    BY <1>7 DEF EindeObjecten, AbortPut
  <2>2. queue' \in Seq(Plaatsing) /\ Len(queue') <= Batch
    BY <2>1, Feiten, AppendProperties, LadingType
  <2> QED BY <2>1, <2>2, <1>t, Feiten, TypeGelijk DEF Voortgang, workerVars
<1>8. CASE Wissen
  <2>1. /\ pc = "wissen" /\ pc' \in {"voltooien", "fout"} /\ stuk' \in BOOLEAN
        /\ tx' \subseteq tx /\ wis' \subseteq wis
        /\ UNCHANGED <<lading, db, batch, leeg, gezien, exceptionFromWorkerThread,
                       queue, bestand, pos, workerVars, verloren>>
    BY <1>8, <1>t DEF Wissen, Gewist
  <2>2. TypeOK'
    BY <2>1, <1>t DEF TypeOK, Omvang, Bestand, workerVars
  <2>3. Voortgang'
    BY <2>1 DEF Voortgang, Plaatsing, Bestand, workerVars
  <2> QED BY <2>2, <2>3
<1>9. CASE Voltooien
  <2>1. /\ pc = "voltooien" /\ pc' \in {"commit", "fout"} /\ stuk' \in BOOLEAN
        /\ \/ tx' = tx \union Resteert /\ batch' = LegeBatch
           \/ UNCHANGED <<tx, batch>>
        /\ UNCHANGED <<lading, db, wis, leeg, gezien, exceptionFromWorkerThread,
                       queue, bestand, pos, workerVars, verloren>>
    BY <1>9, <1>t DEF Voltooien
  <2>2. Resteert \subseteq Rijtype
    BY DEF TypeOK, Resteert
  <2>3. /\ tx' \subseteq Rijtype /\ batch' \in [Tabellen -> SUBSET Rijtype]
        /\ \A t \in Tabellen : IsFiniteSet(batch'[t]) /\ Cardinality(batch'[t]) < Omvang
    <3>1. CASE batch' = LegeBatch /\ tx' = tx \union Resteert
      BY <2>2, <3>1, <1>t, LadingType, FS_EmptySet DEF LegeBatch
    <3>2. CASE UNCHANGED <<tx, batch>>
      BY <3>2 DEF TypeOK
    <3> QED BY <2>1, <3>1, <3>2
  <2>4. TypeOK'
    BY <2>1, <2>3 DEF TypeOK, Omvang, Bestand, workerVars
  <2>5. Voortgang'
    BY <2>1 DEF Voortgang, Plaatsing, Bestand, workerVars
  <2> QED BY <2>4, <2>5
<1>10. CASE Commit
  <2>1. /\ pc = "commit" /\ pc' \in {"start", "fout"} /\ db' \subseteq Rijtype
        /\ verloren' \in BOOLEAN
        /\ UNCHANGED <<lading, tx, stuk, batchVars, exceptionFromWorkerThread, queue,
                       bestand, pos, workerVars>>
    BY <1>10, <1>t DEF Commit
  <2>2. TypeOK'
    BY <2>1 DEF TypeOK, Omvang, Bestand, workerVars, batchVars
  <2>3. Voortgang'
    BY <2>1 DEF Voortgang, Plaatsing, Bestand, workerVars
  <2> QED BY <2>2, <2>3
<1>11. CASE Fout
  <2>1. /\ pc = "fout" /\ pc' \in {"abort", "gefaald"} /\ queue' \in {queue, <<>>}
        /\ UNCHANGED <<lading, dbVars, batchVars, exceptionFromWorkerThread,
                       bestand, pos, workerVars, verloren>>
    BY <1>11 DEF Fout
  <2>2. queue' \in Seq(Plaatsing) /\ Len(queue') <= Batch
    <3>1. /\ pc # "start" /\ queue \in Seq(Plaatsing)
          /\ Len(queue) <= Batch /\ Batch \in Nat
      BY <2>1, Feiten, LadingType
    <3>2. <<>> \in Seq(Plaatsing) /\ Len(<<>>) <= Batch
      BY <3>1, EmptySeq
    <3> QED BY <2>1, <3>1, <3>2
  <2> QED BY <2>1, <2>2, <1>t, Feiten, TypeGelijk DEF Voortgang, workerVars
<1>12. CASE Take
  <2>1. /\ wpc = "take" /\ queue # <<>> /\ lokaal' = <<Head(queue)>>
        /\ queue' = Tail(queue) /\ wpc' = "drain"
        /\ UNCHANGED <<lading, dbVars, batchVars, exceptionFromWorkerThread,
                       pc, bestand, pos, verloren>>
    BY <1>12 DEF Take, mainVars
  <2>2. queue \in Seq(Plaatsing) /\ Len(queue) \in Nat /\ Len(queue) <= Batch
    BY <2>1, Feiten
  <2>3. /\ Head(queue) \in Plaatsing /\ queue' \in Seq(Plaatsing)
        /\ Len(queue') = Len(queue) - 1
    BY <2>1, <2>2, HeadTailProperties
  <2>4. lokaal' \in Seq(Plaatsing) /\ Len(queue') <= Batch
    BY <2>1, <2>2, <2>3, LadingType
  <2>5. bestand > 0
    BY <2>1, Feiten
  <2>6. pc \in {"controle", "offer", "schrijf"} => pos > 0
    BY DEF Voortgang
  <2>7. pc' \in {"start", "lees", "controle", "offer", "schrijf", "einde", "join",
                 "wissen", "voltooien", "commit", "fout", "abort", "abortjoin",
                 "gefaald"}
    BY <2>1 DEF TypeOK
  <2> QED BY <2>1, <2>3, <2>4, <2>5, <2>6, <2>7, <1>t, TypeGelijk
<1>13. CASE DrainTo
  <2>1. /\ wpc = "drain" /\ lokaal' = lokaal \o queue /\ queue' = <<>>
        /\ wpc' = "schrijf"
        /\ UNCHANGED <<lading, dbVars, batchVars, exceptionFromWorkerThread,
                       pc, bestand, pos, verloren>>
    BY <1>13 DEF DrainTo, mainVars
  <2>2. queue \in Seq(Plaatsing) /\ lokaal \in Seq(Plaatsing) /\ bestand > 0
    BY <2>1, Feiten
  <2>3. /\ lokaal' \in Seq(Plaatsing) /\ queue' \in Seq(Plaatsing)
        /\ Len(queue') <= Batch
    BY <2>1, <2>2, ConcatProperties, EmptySeq, LadingType
  <2>4. pc \in {"controle", "offer", "schrijf"} => pos > 0
    BY DEF Voortgang
  <2>5. pc' \in {"start", "lees", "controle", "offer", "schrijf", "einde", "join",
                 "wissen", "voltooien", "commit", "fout", "abort", "abortjoin",
                 "gefaald"}
    BY <2>1 DEF TypeOK
  <2> QED BY <2>1, <2>2, <2>3, <2>4, <2>5, <1>t, TypeGelijk
<1>14. CASE Verwerk
  <2>1. /\ wpc = "schrijf" /\ wpc' \in {"take", "uit", "schrijf"}
        /\ lokaal' \in {lokaal, <<>>, Tail(lokaal)}
        /\ lokaal' = Tail(lokaal) => lokaal # <<>> \/ lokaal' = <<>>
        /\ wpc' # "schrijf" => lokaal' = <<>>
        /\ exceptionFromWorkerThread' \in BOOLEAN
        /\ \/ UNCHANGED <<tx, stuk, batch>>
           \/ /\ lokaal # <<>> /\ Head(lokaal) # Marker
              /\ Geschreven(Head(lokaal)) \/ NietGeschreven(Head(lokaal))
        /\ UNCHANGED <<lading, db, wis, leeg, gezien, queue, pc, bestand, pos,
                       verloren>>
    BY <1>14, <1>t DEF Verwerk, mainVars
  <2>2. /\ queue \in Seq(Plaatsing) /\ lokaal \in Seq(Plaatsing) /\ bestand > 0
        /\ Len(Bestand) \in Nat
    BY <2>1, Feiten
  <2>3. lokaal' \in Seq(Plaatsing)
    BY <2>1, <2>2, HeadTailProperties, EmptySeq
  <2>4. /\ tx' \subseteq Rijtype /\ batch' \in [Tabellen -> SUBSET Rijtype]
        /\ \A t \in Tabellen : IsFiniteSet(batch'[t]) /\ Cardinality(batch'[t]) < Omvang
        /\ stuk' \in BOOLEAN
    <3>1. CASE UNCHANGED <<tx, stuk, batch>>
      BY <3>1 DEF TypeOK
    <3>2. CASE /\ lokaal # <<>> /\ Head(lokaal) # Marker
               /\ Geschreven(Head(lokaal)) \/ NietGeschreven(Head(lokaal))
      <4>1. Head(lokaal) \in Plaatsing
        BY <2>2, <3>2, HeadTailProperties
      <4>2. Head(lokaal) \in 1..Len(Bestand)
        BY <2>2, <3>2, <4>1 DEF Plaatsing, Marker
      <4> QED BY <2>2, <3>2, <4>2, SchrijfType
    <3> QED BY <2>1, <3>1, <3>2
  <2>5. lokaal' \in Seq(Nat)
    BY <2>1, <2>3, Feiten
  <2>6. TypeOK'
    BY <2>1, <2>4, <2>5 DEF TypeOK, Omvang, Bestand
  <2>7. Voortgang'
    BY <2>1, <2>2, <2>3 DEF Voortgang, Plaatsing, Bestand
  <2> QED BY <2>6, <2>7
<1>15. CASE UNCHANGED vars
  <2>1. TypeOK'
    BY <1>15 DEF TypeOK, vars, dbVars, batchVars, mainVars, workerVars, Omvang, Bestand
  <2>2. Voortgang'
    BY <1>15 DEF Voortgang, vars, mainVars, workerVars, Plaatsing, Bestand
  <2> QED BY <2>1, <2>2
<1> HIDE DEF TypeInv
<1> QED BY <1>1, <1>2, <1>3, <1>4, <1>5, <1>6, <1>7, <1>8, <1>9, <1>10, <1>11, <1>12,
        <1>13, <1>14, <1>15 DEF Next, Hoofd, Worker

(* Every variable keeps its type, no batch reaches its size unexecuted, and *)
(* the queue keeps its bound.                                               *)
THEOREM Types == Spec => []TypeOK
<1>1. TypeInv => TypeOK
  BY DEF TypeInv
<1>2. TypeInv /\ [Next]_vars => TypeInv'
  BY StapType
<1> QED BY InitType, <1>1, <1>2, PTL DEF Spec

(***************************************************************************)
(* No object gets lost between the threads.                                *)
(***************************************************************************)
(* The main thread has put the marker behind the last object.               *)
NaEinde == {"join", "wissen", "voltooien", "commit"}
Goed == /\ lading.soort = "BGT" /\ pc \notin {"start", "fout", "gefaald"}
        /\ ~exceptionFromWorkerThread

(* A table is truncated before the first object only, what waits to be      *)
(* deleted was named in this file, nothing follows the marker, and an       *)
(* object that was offered is on its way.                                   *)
Overdracht ==
    Goed => /\ pc \notin {"abort", "abortjoin"}
            /\ leeg => pos = 0
            /\ \A k \in wis : \E j \in 1..pos : Bestand[j].oud = k
            /\ \A k \in 1..Len(queue) : queue[k] = Marker
                                        => k = Len(queue) /\ pc \in NaEinde
            /\ \A k \in 1..Len(lokaal) : lokaal[k] = Marker
                   => k = Len(lokaal) /\ queue = <<>> /\ pc \in NaEinde
            /\ \A i \in Aangeboden : Onderweg(i)

Inv == TypeInv /\ Overdracht

(* On its way, with the lengths of queue and list.                          *)
LEMMA OnderwegBetekenis ==
  ASSUME TypeInv, bestand > 0, NEW i
  PROVE  Onderweg(i) <=> \/ \E k \in 1..Len(queue) : queue[k] = i
                         \/ \E k \in 1..Len(lokaal) : lokaal[k] = i
                         \/ Rijen(Bestand[i], <<bestand, i>>) \subseteq tx \union Resteert
<1>1. DOMAIN queue = 1..Len(queue) /\ DOMAIN lokaal = 1..Len(lokaal)
  BY LenProperties DEF TypeInv, TypeOK
<1> QED BY <1>1 DEF Onderweg

(* In a file of the BGT no row is made of a version that is deleted.        *)
LEMMA SleutelVeilig ==
  ASSUME TypeInv, bestand > 0, lading.soort = "BGT",
         NEW i \in 1..Len(Bestand), NEW j \in 1..Len(Bestand),
         NEW r \in Rijen(Bestand[i], <<bestand, i>>)
  PROVE  r.sleutel # Bestand[j].oud
<1>1. /\ Bestand[i] \in Wijziging /\ <<bestand, i>> \in Nat \X Nat
      /\ bestand \in 1..Len(lading.bestanden) /\ lading \in Ladingen
  BY BestandType DEF TypeInv, TypeOK
<1>2. r.sleutel = Bestand[i].nieuw /\ Bestand[i].nieuw # Geen
  BY <1>1, RijenType
<1>3. \A f \in 1..Len(lading.bestanden) :
        \A a, b \in 1..Len(lading.bestanden[f]) :
           lading.bestanden[f][a].nieuw # Geen
           => lading.bestanden[f][b].oud # lading.bestanden[f][a].nieuw
  BY <1>1, SchrijverAannames
<1>4. \A a, b \in 1..Len(Bestand) :
         Bestand[a].nieuw # Geen => Bestand[b].oud # Bestand[a].nieuw
  BY <1>1, <1>3 DEF Bestand
<1> QED BY <1>2, <1>4

(* The rows of an offered object stay when previous versions are deleted.   *)
LEMMA WissenVeilig ==
  ASSUME TypeInv, bestand > 0, lading.soort = "BGT", NEW n \in 0..Len(Bestand),
         NEW i \in 1..Len(Bestand), NEW sleutels,
         \A k \in sleutels : \E j \in 1..n : Bestand[j].oud = k,
         Rijen(Bestand[i], <<bestand, i>>) \subseteq tx \union Resteert
  PROVE  Rijen(Bestand[i], <<bestand, i>>) \subseteq Gewist(tx, sleutels) \union Resteert
<1> SUFFICES ASSUME NEW r \in Rijen(Bestand[i], <<bestand, i>>), r \in tx
             PROVE  r \in Gewist(tx, sleutels)
  OBVIOUS
<1>1. Len(Bestand) \in Nat
  BY BestandType DEF TypeInv
<1>2. \A j \in 1..n : j \in 1..Len(Bestand)
  BY <1>1
<1>3. r.sleutel \notin sleutels
  BY <1>2, SleutelVeilig
<1> QED BY <1>3 DEF Gewist

(* A step that leaves queue, list, rows and file alone and offers nothing.  *)
LEMMA OverdrachtGelijk ==
  ASSUME TypeInv, TypeInv', Overdracht,
         UNCHANGED <<lading, bestand, pos, leeg, wis, queue, lokaal, tx, batch,
                     exceptionFromWorkerThread>>,
         Goed' => Goed, pc' \in {"abort", "abortjoin"} => pc \in {"abort", "abortjoin"},
         pc \in NaEinde => pc' \in NaEinde \/ ~Goed',
         Aangeboden' = Aangeboden
  PROVE  Overdracht'
<1> SUFFICES ASSUME Goed' PROVE Overdracht'
  BY DEF Overdracht
<1>1. \A i \in Aangeboden' : Onderweg(i)'
  BY DEF Overdracht, Onderweg, Resteert, Bestand
<1>2. /\ pc \notin {"abort", "abortjoin"}
      /\ leeg => pos = 0
      /\ \A k \in wis : \E j \in 1..pos : Bestand[j].oud = k
      /\ \A k \in 1..Len(queue) : queue[k] = Marker => k = Len(queue) /\ pc \in NaEinde
      /\ \A k \in 1..Len(lokaal) : lokaal[k] = Marker
             => k = Len(lokaal) /\ queue = <<>> /\ pc \in NaEinde
  BY DEF Overdracht
<1>3. Bestand' = Bestand
  BY DEF Bestand
<1> QED BY <1>1, <1>2, <1>3 DEF Overdracht

(* An object goes to the batches: what was on its way stays so, and the     *)
(* rows of this one are there.                                              *)
LEMMA GeschrevenOnderweg ==
  ASSUME TypeInv, bestand > 0, NEW h \in 1..Len(Bestand), Geschreven(h),
         UNCHANGED <<lading, bestand>>, NEW i \in 1..Len(Bestand),
         \/ i = h
         \/ Rijen(Bestand[i], <<bestand, i>>) \subseteq tx \union Resteert
  PROVE  Rijen(Bestand[i], <<bestand, i>>)' \subseteq tx' \union Resteert'
<1>1. TypeOK
  BY DEF TypeInv
<1>2. tx' \union Resteert' = tx \union Resteert \union Rijen(Bestand[h], <<bestand, h>>)
  BY <1>1, SchrijfType
<1>3. Rijen(Bestand[i], <<bestand, i>>)' = Rijen(Bestand[i], <<bestand, i>>)
  BY DEF Bestand
<1> QED BY <1>2, <1>3

(* Every step keeps the handover.                                           *)
LEMMA StapOverdracht ==
  ASSUME Inv, TypeInv', [Next]_vars
  PROVE  Overdracht'
<1> SUFFICES ASSUME Goed' PROVE Overdracht'
  BY DEF Overdracht
<1> DEFINE rij(i) == Rijen(Bestand[i], <<bestand, i>>)
<1>i. TypeInv /\ Overdracht
  BY DEF Inv
<1>u. /\ wpc \in {"uit", "take", "drain", "schrijf"}
      /\ exceptionFromWorkerThread \in BOOLEAN
  BY <1>i DEF TypeInv, TypeOK
<1>1. CASE Start
  <2>1. /\ pc' = "lees" /\ pos' = 0 /\ queue' = <<>> /\ lokaal' = <<>> /\ wis' = {}
    BY <1>1 DEF Start
  <2>2. Len(queue') = 0 /\ Len(lokaal') = 0 /\ Aangeboden' = {}
    BY <2>1, EmptySeq DEF Aangeboden
  <2> QED BY <2>1, <2>2 DEF Overdracht
<1>2. CASE Lees
  <2> DEFINE m == Bestand[pos + 1]
             sleutels == wis \union ({m.oud} \ {Geen})
             rijen == IF leeg /\ bestand \in lading.initieel THEN {} ELSE tx
  <2>1. /\ pc = "lees" /\ pos < Len(Bestand) /\ pos' = pos + 1
        /\ UNCHANGED <<lading, bestand, batch, queue, lokaal,
                       exceptionFromWorkerThread>>
    BY <1>2 DEF Lees, workerVars
  <2>2. Goed /\ lading.soort = "BGT" /\ ~lading.dubbel
    <3>1. Goed /\ lading.soort = "BGT"
      BY <2>1 DEF Goed
    <3> QED BY <3>1, <1>i, SchrijverAannames DEF TypeInv, TypeOK
  <2>3. /\ tx' = (IF WisVol(m) THEN Gewist(rijen, sleutels) ELSE rijen)
        /\ wis' = (IF WisVol(m) THEN {} ELSE sleutels) /\ leeg' = FALSE
        /\ \/ pc' = "lees" /\ m.nieuw = Geen
           \/ pc' \in {"controle", "schrijf"}
    BY <1>2, <2>2 DEF Lees, Dubbel
  <2>4. /\ bestand > 0 /\ pos \in Nat /\ Len(Bestand) \in Nat /\ bestand \in Nat
    BY <2>1, <1>i, Feiten
  <2>5. pos + 1 \in 1..Len(Bestand) /\ m \in Wijziging
    BY <2>1, <2>4, <1>i, BestandType DEF TypeInv
  <2>6. /\ leeg => pos = 0
        /\ \A k \in wis : \E j \in 1..pos : Bestand[j].oud = k
        /\ \A k \in 1..Len(queue) : queue[k] # Marker
        /\ \A k \in 1..Len(lokaal) : lokaal[k] # Marker
        /\ \A i \in 1..pos : Onderweg(i)
    BY <2>1, <2>2, <1>i DEF Overdracht, Aangeboden, NaEinde
  <2>7. \A k \in sleutels : \E j \in 1..(pos + 1) : Bestand[j].oud = k
    <3>1. \A j \in 1..pos : j \in 1..(pos + 1)
      BY <2>4
    <3>2. pos + 1 \in 1..(pos + 1)
      BY <2>4
    <3> QED BY <2>6, <3>1, <3>2
  <2>8. \A k \in wis' : \E j \in 1..pos' : Bestand'[j].oud = k
    <3>1. wis' \subseteq sleutels
      BY <2>3
    <3>2. Bestand' = Bestand
      BY <2>1 DEF Bestand
    <3> HIDE DEF sleutels
    <3> QED BY <2>1, <2>7, <3>1, <3>2
  <2>9. ASSUME NEW i \in 1..pos PROVE Onderweg(i)'
    <3>1. ~leeg /\ i \in 1..Len(Bestand) /\ Onderweg(i)
      BY <2>1, <2>4, <2>6
    <3>2. CASE rij(i) \subseteq tx \union Resteert
      <4>1. pos + 1 \in 0..Len(Bestand)
        BY <2>4, <2>5
      <4>2. rij(i) \subseteq Gewist(tx, sleutels) \union Resteert
        <5> HIDE DEF sleutels
        <5> QED BY <2>2, <2>4, <2>7, <3>1, <3>2, <4>1, <1>i, WissenVeilig
      <4>3. tx' = tx \/ tx' = Gewist(tx, sleutels)
        BY <2>3, <3>1
      <4>4. rij(i) \subseteq tx' \union Resteert
        BY <3>2, <4>2, <4>3
      <4>5. Resteert' = Resteert /\ rij(i)' = rij(i)
        BY <2>1 DEF Resteert, Bestand
      <4> QED BY <4>4, <4>5 DEF Onderweg
    <3>3. CASE ~(rij(i) \subseteq tx \union Resteert)
      BY <2>1, <3>1, <3>3 DEF Onderweg
    <3> QED BY <3>2, <3>3
  <2>10. ASSUME NEW i, i = pos + 1, pc' = "lees" PROVE Onderweg(i)'
    <3>1. m.nieuw = Geen
      BY <2>3, <2>10
    <3>2. rij(i) = {}
      BY <2>4, <2>5, <2>10, <3>1, RijenType
    <3>3. rij(i)' = rij(i)
      BY <2>1 DEF Bestand
    <3> QED BY <3>2, <3>3 DEF Onderweg
  <2>11. \A i \in Aangeboden' : Onderweg(i)'
    <3>1. /\ pc' = "lees" => Aangeboden' = 1..(pos + 1)
          /\ pc' # "lees" => Aangeboden' = 1..pos
      BY <2>1, <2>3, <2>4 DEF Aangeboden
    <3>2. \A i \in 1..(pos + 1) : i \in 1..pos \/ i = pos + 1
      BY <2>4
    <3> QED BY <2>9, <2>10, <3>1, <3>2
  <2> QED BY <2>1, <2>3, <2>6, <2>8, <2>11 DEF Overdracht
<1>3. CASE LeesFout
  BY <1>3 DEF LeesFout, Goed
<1>4. CASE LeesEinde \/ Controle \/ Join
  <2>1. /\ pc' \in {"einde", "wissen", "fout", "offer"}
        /\ \/ pc = "lees" /\ pc' \in {"einde", "wissen"}
           \/ pc = "controle" /\ pc' \in {"fout", "offer"}
           \/ pc = "join" /\ pc' = "wissen"
        /\ UNCHANGED <<lading, dbVars, batchVars, exceptionFromWorkerThread, queue,
                       bestand, pos, workerVars, verloren>>
    BY <1>4 DEF LeesEinde, Controle, Join
  <2>2. Aangeboden' = Aangeboden
    BY <2>1 DEF Aangeboden, Goed
  <2>3. Goed /\ pc' # "fout"
    BY <2>1 DEF Goed
  <2> QED BY <2>1, <2>2, <2>3, <1>i, OverdrachtGelijk
          DEF dbVars, batchVars, workerVars, NaEinde
<1>5. CASE Offer
  <2>1. /\ pc = "offer"
        /\ UNCHANGED <<lading, bestand, pos, leeg, wis, lokaal, tx, batch,
                       exceptionFromWorkerThread>>
    BY <1>5 DEF Offer, dbVars, batchVars, workerVars
  <2>2. CASE queue' = queue /\ pc' = "controle"
    BY <2>1, <2>2, <1>i, OverdrachtGelijk DEF Aangeboden, Goed, NaEinde
  <2>3. CASE queue' = Append(queue, pos) /\ pc' = "lees"
    <3>1. /\ queue \in Seq(Plaatsing) /\ pos \in Plaatsing /\ pos \in Nat
          /\ Len(queue) \in Nat /\ pos > 0
      BY <2>1, <1>i, Feiten DEF TypeInv, Voortgang
    <3>2. /\ Len(queue') = Len(queue) + 1 /\ queue'[Len(queue) + 1] = pos
          /\ \A k \in 1..Len(queue) : queue'[k] = queue[k]
          /\ queue' \in Seq(Plaatsing)
      BY <2>3, <3>1, AppendProperties
    <3>3. /\ leeg => pos = 0
          /\ \A k \in wis : \E j \in 1..pos : Bestand[j].oud = k
          /\ \A k \in 1..Len(queue) : queue[k] # Marker
          /\ \A k \in 1..Len(lokaal) : lokaal[k] # Marker
          /\ \A i \in 1..(pos - 1) : Onderweg(i)
      BY <2>1, <2>3, <1>i DEF Overdracht, Aangeboden, NaEinde, Goed
    <3>4. DOMAIN queue = 1..Len(queue) /\ DOMAIN queue' = 1..(Len(queue) + 1)
      BY <3>1, <3>2, LenProperties
    <3>5. ASSUME NEW i \in 1..(pos - 1) PROVE Onderweg(i)'
      <4>1. CASE \E k \in DOMAIN queue : queue[k] = i
        BY <3>1, <3>2, <3>4, <4>1 DEF Onderweg
      <4>2. CASE ~\E k \in DOMAIN queue : queue[k] = i
        BY <2>1, <3>3, <4>2 DEF Onderweg, Resteert, Bestand
      <4> QED BY <4>1, <4>2
    <3>6. Onderweg(pos)'
      <4>1. Len(queue) + 1 \in DOMAIN queue' /\ queue'[Len(queue) + 1] = pos'
        BY <2>1, <3>1, <3>2, <3>4
      <4> QED BY <4>1 DEF Onderweg
    <3>7. \A i \in Aangeboden' : Onderweg(i)'
      <4>1. Aangeboden' = 1..pos
        BY <2>1, <2>3 DEF Aangeboden
      <4>2. \A i \in 1..pos : i \in 1..(pos - 1) \/ i = pos'
        BY <2>1, <3>1
      <4> QED BY <4>1, <4>2, <3>5, <3>6
    <3>8. \A k \in 1..Len(queue') : queue'[k] # Marker
      <4>1. \A k \in 1..(Len(queue) + 1) : k \in 1..Len(queue) \/ k = Len(queue) + 1
        BY <3>1
      <4> QED BY <3>1, <3>2, <3>3, <4>1 DEF Marker
    <3>9. Bestand' = Bestand
      BY <2>1 DEF Bestand
    <3> QED BY <2>1, <2>3, <3>3, <3>7, <3>8, <3>9 DEF Overdracht
  <2> QED BY <1>5, <2>2, <2>3 DEF Offer
<1>6. CASE SchrijfZelf
  <2>1. /\ pc = "schrijf" /\ Geschreven(pos) /\ pc' = "lees"
        /\ UNCHANGED <<lading, bestand, pos, leeg, wis, queue, lokaal,
                       exceptionFromWorkerThread>>
    BY <1>6 DEF SchrijfZelf, Goed, workerVars
  <2>2. /\ bestand > 0 /\ pos \in 1..Len(Bestand) /\ pos \in Nat /\ Len(Bestand) \in Nat
    BY <2>1, <1>i, Feiten DEF TypeInv, Voortgang
  <2>3. /\ leeg => pos = 0
        /\ \A k \in wis : \E j \in 1..pos : Bestand[j].oud = k
        /\ \A k \in 1..Len(queue) : queue[k] # Marker
        /\ \A k \in 1..Len(lokaal) : lokaal[k] # Marker
        /\ \A i \in 1..(pos - 1) : Onderweg(i)
    BY <2>1, <1>i DEF Overdracht, Aangeboden, NaEinde, Goed
  <2>4. ASSUME NEW i \in 1..pos PROVE Onderweg(i)'
    <3>1. i \in 1..Len(Bestand) /\ (i \in 1..(pos - 1) \/ i = pos)
      BY <2>2
    <3>2. CASE i = pos \/ rij(i) \subseteq tx \union Resteert
      <4>1. rij(i)' \subseteq tx' \union Resteert'
        BY <2>1, <2>2, <3>1, <3>2, <1>i, GeschrevenOnderweg
      <4> QED BY <4>1 DEF Onderweg
    <3>3. CASE i # pos /\ ~(rij(i) \subseteq tx \union Resteert)
      BY <2>1, <2>3, <3>1, <3>3 DEF Onderweg
    <3> QED BY <3>2, <3>3
  <2>5. Aangeboden' = 1..pos /\ Bestand' = Bestand
    BY <2>1 DEF Aangeboden, Bestand
  <2> QED BY <2>1, <2>3, <2>4, <2>5 DEF Overdracht
<1>7. CASE EindeObjecten
  <2>1. /\ pc = "einde" /\ pc' = "join" /\ queue' = Append(queue, Marker)
        /\ UNCHANGED <<lading, bestand, pos, leeg, wis, lokaal, tx, batch,
                       exceptionFromWorkerThread>>
    BY <1>7 DEF EindeObjecten, dbVars, batchVars, workerVars
  <2>2. queue \in Seq(Plaatsing) /\ Marker \in Plaatsing /\ Len(queue) \in Nat
    BY <2>1, <1>i, Feiten
  <2>3. /\ Len(queue') = Len(queue) + 1 /\ queue' \in Seq(Plaatsing)
        /\ \A k \in 1..Len(queue) : queue'[k] = queue[k]
    BY <2>1, <2>2, AppendProperties
  <2>4. /\ leeg => pos = 0
        /\ \A k \in wis : \E j \in 1..pos : Bestand[j].oud = k
        /\ \A k \in 1..Len(queue) : queue[k] # Marker
        /\ \A k \in 1..Len(lokaal) : lokaal[k] # Marker
        /\ \A i \in Aangeboden : Onderweg(i)
    BY <2>1, <1>i DEF Overdracht, NaEinde, Goed
  <2>5. DOMAIN queue = 1..Len(queue) /\ DOMAIN queue' = 1..(Len(queue) + 1)
    BY <2>2, <2>3, LenProperties
  <2>6. Aangeboden' = Aangeboden /\ Bestand' = Bestand
    BY <2>1 DEF Aangeboden, Bestand
  <2>7. ASSUME NEW i \in Aangeboden PROVE Onderweg(i)'
    <3>1. CASE \E k \in DOMAIN queue : queue[k] = i
      BY <2>2, <2>3, <2>5, <3>1 DEF Onderweg
    <3>2. CASE ~\E k \in DOMAIN queue : queue[k] = i
      BY <2>1, <2>4, <3>2 DEF Onderweg, Resteert, Bestand
    <3> QED BY <3>1, <3>2
  <2>8. \A k \in 1..Len(queue') : queue'[k] = Marker => k = Len(queue')
    <3>1. \A k \in 1..(Len(queue) + 1) : k \in 1..Len(queue) \/ k = Len(queue) + 1
      BY <2>2
    <3> QED BY <2>3, <2>4, <3>1
  <2> QED BY <2>1, <2>4, <2>6, <2>7, <2>8 DEF Overdracht, NaEinde

<1>8. CASE Wissen
  <2>1. /\ pc = "wissen" /\ pc' = "voltooien" /\ tx' = Gewist(tx, wis) /\ wis' = {}
        /\ UNCHANGED <<lading, bestand, pos, leeg, queue, lokaal, batch,
                       exceptionFromWorkerThread>>
    BY <1>8 DEF Wissen, Goed, workerVars
  <2>2. /\ bestand > 0 /\ pos \in 0..Len(Bestand) /\ Len(Bestand) \in Nat
        /\ lading.soort = "BGT"
    BY <2>1, <1>i, Feiten DEF Goed
  <2>3. /\ leeg => pos = 0
        /\ \A k \in wis : \E j \in 1..pos : Bestand[j].oud = k
        /\ \A k \in 1..Len(queue) : queue[k] = Marker => k = Len(queue)
        /\ \A k \in 1..Len(lokaal) : lokaal[k] = Marker
               => k = Len(lokaal) /\ queue = <<>>
        /\ \A i \in 1..pos : Onderweg(i)
    BY <2>1, <1>i DEF Overdracht, Aangeboden, NaEinde, Goed
  <2>4. ASSUME NEW i \in 1..pos PROVE Onderweg(i)'
    <3>1. i \in 1..Len(Bestand) /\ Onderweg(i)
      BY <2>2, <2>3
    <3>2. CASE rij(i) \subseteq tx \union Resteert
      <4>1. rij(i) \subseteq Gewist(tx, wis) \union Resteert
        BY <2>2, <2>3, <3>1, <3>2, <1>i, WissenVeilig
      <4>2. Resteert' = Resteert /\ rij(i)' = rij(i)
        BY <2>1 DEF Resteert, Bestand
      <4> QED BY <2>1, <4>1, <4>2 DEF Onderweg
    <3>3. CASE ~(rij(i) \subseteq tx \union Resteert)
      BY <2>1, <3>1, <3>3 DEF Onderweg
    <3> QED BY <3>2, <3>3
  <2>5. Aangeboden' = 1..pos /\ Bestand' = Bestand
    BY <2>1 DEF Aangeboden, Bestand
  <2> QED BY <2>1, <2>3, <2>4, <2>5 DEF Overdracht, NaEinde
<1>9. CASE Voltooien
  <2>1. /\ pc = "voltooien" /\ pc' = "commit" /\ tx' = tx \union Resteert
        /\ UNCHANGED <<lading, bestand, pos, leeg, wis, queue, lokaal,
                       exceptionFromWorkerThread>>
    BY <1>9 DEF Voltooien, Goed, workerVars
  <2>2. /\ leeg => pos = 0
        /\ \A k \in wis : \E j \in 1..pos : Bestand[j].oud = k
        /\ \A k \in 1..Len(queue) : queue[k] = Marker => k = Len(queue)
        /\ \A k \in 1..Len(lokaal) : lokaal[k] = Marker
               => k = Len(lokaal) /\ queue = <<>>
        /\ \A i \in Aangeboden : Onderweg(i)
    BY <2>1, <1>i DEF Overdracht, NaEinde, Goed
  <2>3. Aangeboden' = Aangeboden /\ Bestand' = Bestand
    BY <2>1 DEF Aangeboden, Bestand
  <2>4. ASSUME NEW i \in Aangeboden PROVE Onderweg(i)'
    <3>1. Onderweg(i) /\ rij(i)' = rij(i)
      BY <2>1, <2>2, <2>3
    <3>2. rij(i) \subseteq tx \union Resteert => rij(i)' \subseteq tx' \union Resteert'
      <4> HIDE DEF rij
      <4> QED BY <2>1, <3>1
    <3> QED BY <2>1, <3>1, <3>2 DEF Onderweg
  <2> QED BY <2>1, <2>2, <2>3, <2>4 DEF Overdracht, NaEinde
<1>10. CASE Commit \/ Fout
  <2>1. lading' = lading /\ (pc' \in {"start", "fout", "gefaald"} \/ lading.soort # "BGT")
    BY <1>10 DEF Commit, Fout
  <2> QED BY <2>1 DEF Goed
<1>11. CASE AbortPut \/ AbortJoin
  <2>1. /\ pc \in {"abort", "abortjoin"} /\ pc' \in {"abortjoin", "gefaald"}
        /\ UNCHANGED <<lading, exceptionFromWorkerThread>>
    BY <1>11 DEF AbortPut, AbortJoin, batchVars
  <2>2. Goed
    BY <2>1 DEF Goed
  <2> QED BY <2>1, <2>2, <1>i DEF Overdracht
<1>12. CASE Take
  <2>1. /\ wpc = "take" /\ queue # <<>> /\ lokaal' = <<Head(queue)>>
        /\ queue' = Tail(queue)
        /\ UNCHANGED <<lading, bestand, pos, pc, leeg, wis, tx, batch,
                       exceptionFromWorkerThread>>
    BY <1>12 DEF Take, dbVars, batchVars, mainVars
  <2>2. queue \in Seq(Plaatsing) /\ lokaal = <<>> /\ Len(queue) \in Nat
    BY <2>1, <1>i, Feiten DEF TypeInv, Voortgang
  <2>3. /\ Len(queue) > 0 /\ Len(queue') = Len(queue) - 1 /\ Head(queue) = queue[1]
        /\ \A k \in 1..(Len(queue) - 1) : queue'[k] = queue[k + 1]
        /\ queue' \in Seq(Plaatsing)
    BY <2>1, <2>2, HeadTailProperties, EmptySeq, LenProperties
  <2>4. /\ pc \notin {"abort", "abortjoin"}
        /\ leeg => pos = 0
        /\ \A k \in wis : \E j \in 1..pos : Bestand[j].oud = k
        /\ \A k \in 1..Len(queue) : queue[k] = Marker => k = Len(queue) /\ pc \in NaEinde
        /\ \A i \in Aangeboden : Onderweg(i)
    BY <2>1, <1>i DEF Overdracht, Goed
  <2>5. /\ DOMAIN queue = 1..Len(queue) /\ DOMAIN queue' = 1..(Len(queue) - 1)
        /\ DOMAIN lokaal' = {1} /\ Len(lokaal') = 1 /\ lokaal'[1] = queue[1]
        /\ DOMAIN lokaal = {}
    BY <2>1, <2>2, <2>3, LenProperties
  <2>6. Aangeboden' = Aangeboden /\ Bestand' = Bestand /\ Resteert' = Resteert
    BY <2>1 DEF Aangeboden, Bestand, Resteert
  <2>7. ASSUME NEW i \in Aangeboden PROVE Onderweg(i)'
    <3>1. CASE \E k \in DOMAIN queue : queue[k] = i
      <4>1. PICK k \in 1..Len(queue) : queue[k] = i
        BY <2>5, <3>1
      <4>2. CASE k = 1
        BY <2>5, <4>1, <4>2 DEF Onderweg
      <4>3. CASE k # 1
        <5>1. k - 1 \in 1..(Len(queue) - 1) /\ (k - 1) + 1 = k
          BY <2>2, <4>1, <4>3
        <5>2. k - 1 \in DOMAIN queue' /\ queue'[k - 1] = i
          BY <2>3, <2>5, <4>1, <5>1
        <5> QED BY <5>2 DEF Onderweg
      <4> QED BY <4>2, <4>3
    <3>2. CASE ~\E k \in DOMAIN queue : queue[k] = i
      <4>1. rij(i) \subseteq tx \union Resteert
        BY <2>4, <2>5, <3>2 DEF Onderweg
      <4> QED BY <2>1, <2>6, <4>1 DEF Onderweg
    <3> QED BY <3>1, <3>2
  <2>8. \A k \in 1..Len(queue') : queue'[k] = Marker => k = Len(queue') /\ pc \in NaEinde
    <3> SUFFICES ASSUME NEW k \in 1..(Len(queue) - 1), queue[k + 1] = Marker
                 PROVE  k = Len(queue) - 1 /\ pc \in NaEinde
      BY <2>3
    <3>1. k + 1 \in 1..Len(queue)
      BY <2>2
    <3>2. k + 1 = Len(queue) /\ pc \in NaEinde
      BY <2>4, <3>1
    <3> QED BY <2>2, <3>2
  <2>9. \A k \in 1..Len(lokaal') : lokaal'[k] = Marker
           => k = Len(lokaal') /\ queue' = <<>> /\ pc \in NaEinde
    <3> SUFFICES ASSUME queue[1] = Marker PROVE queue' = <<>> /\ pc \in NaEinde
      BY <2>5
    <3>1. 1 \in 1..Len(queue)
      BY <2>2, <2>3
    <3>2. 1 = Len(queue) /\ pc \in NaEinde
      BY <2>4, <3>1
    <3>3. Len(queue') = 0
      BY <2>2, <2>3, <3>2
    <3>4. queue' = <<>>
      BY <2>3, <3>3, EmptySeq
    <3> QED BY <3>2, <3>4
  <2>10. \A k \in wis' : \E j \in 1..pos' : Bestand'[j].oud = k
    BY <2>1, <2>4, <2>6
  <2>11. \A i \in Aangeboden' : Onderweg(i)'
    BY <2>6, <2>7
  <2>12. pc' \notin {"abort", "abortjoin"} /\ (leeg' => pos' = 0)
    <3>1. pc' = pc /\ leeg' = leeg /\ pos' = pos
      BY <2>1
    <3>2. pc \notin {"abort", "abortjoin"} /\ (leeg => pos = 0)
      BY <2>4
    <3> QED BY <3>1, <3>2
  <2>13. \A k \in 1..Len(queue') :
             queue'[k] = Marker => k = Len(queue') /\ pc' \in NaEinde
    BY <2>1, <2>8
  <2>14. \A k \in 1..Len(lokaal') :
             lokaal'[k] = Marker => k = Len(lokaal') /\ queue' = <<>> /\ pc' \in NaEinde
    BY <2>1, <2>9
  <2> QED BY <2>10, <2>11, <2>12, <2>13, <2>14 DEF Overdracht
<1>13. CASE DrainTo
  <2>1. /\ wpc = "drain" /\ lokaal' = lokaal \o queue /\ queue' = <<>>
        /\ UNCHANGED <<lading, bestand, pos, pc, leeg, wis, tx, batch,
                       exceptionFromWorkerThread>>
    BY <1>13 DEF DrainTo, dbVars, batchVars, mainVars
  <2>2. queue \in Seq(Plaatsing) /\ lokaal \in Seq(Plaatsing)
    BY <2>1, <1>i, Feiten
  <2>3. /\ Len(queue) \in Nat /\ Len(lokaal) \in Nat
        /\ Len(lokaal') = Len(lokaal) + Len(queue) /\ Len(queue') = 0
        /\ \A k \in 1..(Len(lokaal) + Len(queue)) :
              lokaal'[k] = IF k <= Len(lokaal) THEN lokaal[k]
                                               ELSE queue[k - Len(lokaal)]
        /\ lokaal' \in Seq(Plaatsing)
    BY <2>1, <2>2, ConcatProperties, LenProperties, EmptySeq
  <2>4. /\ pc \notin {"abort", "abortjoin"}
        /\ leeg => pos = 0
        /\ \A k \in wis : \E j \in 1..pos : Bestand[j].oud = k
        /\ \A k \in 1..Len(queue) : queue[k] = Marker => k = Len(queue) /\ pc \in NaEinde
        /\ \A k \in 1..Len(lokaal) : lokaal[k] = Marker
               => k = Len(lokaal) /\ queue = <<>> /\ pc \in NaEinde
        /\ \A i \in Aangeboden : Onderweg(i)
    BY <2>1, <1>i DEF Overdracht, Goed
  <2>5. /\ DOMAIN queue = 1..Len(queue) /\ DOMAIN lokaal = 1..Len(lokaal)
        /\ DOMAIN lokaal' = 1..(Len(lokaal) + Len(queue))
    BY <2>2, <2>3, LenProperties
  <2>6. Aangeboden' = Aangeboden /\ Bestand' = Bestand /\ Resteert' = Resteert
    BY <2>1 DEF Aangeboden, Bestand, Resteert
  <2>7. ASSUME NEW i \in Aangeboden PROVE Onderweg(i)'
    <3>1. CASE \E k \in DOMAIN queue : queue[k] = i
      <4>1. PICK k \in 1..Len(queue) : queue[k] = i
        BY <2>5, <3>1
      <4>2. /\ Len(lokaal) + k \in 1..(Len(lokaal) + Len(queue))
            /\ ~(Len(lokaal) + k <= Len(lokaal)) /\ (Len(lokaal) + k) - Len(lokaal) = k
        BY <2>3, <4>1
      <4>3. Len(lokaal) + k \in DOMAIN lokaal' /\ lokaal'[Len(lokaal) + k] = i
        BY <2>3, <2>5, <4>1, <4>2
      <4> QED BY <4>3 DEF Onderweg
    <3>2. CASE \E k \in DOMAIN lokaal : lokaal[k] = i
      <4>1. PICK k \in 1..Len(lokaal) : lokaal[k] = i
        BY <2>5, <3>2
      <4>2. k \in 1..(Len(lokaal) + Len(queue)) /\ k <= Len(lokaal)
        BY <2>3, <4>1
      <4>3. k \in DOMAIN lokaal' /\ lokaal'[k] = i
        BY <2>3, <2>5, <4>1, <4>2
      <4> QED BY <4>3 DEF Onderweg
    <3>3. CASE rij(i) \subseteq tx \union Resteert
      BY <2>1, <2>6, <3>3 DEF Onderweg
    <3> QED BY <2>4, <3>1, <3>2, <3>3 DEF Onderweg
  <2>8. \A k \in 1..Len(lokaal') : lokaal'[k] = Marker => k = Len(lokaal') /\ pc \in NaEinde
    <3> SUFFICES ASSUME NEW k \in 1..(Len(lokaal) + Len(queue)), lokaal'[k] = Marker
                 PROVE  k = Len(lokaal) + Len(queue) /\ pc \in NaEinde
      BY <2>3
    <3>1. CASE k <= Len(lokaal)
      <4>1. k \in 1..Len(lokaal) /\ lokaal[k] = Marker
        BY <2>3, <3>1
      <4>2. k = Len(lokaal) /\ Len(queue) = 0 /\ pc \in NaEinde
        BY <2>4, <4>1, EmptySeq
      <4> QED BY <2>3, <4>2
    <3>2. CASE ~(k <= Len(lokaal))
      <4>1. k - Len(lokaal) \in 1..Len(queue) /\ queue[k - Len(lokaal)] = Marker
        BY <2>3, <3>2
      <4>2. k - Len(lokaal) = Len(queue) /\ pc \in NaEinde
        BY <2>4, <4>1
      <4> QED BY <2>3, <4>2
    <3> QED BY <3>1, <3>2
  <2>9. \A k \in wis' : \E j \in 1..pos' : Bestand'[j].oud = k
    BY <2>1, <2>4, <2>6
  <2>10. \A i \in Aangeboden' : Onderweg(i)'
    BY <2>6, <2>7
  <2>11. pc' \notin {"abort", "abortjoin"} /\ (leeg' => pos' = 0)
    <3>1. pc' = pc /\ leeg' = leeg /\ pos' = pos
      BY <2>1
    <3>2. pc \notin {"abort", "abortjoin"} /\ (leeg => pos = 0)
      BY <2>4
    <3> QED BY <3>1, <3>2
  <2>12. \A k \in 1..Len(queue') :
             queue'[k] = Marker => k = Len(queue') /\ pc' \in NaEinde
    BY <2>3
  <2>13. \A k \in 1..Len(lokaal') :
             lokaal'[k] = Marker => k = Len(lokaal') /\ queue' = <<>> /\ pc' \in NaEinde
    BY <2>1, <2>8
  <2> QED BY <2>9, <2>10, <2>11, <2>12, <2>13 DEF Overdracht
<1>14. CASE Verwerk
  <2>1. /\ wpc = "schrijf" /\ UNCHANGED <<lading, bestand, pos, pc, leeg, wis, queue>>
    BY <1>14 DEF Verwerk, mainVars
  <2>2. CASE lokaal = <<>> /\ UNCHANGED <<tx, batch, lokaal, exceptionFromWorkerThread>>
    <3>1. Goed /\ Aangeboden' = Aangeboden
      BY <2>1, <2>2 DEF Goed, Aangeboden
    <3> QED BY <2>1, <2>2, <3>1, <1>i, OverdrachtGelijk
  <2>3. CASE lokaal # <<>> /\ exceptionFromWorkerThread' = exceptionFromWorkerThread
    <3>1. /\ pc \notin {"abort", "abortjoin"}
          /\ leeg => pos = 0
          /\ \A k \in wis : \E j \in 1..pos : Bestand[j].oud = k
          /\ \A k \in 1..Len(queue) : queue[k] = Marker => k = Len(queue) /\ pc \in NaEinde
          /\ \A k \in 1..Len(lokaal) : lokaal[k] = Marker
                 => k = Len(lokaal) /\ queue = <<>> /\ pc \in NaEinde
          /\ \A i \in Aangeboden : Onderweg(i)
      BY <2>1, <2>3, <1>i DEF Overdracht, Goed
    <3>2. /\ lokaal \in Seq(Plaatsing) /\ Len(Bestand) \in Nat /\ bestand > 0
          /\ pos \in Nat /\ pos <= Len(Bestand)
      BY <2>1, <1>i, Feiten
    <3>3. /\ Len(lokaal) \in Nat /\ Len(lokaal) > 0 /\ Head(lokaal) = lokaal[1]
          /\ DOMAIN lokaal = 1..Len(lokaal) /\ lokaal[1] \in Plaatsing
      <4>1. Len(lokaal) \in Nat /\ Len(lokaal) > 0 /\ Head(lokaal) = lokaal[1]
        BY <2>3, <3>2, HeadTailProperties, EmptySeq, LenProperties
      <4> QED BY <3>2, <4>1, LenProperties, ElementOfSeq
    <3>4. Aangeboden' = Aangeboden /\ Bestand' = Bestand
      BY <2>1 DEF Aangeboden, Bestand
    <3>5. \A i \in Aangeboden : i \in 1..pos /\ i \in 1..Len(Bestand) /\ i # Marker
      BY <3>2 DEF Aangeboden, Marker
    <3>6. CASE Head(lokaal) = Marker /\ lokaal' = <<>> /\ UNCHANGED <<tx, batch>>
      <4>1. 1 = Len(lokaal) /\ queue = <<>> /\ pc \in NaEinde
        <5>1. 1 \in 1..Len(lokaal)
          BY <3>3
        <5> QED BY <3>1, <3>3, <3>6, <5>1
      <4>2. ASSUME NEW i \in Aangeboden PROVE Onderweg(i)'
        <5>1. \A k \in DOMAIN lokaal : lokaal[k] # i
          <6>1. Len(lokaal) = 1
            BY <4>1
          <6>2. \A k \in 1..Len(lokaal) : k = 1
            BY <6>1
          <6> QED BY <3>3, <3>5, <3>6, <6>2
        <5>2. \A k \in DOMAIN queue : queue[k] # i
          BY <4>1
        <5>3. rij(i) \subseteq tx \union Resteert
          BY <3>1, <5>1, <5>2 DEF Onderweg
        <5> QED BY <2>1, <3>6, <5>3 DEF Onderweg, Resteert, Bestand
      <4>3. Len(lokaal') = 0 /\ Len(queue') = 0
        BY <2>1, <3>6, <4>1, EmptySeq
      <4>4. \A k \in wis' : \E j \in 1..pos' : Bestand'[j].oud = k
        BY <2>1, <3>1, <3>4
      <4>5. \A i \in Aangeboden' : Onderweg(i)'
        BY <3>4, <4>2
      <4>6. pc' \notin {"abort", "abortjoin"} /\ (leeg' => pos' = 0)
        <5>1. pc' = pc /\ leeg' = leeg /\ pos' = pos
          BY <2>1
        <5>2. pc \notin {"abort", "abortjoin"} /\ (leeg => pos = 0)
          BY <3>1
        <5> QED BY <5>1, <5>2
      <4>7. \A k \in 1..Len(queue') :
                 queue'[k] = Marker => k = Len(queue') /\ pc' \in NaEinde
        BY <4>3
      <4>8. \A k \in 1..Len(lokaal') :
                 lokaal'[k] = Marker => k = Len(lokaal') /\ queue' = <<>> /\ pc' \in NaEinde
        BY <4>3
      <4> QED BY <4>4, <4>5, <4>6, <4>7, <4>8 DEF Overdracht
    <3>7. CASE /\ Head(lokaal) # Marker /\ Geschreven(Head(lokaal))
               /\ lokaal' = Tail(lokaal)
      <4>1. lokaal[1] \in 1..Len(Bestand) /\ Geschreven(lokaal[1])
        BY <3>2, <3>3, <3>7 DEF Plaatsing, Marker
      <4>2. /\ Len(lokaal') = Len(lokaal) - 1 /\ lokaal' \in Seq(Plaatsing)
            /\ \A k \in 1..(Len(lokaal) - 1) : lokaal'[k] = lokaal[k + 1]
        BY <2>3, <3>2, <3>7, HeadTailProperties
      <4>3. DOMAIN lokaal' = 1..(Len(lokaal) - 1)
        BY <4>2, LenProperties
      <4>4. ASSUME NEW i \in Aangeboden PROVE Onderweg(i)'
        <5>1. i \in 1..Len(Bestand) /\ Onderweg(i)
          BY <3>1, <3>5
        <5>2. CASE i = lokaal[1] \/ rij(i) \subseteq tx \union Resteert
          <6>1. rij(i)' \subseteq tx' \union Resteert'
            BY <2>1, <3>2, <4>1, <5>1, <5>2, <1>i, GeschrevenOnderweg
          <6> QED BY <6>1 DEF Onderweg
        <5>3. CASE \E k \in DOMAIN queue : queue[k] = i
          BY <2>1, <5>3 DEF Onderweg
        <5>4. CASE i # lokaal[1] /\ \E k \in DOMAIN lokaal : lokaal[k] = i
          <6>1. PICK k \in 1..Len(lokaal) : lokaal[k] = i
            BY <3>3, <5>4
          <6>2. k - 1 \in 1..(Len(lokaal) - 1) /\ (k - 1) + 1 = k
            <7>1. k # 1
              BY <5>4, <6>1
            <7> QED BY <3>3, <6>1, <7>1
          <6>3. k - 1 \in DOMAIN lokaal' /\ lokaal'[k - 1] = i
            BY <4>2, <4>3, <6>1, <6>2
          <6> QED BY <6>3 DEF Onderweg
        <5> QED BY <5>1, <5>2, <5>3, <5>4 DEF Onderweg
      <4>5. \A k \in 1..Len(lokaal') : lokaal'[k] = Marker
               => k = Len(lokaal') /\ queue' = <<>> /\ pc \in NaEinde
        <5> SUFFICES ASSUME NEW k \in 1..(Len(lokaal) - 1), lokaal[k + 1] = Marker
                     PROVE  k = Len(lokaal) - 1 /\ queue = <<>> /\ pc \in NaEinde
          BY <2>1, <4>2
        <5>1. k + 1 \in 1..Len(lokaal)
          BY <3>3
        <5>2. k + 1 = Len(lokaal) /\ queue = <<>> /\ pc \in NaEinde
          BY <3>1, <5>1
        <5>3. k = Len(lokaal) - 1
          <6>1. k \in Nat /\ Len(lokaal) \in Nat
            BY <3>3
          <6> QED BY <5>2, <6>1
        <5> QED BY <5>2, <5>3
      <4>6. \A k \in wis' : \E j \in 1..pos' : Bestand'[j].oud = k
        BY <2>1, <3>1, <3>4
      <4>7. \A i \in Aangeboden' : Onderweg(i)'
        BY <3>4, <4>4
      <4>8. pc' \notin {"abort", "abortjoin"} /\ (leeg' => pos' = 0)
        <5>1. pc' = pc /\ leeg' = leeg /\ pos' = pos
          BY <2>1
        <5>2. pc \notin {"abort", "abortjoin"} /\ (leeg => pos = 0)
          BY <3>1
        <5> QED BY <5>1, <5>2
      <4>9. \A k \in 1..Len(queue') :
                 queue'[k] = Marker => k = Len(queue') /\ pc' \in NaEinde
        BY <2>1, <3>1
      <4>10. \A k \in 1..Len(lokaal') :
                 lokaal'[k] = Marker => k = Len(lokaal') /\ queue' = <<>> /\ pc' \in NaEinde
        BY <2>1, <4>5
      <4> QED BY <4>6, <4>7, <4>8, <4>9, <4>10 DEF Overdracht
    <3> QED BY <1>14, <2>3, <3>6, <3>7, <1>u DEF Verwerk, Goed
  <2> QED BY <1>14, <2>2, <2>3 DEF Verwerk, Goed
<1>15. CASE UNCHANGED vars
  <2>1. /\ UNCHANGED <<lading, bestand, pos, pc, leeg, wis, queue, lokaal, tx, batch,
                       exceptionFromWorkerThread>>
    BY <1>15 DEF vars, dbVars, batchVars, mainVars, workerVars
  <2>2. Goed /\ Aangeboden' = Aangeboden
    BY <2>1 DEF Goed, Aangeboden
  <2> QED BY <2>1, <2>2, <1>i, OverdrachtGelijk
<1> HIDE DEF rij
<1> QED BY <1>1, <1>2, <1>3, <1>4, <1>5, <1>6, <1>7, <1>8, <1>9, <1>10, <1>11, <1>12,
        <1>13, <1>14, <1>15 DEF Next, Hoofd, Worker

(* The types and the handover together are an inductive invariant.          *)
THEOREM Invariant == Spec => []Inv
<1>1. Init => Inv
  <2>1. Init => Overdracht
    BY DEF Init, Overdracht, Goed
  <2> QED BY <2>1, InitType DEF Inv
<1>2. Inv /\ [Next]_vars => Inv'
  <2>1. Inv /\ [Next]_vars => TypeInv'
    BY StapType DEF Inv
  <2> QED BY <2>1, StapOverdracht DEF Inv
<1> QED BY <1>1, <1>2, PTL DEF Spec

(* An object that the BGT loader offered to its worker is never dropped:    *)
(* not by a full queue, not by a drain that overtakes a take, not by a      *)
(* batch and not by a previous version that is deleted after it (offer,     *)
(* take, drainTo, addBatch and deletePreviousVersion).                      *)
THEOREM NietsVerloren == Spec => []NietsOvergeslagen
<1>1. Inv => NietsOvergeslagen
  BY DEF Inv, Overdracht, Goed, NietsOvergeslagen
<1> QED BY <1>1, Invariant, PTL

(***************************************************************************)
(* Mutaties of the BAG: the main thread writes each object at once, and    *)
(* the keys are in place at every moment, not only at the commit.          *)
(***************************************************************************)
Mutatielading == lading.soort = "BAG2mutatie"

(* The objects of the stream that the main thread has read.                 *)
Gelezen(p) == p[1] < bestand \/ (p[1] = bestand /\ p[2] <= pos)

(* The worker gets nothing but the marker, no batch holds a row, and a file *)
(* is finished when all of it was read.                                     *)
Alleen ==
    /\ pc \notin {"controle", "offer"}
    /\ batch = LegeBatch /\ wis = {}
    /\ \A k \in 1..Len(queue) : queue[k] = Marker
    /\ \A k \in 1..Len(lokaal) : lokaal[k] = Marker
    /\ pc \in {"start", "einde", "join", "wissen", "voltooien", "commit"} /\ bestand > 0
          => pos = Len(Bestand)

(* A key is that of a row there was, or of an object read; with removal of  *)
(* duplicates all that was added was seen; and when an object is going to   *)
(* be inserted its key is free.                                             *)
Herkomst ==
    /\ \A r \in tx : \/ \E s \in lading.begin : s.sleutel = r.sleutel
                     \/ \E p \in AllePlaatsen(lading) :
                           Gelezen(p) /\ NieuwVan(lading, p) = r.sleutel
    /\ lading.dubbel => \A p \in AllePlaatsen(lading) :
          Gelezen(p) /\ Toevoeging(lading, p) => NieuwVan(lading, p) \in gezien
    /\ pc = "schrijf" => \A r \in tx : r.sleutel # Mutatie.nieuw

MutatieInv == Mutatielading => Alleen /\ Herkomst /\ Sluitend(tx)

LEMMA PlaatsenFeit ==
  ASSUME NEW l
  PROVE  /\ \A p \in AllePlaatsen(l) : /\ p[1] \in 1..Len(l.bestanden)
                                       /\ p[2] \in 1..Len(l.bestanden[p[1]])
                                       /\ p = <<p[1], p[2]>>
         /\ \A f \in 1..Len(l.bestanden) : \A i \in 1..Len(l.bestanden[f]) :
               <<f, i>> \in AllePlaatsen(l)
BY DEF AllePlaatsen

(* What is deleted by key leaves no row that refers to it.                  *)
LEMMA SluitendGewist ==
  ASSUME NEW rijen, Sluitend(rijen), NEW sleutels
  PROVE  Sluitend(Gewist(rijen, sleutels))
BY DEF Sluitend, Gewist

(* A new key can be added, with or without the rows that refer to it.       *)
LEMMA SluitendErbij ==
  ASSUME NEW rijen, Sluitend(rijen), NEW m \in Wijziging, NEW plaats \in Nat \X Nat,
         \A r \in rijen : r.sleutel # m.nieuw,
         NEW erbij, erbij \in {{}, Rijen(m, plaats),
                               {r \in Rijen(m, plaats) : r.tabel = "hoofd"}}
  PROVE  Sluitend(rijen \union erbij)
<1>1. \A r \in erbij : r = Rij("hoofd", m, plaats)
                       \/ (r = Rij("attr", m, plaats) /\ Rij("hoofd", m, plaats) \in erbij)
  BY DEF Rijen, Rij
<1>2. /\ Rij("hoofd", m, plaats).tabel = "hoofd" /\ Rij("attr", m, plaats).tabel = "attr"
      /\ Rij("hoofd", m, plaats).sleutel = m.nieuw
      /\ Rij("attr", m, plaats).sleutel = m.nieuw
  BY DEF Rij
<1>3. ASSUME NEW r \in rijen \union erbij, NEW s \in rijen \union erbij,
             r.tabel = s.tabel, r.sleutel = s.sleutel
      PROVE  r = s
  BY <1>1, <1>2, <1>3 DEF Sluitend
<1>4. ASSUME NEW r \in rijen \union erbij, r.tabel = "attr"
      PROVE  \E s \in rijen \union erbij : s.tabel = "hoofd" /\ s.sleutel = r.sleutel
  BY <1>1, <1>2, <1>4 DEF Sluitend
<1> QED BY <1>3, <1>4 DEF Sluitend

(* With a batch size of 1 rows are written when they are added.             *)
LEMMA DirectGeschreven ==
  ASSUME Mutatielading, batch = LegeBatch, NEW nieuw \in SUBSET Rijtype, VoegToe(nieuw)
  PROVE  tx' = tx \union nieuw /\ batch' = LegeBatch
<1> DEFINE vol == {t \in Tabellen : Vol(t) /\ \E r \in nieuw : r.tabel = t}
           erin(t) == batch[t] \union {r \in nieuw : r.tabel = t}
<1>1. /\ tx' = tx \union UNION {erin(t) : t \in vol}
      /\ batch' = [t \in Tabellen |-> IF t \in vol THEN {} ELSE erin(t)]
  BY DEF VoegToe
<1>2. \A t \in Tabellen : Vol(t) /\ batch[t] = {}
  BY FS_EmptySet DEF Vol, Omvang, LegeBatch, Mutatielading
<1>3. \A t \in Tabellen : t \notin vol => erin(t) = {}
  BY <1>2
<1>4. batch' = LegeBatch
  BY <1>1, <1>3 DEF LegeBatch
<1>5. UNION {erin(t) : t \in vol} = nieuw
  <2>1. \A t \in vol : erin(t) \subseteq nieuw
    BY <1>2
  <2>2. \A r \in nieuw : r.tabel \in vol /\ r \in erin(r.tabel)
    BY <1>2 DEF Rijtype
  <2> HIDE DEF vol, erin
  <2> QED BY <2>1, <2>2
<1> QED BY <1>1, <1>4, <1>5

LEMMA DirectEffect ==
  ASSUME TypeInv, Mutatielading, batch = LegeBatch, bestand > 0,
         NEW i \in 1..Len(Bestand), Geschreven(i) \/ NietGeschreven(i)
  PROVE  /\ batch' = LegeBatch
         /\ \E erbij \in {{}, Rijen(Bestand[i], <<bestand, i>>),
                          {r \in Rijen(Bestand[i], <<bestand, i>>) : r.tabel = "hoofd"}} :
               tx' = tx \union erbij
<1> DEFINE nieuw == Rijen(Bestand[i], <<bestand, i>>)
           hoofd == {r \in nieuw : r.tabel = "hoofd"}
<1>1. nieuw \in SUBSET Rijtype /\ hoofd \in SUBSET Rijtype
  <2>1. Bestand[i] \in Wijziging /\ <<bestand, i>> \in Nat \X Nat
    BY BestandType DEF TypeInv
  <2> QED BY <2>1, RijenType
<1>2. VoegToe(nieuw) \/ VoegToe(hoofd) \/ UNCHANGED <<tx, batch>>
  BY DEF Geschreven, NietGeschreven
<1>3. tx \union {} = tx
  OBVIOUS
<1> HIDE DEF nieuw, hoofd
<1>4. CASE VoegToe(nieuw)
  BY <1>1, <1>4, DirectGeschreven DEF nieuw
<1>5. CASE VoegToe(hoofd)
  BY <1>1, <1>5, DirectGeschreven DEF nieuw, hoofd
<1>6. CASE UNCHANGED <<tx, batch>>
  BY <1>3, <1>6
<1> QED BY <1>2, <1>4, <1>5, <1>6

LEMMA InitMutatie == Init => MutatieInv
<1> SUFFICES ASSUME Init, Mutatielading PROVE Alleen /\ Herkomst /\ Sluitend(tx)
  BY DEF MutatieInv
<1>1. lading \in Ladingen /\ tx = lading.begin /\ pc = "start" /\ bestand = 0
      /\ queue = <<>> /\ lokaal = <<>> /\ batch = LegeBatch /\ wis = {}
  BY DEF Init
<1>2. Alleen
  BY <1>1, EmptySeq DEF Alleen
<1>3. \A p \in AllePlaatsen(lading) : ~Gelezen(p)
  BY <1>1, PlaatsenFeit DEF Gelezen
<1>4. Herkomst
  BY <1>1, <1>3 DEF Herkomst
<1>5. Sluitend(tx)
  BY <1>1, SchrijverAannames DEF Mutatielading
<1> QED BY <1>2, <1>4, <1>5

(* The threads and their queue: no step hands an object to the worker.      *)
LEMMA StapAlleen ==
  ASSUME TypeInv, TypeInv', Mutatielading, Alleen, [Next]_vars
  PROVE  Alleen'
<1>f. /\ queue \in Seq(Nat) /\ lokaal \in Seq(Nat) /\ Len(queue) \in Nat /\ Len(lokaal) \in Nat
  BY LenProperties DEF TypeInv, TypeOK
<1>m. ~Multithreading
  BY DEF Multithreading, Mutatielading
<1>l. Len(<<>>) = 0
  BY EmptySeq
<1>1. CASE Start
  BY <1>1, <1>l DEF Start, Alleen
<1>2. CASE Lees
  <2> DEFINE m == Bestand[pos + 1]
  <2>1. /\ pc = "lees" /\ pos < Len(Bestand) /\ pc' \in {"lees", "schrijf"}
        /\ UNCHANGED <<batch, queue, lokaal>>
    BY <1>2, <1>m DEF Lees, workerVars
  <2>2. m.oud \in Nat /\ IsFiniteSet({m.oud}) /\ Cardinality({m.oud}) = 1
    <3>1. pos + 1 \in 1..Len(Bestand)
      BY <2>1, Feiten
    <3> QED BY <2>1, <3>1, Feiten, BestandType, FS_Singleton DEF TypeInv, Wijziging
  <2>3. wis' = {}
    <3>1. WisVol(m) <=> m.oud # Geen
      BY <2>2 DEF WisVol, Alleen, Mutatielading
    <3> QED BY <1>2, <3>1 DEF Lees, Alleen
  <2> QED BY <2>1, <2>3 DEF Alleen
<1>3. CASE SchrijfZelf
  <2>1. /\ pc = "schrijf" /\ pc' \in {"lees", "fout"}
        /\ Geschreven(pos) \/ NietGeschreven(pos)
        /\ UNCHANGED <<wis, queue, lokaal>>
    BY <1>3 DEF SchrijfZelf, workerVars
  <2>2. bestand > 0 /\ pos \in 1..Len(Bestand)
    BY <2>1, Feiten DEF TypeInv, Voortgang
  <2>3. batch' = LegeBatch
    BY <2>1, <2>2, DirectEffect DEF Alleen
  <2> QED BY <2>1, <2>3 DEF Alleen
<1>4. CASE LeesFout \/ LeesEinde \/ Join \/ AbortJoin \/ Commit
  <2>1. /\ pc' \notin {"controle", "offer"}
        /\ pc' \in {"start", "einde", "join", "wissen", "voltooien", "commit"}
             => pc \in {"start", "einde", "join", "wissen", "voltooien", "commit"}
                \/ pos = Len(Bestand)
        /\ UNCHANGED <<lading, batch, wis, queue, lokaal, bestand, pos>>
    BY <1>4 DEF LeesFout, LeesEinde, Join, AbortJoin, Commit, batchVars, workerVars
  <2> QED BY <2>1 DEF Alleen, Bestand
<1>5. CASE Wissen \/ Voltooien
  <2>1. /\ pc \in {"wissen", "voltooien"} /\ pc' \in {"voltooien", "commit", "fout"}
        /\ wis' \in {wis, {}} /\ batch' \in {batch, LegeBatch}
        /\ UNCHANGED <<lading, queue, lokaal, bestand, pos>>
    BY <1>5 DEF Wissen, Voltooien, workerVars
  <2> QED BY <2>1 DEF Alleen, Bestand
<1>6. CASE EindeObjecten \/ AbortPut
  <2>1. /\ pc' \in {"join", "abortjoin"} /\ queue' = Append(queue, Marker)
        /\ pc' = "join" => pc = "einde"
        /\ UNCHANGED <<lading, batch, wis, lokaal, bestand, pos>>
    BY <1>6 DEF EindeObjecten, AbortPut, batchVars, workerVars
  <2>2. \A k \in 1..Len(queue') : queue'[k] = Marker
    <3>1. /\ Len(queue') = Len(queue) + 1 /\ queue'[Len(queue) + 1] = Marker
          /\ \A k \in 1..Len(queue) : queue'[k] = queue[k]
      BY <2>1, <1>f, AppendProperties DEF Marker
    <3> QED BY <1>f, <3>1 DEF Alleen
  <2> QED BY <2>1, <2>2 DEF Alleen, Bestand
<1>7. CASE Fout
  <2>1. /\ pc' \in {"abort", "gefaald"} /\ queue' \in {queue, <<>>}
        /\ UNCHANGED <<lading, batch, wis, lokaal, bestand, pos>>
    BY <1>7 DEF Fout, batchVars, workerVars
  <2> QED BY <2>1, <1>l DEF Alleen
<1>8. CASE Take
  <2>1. /\ queue # <<>> /\ lokaal' = <<Head(queue)>> /\ queue' = Tail(queue)
        /\ UNCHANGED <<lading, batch, wis, pc, bestand, pos>>
    BY <1>8 DEF Take, batchVars, mainVars
  <2>2. /\ Len(queue) > 0 /\ Len(queue') = Len(queue) - 1 /\ Head(queue) = queue[1]
        /\ \A k \in 1..(Len(queue) - 1) : queue'[k] = queue[k + 1]
    BY <2>1, <1>f, HeadTailProperties, EmptySeq, LenProperties
  <2>3. \A k \in 1..Len(queue') : queue'[k] = Marker
    <3>1. \A k \in 1..(Len(queue) - 1) : k + 1 \in 1..Len(queue)
      BY <1>f
    <3> QED BY <2>2, <3>1 DEF Alleen
  <2>4. \A k \in 1..Len(lokaal') : lokaal'[k] = Marker
    <3>1. 1 \in 1..Len(queue)
      BY <1>f, <2>2
    <3>2. Len(lokaal') = 1 /\ lokaal'[1] = Marker
      BY <2>1, <2>2, <3>1 DEF Alleen
    <3> QED BY <3>2
  <2> QED BY <2>1, <2>3, <2>4 DEF Alleen, Bestand
<1>9. CASE DrainTo
  <2>1. /\ lokaal' = lokaal \o queue /\ queue' = <<>>
        /\ UNCHANGED <<lading, batch, wis, pc, bestand, pos>>
    BY <1>9 DEF DrainTo, batchVars, mainVars
  <2>2. /\ Len(lokaal') = Len(lokaal) + Len(queue)
        /\ \A k \in 1..(Len(lokaal) + Len(queue)) :
              lokaal'[k] = IF k <= Len(lokaal) THEN lokaal[k]
                                               ELSE queue[k - Len(lokaal)]
    BY <2>1, <1>f, ConcatProperties
  <2>3. \A k \in 1..Len(lokaal') : lokaal'[k] = Marker
    <3> SUFFICES ASSUME NEW k \in 1..(Len(lokaal) + Len(queue)) PROVE lokaal'[k] = Marker
      BY <2>2
    <3>1. k \in 1..Len(lokaal) \/ (~(k <= Len(lokaal)) /\ k - Len(lokaal) \in 1..Len(queue))
      BY <1>f
    <3>2. k \in 1..Len(lokaal) => k <= Len(lokaal)
      BY <1>f
    <3> QED BY <2>2, <3>1, <3>2 DEF Alleen
  <2> QED BY <2>1, <2>3, <1>l DEF Alleen, Bestand
<1>10. CASE Verwerk
  <2>1. lokaal # <<>> => Head(lokaal) = Marker
    <3>1. lokaal # <<>> => Len(lokaal) > 0 /\ Head(lokaal) = lokaal[1]
      BY <1>f, HeadTailProperties, EmptySeq, LenProperties
    <3>2. Len(lokaal) > 0 => 1 \in 1..Len(lokaal)
      BY <1>f
    <3> QED BY <3>1, <3>2 DEF Alleen
  <2>2. /\ lokaal' \in {lokaal, <<>>}
        /\ UNCHANGED <<lading, batch, wis, queue, pc, bestand, pos>>
    BY <1>10, <2>1 DEF Verwerk, mainVars
  <2> QED BY <2>2, <1>l DEF Alleen, Bestand
<1>11. CASE UNCHANGED vars
  BY <1>11 DEF vars, batchVars, mainVars, workerVars, Alleen, Bestand
<1>12. ~Controle /\ ~Offer
  BY DEF Controle, Offer, Alleen
<1> QED BY <1>1, <1>2, <1>3, <1>4, <1>5, <1>6, <1>7, <1>8, <1>9, <1>10, <1>11, <1>12
        DEF Next, Hoofd, Worker

(* What is read grows; every object before the one in hand was read.        *)
LEMMA GelezenFeit ==
  ASSUME TypeInv, bestand > 0
  PROVE  /\ bestand \in 1..Len(lading.bestanden) /\ Len(lading.bestanden) \in Nat
         /\ \A p \in AllePlaatsen(lading) :
               Eerder(p, <<bestand, pos + 1>>) <=> Gelezen(p)
         /\ pos + 1 <= Len(Bestand) => <<bestand, pos + 1>> \in AllePlaatsen(lading)
<1>1. /\ bestand \in Nat /\ bestand \in 1..Len(lading.bestanden) /\ pos \in Nat
      /\ Len(Bestand) \in Nat /\ Len(lading.bestanden) \in Nat
  BY BestandType, LadingType, LenProperties DEF TypeInv
<1>2. ASSUME NEW p \in AllePlaatsen(lading)
      PROVE  Eerder(p, <<bestand, pos + 1>>) <=> Gelezen(p)
  <2>1. p[1] \in 1..Len(lading.bestanden) /\ p[2] \in 1..Len(lading.bestanden[p[1]])
    BY PlaatsenFeit
  <2>2. Len(lading.bestanden[p[1]]) \in Nat
    <3>1. lading.bestanden[p[1]] \in Seq(Wijziging)
      BY <2>1, LadingType, ElementOfSeq DEF TypeInv
    <3> QED BY <3>1, LenProperties
  <2>3. p[1] \in Nat /\ p[2] \in Nat
    BY <1>1, <2>1, <2>2
  <2> QED BY <1>1, <2>3 DEF Eerder, Gelezen
<1>3. ASSUME pos + 1 <= Len(Bestand)
      PROVE  <<bestand, pos + 1>> \in AllePlaatsen(lading)
  <2>1. pos + 1 \in 1..Len(lading.bestanden[bestand])
    BY <1>1, <1>3 DEF Bestand
  <2> QED BY <1>1, <2>1, PlaatsenFeit
<1> QED BY <1>1, <1>2, <1>3

(* What is assumed of the key of an object of a file of mutaties.           *)
LEMMA MutatieSleutel ==
  ASSUME NEW l \in Ladingen, l.soort = "BAG2mutatie", NEW p \in AllePlaatsen(l),
         NieuwVan(l, p) # Geen
  PROVE  \/ l.bestanden[p[1]][p[2]].oud = NieuwVan(l, p)
         \/ /\ Toevoeging(l, p)
            /\ \/ /\ \A r \in l.begin : r.sleutel # NieuwVan(l, p)
                  /\ \A q \in AllePlaatsen(l) : Eerder(q, p) => NieuwVan(l, q) # NieuwVan(l, p)
               \/ /\ l.dubbel
                  /\ \E q \in AllePlaatsen(l) : Eerder(q, p) /\ Toevoeging(l, q)
                                                /\ NieuwVan(l, q) = NieuwVan(l, p)
BY SchrijverAannames

(* An object is read: when it goes on to be inserted its key is free.       *)
LEMMA LeesMutatie ==
  ASSUME TypeInv, Mutatielading, Alleen, Herkomst, Sluitend(tx), Lees
  PROVE  Herkomst' /\ Sluitend(tx')
<1> DEFINE m == Bestand[pos + 1]
           hier == <<bestand, pos + 1>>
           rijen == IF leeg /\ bestand \in lading.initieel THEN {} ELSE tx
<1>1. /\ pc = "lees" /\ pos < Len(Bestand) /\ pos' = pos + 1
      /\ UNCHANGED <<lading, bestand>>
  BY DEF Lees
<1>2. /\ bestand > 0 /\ bestand \in Nat /\ pos \in Nat /\ Len(Bestand) \in Nat
      /\ pos + 1 \in 1..Len(Bestand) /\ m \in Wijziging /\ lading \in Ladingen
  <2>1. bestand > 0 /\ bestand \in Nat /\ pos \in Nat /\ Len(Bestand) \in Nat
    BY <1>1, Feiten
  <2>2. pos + 1 \in 1..Len(Bestand)
    BY <1>1, <2>1
  <2> QED BY <2>1, <2>2, BestandType DEF TypeInv, TypeOK
<1>3. /\ hier \in AllePlaatsen(lading) /\ hier[1] = bestand /\ hier[2] = pos + 1
      /\ NieuwVan(lading, hier) = m.nieuw /\ (Toevoeging(lading, hier) <=> m.oud = Geen)
      /\ lading.bestanden[hier[1]][hier[2]] = m
      /\ \A q \in AllePlaatsen(lading) : Eerder(q, hier) <=> Gelezen(q)
  BY <1>2, GelezenFeit DEF NieuwVan, Toevoeging, Bestand
<1>4. \A p \in AllePlaatsen(lading) : Gelezen(p)' <=> Gelezen(p) \/ p = hier
  <2> SUFFICES ASSUME NEW p \in AllePlaatsen(lading)
               PROVE  Gelezen(p)' <=> Gelezen(p) \/ p = hier
    OBVIOUS
  <2>1. /\ p[1] \in 1..Len(lading.bestanden) /\ p[2] \in 1..Len(lading.bestanden[p[1]])
        /\ p = <<p[1], p[2]>>
    BY PlaatsenFeit
  <2>2. Len(lading.bestanden[p[1]]) \in Nat
    <3>1. lading.bestanden[p[1]] \in Seq(Wijziging)
      BY <2>1, LadingType, ElementOfSeq DEF TypeInv
    <3> QED BY <3>1, LenProperties
  <2>3. p[2] \in Nat
    BY <2>1, <2>2
  <2> QED BY <1>1, <1>2, <2>1, <2>3 DEF Gelezen
<1>5. WisVol(m) <=> m.oud # Geen
  <2>1. Cardinality({m.oud}) = 1
    BY FS_Singleton
  <2> QED BY <2>1 DEF WisVol, Alleen, Mutatielading
<1>6. CASE Dubbel(m, gezien)
  <2>1. UNCHANGED <<tx, gezien>> /\ pc' = "lees"
    BY <1>6 DEF Lees
  <2>2. m.nieuw \in gezien /\ lading.dubbel
    BY <1>6 DEF Dubbel
  <2> HIDE DEF m, hier
  <2> QED BY <1>1, <1>3, <1>4, <2>1, <2>2 DEF Herkomst
<1>7. CASE ~Dubbel(m, gezien)
  <2>1. /\ tx' = IF m.oud # Geen THEN Gewist(rijen, {m.oud}) ELSE rijen
        /\ gezien' = IF lading.dubbel /\ m.oud = Geen THEN gezien \union {m.nieuw} ELSE gezien
        /\ pc' = IF m.nieuw = Geen THEN "lees" ELSE "schrijf"
    <3>1. wis = {} /\ ~Multithreading
      BY DEF Alleen, Multithreading, Mutatielading
    <3>2. m.oud # Geen => wis \union ({m.oud} \ {Geen}) = {m.oud}
      BY <3>1
    <3> QED BY <1>5, <1>7, <3>1, <3>2 DEF Lees
  <2>2. tx' \subseteq tx /\ Sluitend(tx')
    <3>1. rijen \subseteq tx /\ Sluitend(rijen)
      BY DEF Sluitend
    <3>2. Sluitend(Gewist(rijen, {m.oud}))
      BY <3>1, SluitendGewist
    <3> QED BY <2>1, <3>1, <3>2 DEF Gewist
  <2>3. ASSUME m.nieuw # Geen, NEW r \in tx'
        PROVE  r.sleutel # m.nieuw
    <3>1. \/ m.oud = m.nieuw
          \/ /\ m.oud = Geen
             /\ \/ /\ \A s \in lading.begin : s.sleutel # m.nieuw
                   /\ \A q \in AllePlaatsen(lading) :
                         Eerder(q, hier) => NieuwVan(lading, q) # m.nieuw
                \/ /\ lading.dubbel
                   /\ \E q \in AllePlaatsen(lading) :
                         Eerder(q, hier) /\ Toevoeging(lading, q)
                         /\ NieuwVan(lading, q) = m.nieuw
      <4>1. lading.soort = "BAG2mutatie" /\ lading \in Ladingen
        BY <1>2 DEF Mutatielading
      <4> HIDE DEF m, hier
      <4>2. NieuwVan(lading, hier) # Geen
        BY <1>3, <2>3
      <4> QED BY <1>3, <4>1, <4>2, MutatieSleutel
    <3>2. CASE m.oud = m.nieuw
      BY <2>1, <2>3, <3>2 DEF Gewist
    <3>3. CASE m.oud = Geen /\ lading.dubbel
               /\ \E q \in AllePlaatsen(lading) :
                     Eerder(q, hier) /\ Toevoeging(lading, q) /\ NieuwVan(lading, q) = m.nieuw
      <4>1. m.nieuw \in gezien
        BY <1>3, <3>3 DEF Herkomst
      <4> QED BY <1>7, <3>3, <4>1 DEF Dubbel
    <3>4. CASE /\ \A s \in lading.begin : s.sleutel # m.nieuw
               /\ \A q \in AllePlaatsen(lading) :
                     Eerder(q, hier) => NieuwVan(lading, q) # m.nieuw
      BY <1>3, <2>2, <3>4 DEF Herkomst
    <3> QED BY <3>1, <3>2, <3>3, <3>4
  <2>4. pc' = "schrijf" => \A r \in tx' : r.sleutel # Mutatie'.nieuw
    <3>1. Mutatie' = m
      BY <1>1 DEF Mutatie, Bestand
    <3> QED BY <2>1, <2>3, <3>1
  <2>5. \A r \in tx' : \/ \E s \in lading.begin : s.sleutel = r.sleutel
                       \/ \E p \in AllePlaatsen(lading) :
                             Gelezen(p)' /\ NieuwVan(lading, p) = r.sleutel
    BY <1>4, <2>2 DEF Herkomst
  <2>6. lading.dubbel => \A p \in AllePlaatsen(lading) :
            Gelezen(p)' /\ Toevoeging(lading, p) => NieuwVan(lading, p) \in gezien'
    <3> HIDE DEF m, hier
    <3> QED BY <1>3, <1>4, <2>1 DEF Herkomst
  <2> QED BY <1>1, <2>2, <2>4, <2>5, <2>6 DEF Herkomst
<1> QED BY <1>6, <1>7

(* The object in hand is written, all of it or part.                        *)
LEMMA SchrijfMutatie ==
  ASSUME TypeInv, Mutatielading, Alleen, Herkomst, Sluitend(tx), SchrijfZelf
  PROVE  Herkomst' /\ Sluitend(tx')
<1>1. /\ pc = "schrijf" /\ pc' # "schrijf"
      /\ Geschreven(pos) \/ NietGeschreven(pos)
      /\ UNCHANGED <<lading, gezien, bestand, pos>>
  BY DEF SchrijfZelf
<1>2. bestand > 0 /\ bestand \in Nat /\ pos \in Nat /\ pos \in 1..Len(Bestand)
  BY <1>1, Feiten DEF TypeInv, Voortgang
<1>3. Mutatie \in Wijziging /\ <<bestand, pos>> \in Nat \X Nat
  BY <1>2, BestandType DEF Mutatie, TypeInv
<1>4. PICK erbij \in {{}, Rijen(Mutatie, <<bestand, pos>>),
                      {r \in Rijen(Mutatie, <<bestand, pos>>) : r.tabel = "hoofd"}} :
         tx' = tx \union erbij
  BY <1>1, <1>2, DirectEffect DEF Alleen, Mutatie
<1>5. Sluitend(tx')
  BY <1>1, <1>3, <1>4, SluitendErbij DEF Herkomst
<1>6. \A r \in erbij : r.sleutel = Mutatie.nieuw
  BY <1>3, <1>4, RijenType
<1>7. /\ <<bestand, pos>> \in AllePlaatsen(lading) /\ Gelezen(<<bestand, pos>>)
      /\ NieuwVan(lading, <<bestand, pos>>) = Mutatie.nieuw
  BY <1>2, BestandType, PlaatsenFeit DEF Gelezen, NieuwVan, Mutatie, Bestand, TypeInv
<1>8. \A p : Gelezen(p)' <=> Gelezen(p)
  BY <1>1 DEF Gelezen
<1>9. \A r \in tx' : \/ \E s \in lading.begin : s.sleutel = r.sleutel
                     \/ \E p \in AllePlaatsen(lading) :
                           Gelezen(p) /\ NieuwVan(lading, p) = r.sleutel
  BY <1>4, <1>6, <1>7 DEF Herkomst
<1> QED BY <1>1, <1>5, <1>8, <1>9 DEF Herkomst

(* Steps that read and write nothing.                                       *)
LEMMA MutatieGelijk ==
  ASSUME Herkomst, Sluitend(tx), UNCHANGED <<lading, tx, gezien, bestand, pos>>,
         pc' = "schrijf" => pc = "schrijf"
  PROVE  Herkomst' /\ Sluitend(tx')
<1>1. /\ \A p : Gelezen(p)' <=> Gelezen(p)
      /\ Mutatie' = Mutatie
  BY DEF Gelezen, Mutatie, Bestand
<1> QED BY <1>1 DEF Herkomst

LEMMA StapMutatie ==
  ASSUME TypeInv, TypeInv', MutatieInv, [Next]_vars
  PROVE  MutatieInv'
<1> SUFFICES ASSUME Mutatielading' PROVE Alleen' /\ Herkomst' /\ Sluitend(tx')
  BY DEF MutatieInv
<1>0. lading' = lading
  BY DEF Next, Hoofd, Worker, Start, Lees, LeesFout, LeesEinde, Controle, Offer, SchrijfZelf,
         EindeObjecten, Join, Wissen, Voltooien, Commit, Fout, AbortPut, AbortJoin, Take,
         DrainTo, Verwerk, vars
<1>1. Mutatielading /\ Alleen /\ Herkomst /\ Sluitend(tx)
  BY <1>0 DEF Mutatielading, MutatieInv
<1>2. Alleen'
  BY <1>1, StapAlleen
<1>3. CASE Start
  <2>1. /\ pc = "start" /\ pc' = "lees" /\ bestand' = bestand + 1 /\ pos' = 0
        /\ UNCHANGED <<lading, tx, gezien>>
    BY <1>3 DEF Start, dbVars
  <2>2. bestand \in Nat /\ (bestand > 0 => pos = Len(Bestand))
    <3>1. Len(lading.bestanden) \in Nat
      BY LadingType, LenProperties DEF TypeInv
    <3> QED BY <1>1, <2>1, <3>1 DEF Alleen, TypeInv, TypeOK
  <2>3. \A p \in AllePlaatsen(lading) : Gelezen(p)' <=> Gelezen(p)
    <3> SUFFICES ASSUME NEW p \in AllePlaatsen(lading) PROVE Gelezen(p)' <=> Gelezen(p)
      OBVIOUS
    <3>1. p[1] \in 1..Len(lading.bestanden) /\ p[2] \in 1..Len(lading.bestanden[p[1]])
      BY PlaatsenFeit
    <3>2. Len(lading.bestanden[p[1]]) \in Nat
      <4>1. lading.bestanden[p[1]] \in Seq(Wijziging)
        BY <3>1, LadingType, ElementOfSeq DEF TypeInv
      <4> QED BY <4>1, LenProperties
    <3>3. p[1] = bestand => p[2] <= pos
      BY <2>2, <3>1, <3>2 DEF Bestand
    <3>4. p[1] \in Nat /\ p[1] > 0 /\ p[2] \in Nat /\ p[2] > 0
      BY <3>1, <3>2
    <3> QED BY <2>1, <2>2, <3>3, <3>4 DEF Gelezen
  <2> QED BY <1>1, <1>2, <2>1, <2>3 DEF Herkomst
<1>4. CASE Lees
  BY <1>1, <1>2, <1>4, LeesMutatie
<1>5. CASE SchrijfZelf
  BY <1>1, <1>2, <1>5, SchrijfMutatie
<1>6. CASE LeesFout \/ LeesEinde \/ Controle \/ Offer \/ EindeObjecten \/ Join \/ Commit
           \/ Fout \/ AbortPut \/ AbortJoin \/ Take \/ DrainTo \/ UNCHANGED vars
  <2>1. /\ UNCHANGED <<lading, tx, gezien, bestand, pos>>
        /\ pc' = "schrijf" => pc = "schrijf"
    BY <1>6 DEF LeesFout, LeesEinde, Controle, Offer, EindeObjecten, Join, Commit, Fout,
                AbortPut, AbortJoin, Take, DrainTo, vars, dbVars, batchVars, mainVars
  <2> QED BY <1>1, <1>2, <2>1, MutatieGelijk
<1>7. CASE Wissen \/ Voltooien
  <2>1. Gewist(tx, {}) = tx /\ tx \union Resteert = tx
    BY <1>1 DEF Alleen, Gewist, Resteert, LegeBatch
  <2>2. /\ UNCHANGED <<lading, tx, gezien, bestand, pos>>
        /\ pc' # "schrijf"
    BY <1>1, <1>7, <2>1 DEF Wissen, Voltooien, Alleen
  <2> QED BY <1>1, <1>2, <2>2, MutatieGelijk
<1>8. CASE Verwerk
  <2>1. lokaal # <<>> => Head(lokaal) = Marker
    <3>1. lokaal \in Seq(Nat) /\ Len(lokaal) \in Nat
      BY LenProperties DEF TypeInv, TypeOK
    <3>2. lokaal # <<>> => Len(lokaal) > 0 /\ Head(lokaal) = lokaal[1]
      BY <3>1, HeadTailProperties, EmptySeq, LenProperties
    <3>3. Len(lokaal) > 0 => 1 \in 1..Len(lokaal)
      BY <3>1
    <3> QED BY <1>1, <3>2, <3>3 DEF Alleen
  <2>2. /\ UNCHANGED <<lading, tx, gezien, bestand, pos>>
        /\ pc' = "schrijf" => pc = "schrijf"
    BY <1>8, <2>1 DEF Verwerk, mainVars
  <2> QED BY <1>1, <1>2, <2>2, MutatieGelijk
<1> QED BY <1>3, <1>4, <1>5, <1>6, <1>7, <1>8 DEF Next, Hoofd, Worker

(* Mutaties of the BAG are written with the keys in place: at no moment are *)
(* there two rows with one key, or a row that refers to an object that is   *)
(* not there, whatever fails and wherever.                                  *)
THEOREM SleutelsSluiten == Spec => []Integriteit
<1>1. Init => TypeInv /\ MutatieInv
  BY InitType, InitMutatie
<1>2. TypeInv /\ MutatieInv /\ [Next]_vars => (TypeInv /\ MutatieInv)'
  BY StapType, StapMutatie
<1>3. MutatieInv => Integriteit
  BY DEF MutatieInv, Mutatielading, Integriteit
<1> QED BY <1>1, <1>2, <1>3, PTL DEF Spec


(***************************************************************************)
(* A file of the BGT, as a whole: what the commit of a file makes of the   *)
(* database. Until then the rows there are were in the database and not    *)
(* deleted, or are of the file, and nothing that the file does not replace *)
(* is gone.                                                                *)
(***************************************************************************)
(* What the first n objects replace, and the rows that the file makes.      *)
Vervangen(n) == {Bestand[j].oud : j \in 1..n} \ {Geen}
Ingevoegd == UNION {Rijen(Bestand[i], <<bestand, i>>) : i \in 1..Len(Bestand)}

(* The rows that the file starts from: none after the truncate.             *)
Uitgang == IF bestand \in lading.initieel /\ pos > 0 THEN {} ELSE db

(* Where the threads are when the queue is empty and the batches are.       *)
Rust ==
    /\ pc \in {"controle", "offer", "einde", "join"} => WorkerThread
    /\ ~WorkerThread => wpc = "uit"
    /\ pc \in {"start", "wissen", "voltooien", "commit"} => wpc = "uit"
    /\ pc \in NaEinde \union {"einde"} => pos = Len(Bestand)
    /\ pc \in {"voltooien", "commit"} => wis = {}
    /\ pc = "commit" => batch = LegeBatch
    /\ pc = "start" => tx = db

(* The worker of a load that goes well ends behind the marker.              *)
Levend == Goed /\ wpc = "uit" => queue = <<>> /\ (WorkerThread => pc \in NaEinde)

(* What is written and what waits; a key to be deleted twice may have rows  *)
(* no more and still wait in the batch.                                     *)
Inhoud ==
    Goed => /\ pos = 0 => leeg
            /\ Geen \notin wis
            /\ Resteert \subseteq Ingevoegd
            /\ \A r \in tx : \/ r \in Ingevoegd
                             \/ r \in Uitgang /\ r.sleutel \notin Vervangen(pos) \ wis
            /\ Gewist(Uitgang, Vervangen(pos)) \subseteq tx

BestandInv == Inv /\ Rust /\ Levend /\ Inhoud

(* A step keeps the stations of the threads.                                *)
LEMMA StapRust ==
  ASSUME Inv, Rust, [Next]_vars
  PROVE  Rust'
<1>1. CASE Start
  BY <1>1 DEF Start, WorkerThread, Rust, NaEinde
<1>2. CASE Lees
  <2>1. /\ pc' \in {"lees", "controle", "schrijf"} /\ pc = "lees"
        /\ pc' = "controle" => WorkerThread
        /\ lading' = lading /\ wpc' = wpc
    BY <1>2 DEF Lees, Multithreading, WorkerThread, workerVars
  <2> QED BY <2>1 DEF Rust, NaEinde, WorkerThread
<1>3. CASE LeesFout \/ Fout \/ AbortPut \/ AbortJoin
  <2>1. /\ pc' \in {"fout", "abort", "abortjoin", "gefaald"}
        /\ lading' = lading /\ wpc' = wpc
    BY <1>3 DEF LeesFout, Fout, AbortPut, AbortJoin, workerVars
  <2> QED BY <2>1 DEF Rust, NaEinde, WorkerThread
<1>4. CASE LeesEinde
  <2>1. /\ pos = Len(Bestand) /\ pc' = (IF WorkerThread THEN "einde" ELSE "wissen")
        /\ UNCHANGED <<lading, bestand, pos, wpc>>
    BY <1>4 DEF LeesEinde, workerVars
  <2> QED BY <2>1 DEF Rust, NaEinde, WorkerThread, Bestand
<1>5. CASE Controle \/ Offer \/ SchrijfZelf
  <2>1. /\ pc' \in {"fout", "offer", "lees", "controle"}
        /\ pc' \in {"offer", "controle"} => pc \in {"offer", "controle"}
        /\ lading' = lading /\ wpc' = wpc
    BY <1>5 DEF Controle, Offer, SchrijfZelf, workerVars
  <2> QED BY <2>1 DEF Rust, NaEinde, WorkerThread
<1>6. CASE EindeObjecten \/ Join
  <2>1. /\ \/ pc = "einde" /\ pc' = "join"
           \/ pc = "join" /\ wpc = "uit" /\ pc' = "wissen"
        /\ UNCHANGED <<lading, bestand, pos, wpc>>
    BY <1>6 DEF EindeObjecten, Join, workerVars
  <2> QED BY <2>1 DEF Rust, NaEinde, WorkerThread, Bestand
<1>7. CASE Wissen \/ Voltooien \/ Commit
  <2>1. /\ \/ pc = "wissen" /\ pc' = "voltooien" /\ wis' = {}
           \/ pc = "voltooien" /\ pc' = "commit" /\ batch' = LegeBatch /\ wis' = wis
           \/ pc = "commit" /\ pc' = "start" /\ db' = tx /\ tx' = tx
           \/ pc' = "fout"
        /\ UNCHANGED <<lading, bestand, pos, wpc>>
    BY <1>7 DEF Wissen, Voltooien, Commit, workerVars
  <2> QED BY <2>1 DEF Rust, NaEinde, WorkerThread, Bestand
<1>8. CASE Worker
  <2>1. wpc # "uit" /\ UNCHANGED <<lading, bestand, pos, pc, wis>>
    BY <1>8 DEF Worker, Take, DrainTo, Verwerk, batchVars, mainVars
  <2>2. WorkerThread /\ pc \notin {"start", "wissen", "voltooien", "commit"}
    BY <2>1 DEF Rust
  <2> QED BY <2>1, <2>2 DEF Rust, NaEinde, WorkerThread, Bestand
<1>9. CASE UNCHANGED vars
  BY <1>9 DEF vars, dbVars, batchVars, mainVars, workerVars, Rust, WorkerThread, Bestand
<1> QED BY <1>1, <1>2, <1>3, <1>4, <1>5, <1>6, <1>7, <1>8, <1>9 DEF Next, Hoofd

(* The worker goes on while there is work, unless it fails.                 *)
LEMMA StapLevend ==
  ASSUME Inv, Inv', Rust, Levend, [Next]_vars
  PROVE  Levend'
<1> SUFFICES ASSUME Goed', wpc' = "uit"
             PROVE  queue' = <<>> /\ (WorkerThread' => pc' \in NaEinde)
  BY DEF Levend
<1>1. CASE Start
  BY <1>1 DEF Start, WorkerThread
<1>2. CASE Lees \/ LeesEinde \/ Controle \/ Offer \/ SchrijfZelf \/ EindeObjecten
  <2>1. /\ pc \in {"lees", "controle", "offer", "schrijf", "einde"}
        /\ UNCHANGED <<lading, wpc, exceptionFromWorkerThread>>
    BY <1>2 DEF Lees, LeesEinde, Controle, Offer, SchrijfZelf, EindeObjecten, workerVars
  <2>2. Goed
    BY <2>1 DEF Goed
  <2>3. queue = <<>> /\ ~WorkerThread
    BY <2>1, <2>2 DEF Levend, NaEinde
  <2>4. ~Offer /\ ~EindeObjecten
    BY <2>3 DEF Offer, EindeObjecten, Rust
  <2>5. queue' = queue
    BY <1>2, <2>4 DEF Lees, LeesEinde, Controle, SchrijfZelf
  <2> QED BY <2>1, <2>3, <2>5 DEF WorkerThread
<1>3. CASE LeesFout \/ Commit \/ Fout \/ AbortPut \/ AbortJoin
  <2>1. pc' \in {"fout", "start", "abort", "gefaald", "abortjoin"}
    BY <1>3 DEF LeesFout, Commit, Fout, AbortPut, AbortJoin
  <2>2. pc' \notin {"abort", "abortjoin"}
    BY DEF Inv, Overdracht
  <2> QED BY <2>1, <2>2 DEF Goed
<1>4. CASE Join \/ Wissen \/ Voltooien
  <2>1. /\ pc \in NaEinde /\ pc' \in NaEinde
        /\ UNCHANGED <<lading, wpc, queue, exceptionFromWorkerThread>>
    BY <1>4 DEF Join, Wissen, Voltooien, NaEinde, Goed, workerVars
  <2>2. Goed
    BY <2>1 DEF Goed, NaEinde
  <2> QED BY <2>1, <2>2 DEF Levend
<1>5. CASE Worker
  <2>1. Verwerk
    BY <1>5 DEF Worker, Take, DrainTo
  <2>2. /\ wpc = "schrijf" /\ UNCHANGED <<lading, queue, pc, bestand, pos>>
        /\ lokaal # <<>>
        /\ Head(lokaal) = Marker \/ exceptionFromWorkerThread' = TRUE
        /\ exceptionFromWorkerThread' \in {TRUE, exceptionFromWorkerThread}
    BY <2>1 DEF Verwerk, mainVars
  <2>3. Goed /\ Head(lokaal) = Marker
    <3>1. exceptionFromWorkerThread \in BOOLEAN /\ ~exceptionFromWorkerThread'
      BY DEF Inv, TypeInv, TypeOK, Goed
    <3>2. ~exceptionFromWorkerThread /\ Head(lokaal) = Marker
      BY <2>2, <3>1
    <3> QED BY <2>2, <3>2 DEF Goed
  <2>4. lokaal \in Seq(Nat) /\ Len(lokaal) \in Nat
    BY LenProperties DEF Inv, TypeInv, TypeOK
  <2>5. Len(lokaal) > 0 /\ lokaal[1] = Marker
    BY <2>2, <2>3, <2>4, HeadTailProperties, EmptySeq, LenProperties
  <2>6. 1 \in 1..Len(lokaal)
    BY <2>4, <2>5
  <2>7. queue = <<>> /\ pc \in NaEinde
    BY <2>3, <2>5, <2>6 DEF Inv, Overdracht
  <2> QED BY <2>2, <2>7
<1>6. CASE UNCHANGED vars
  BY <1>6 DEF vars, mainVars, workerVars, Levend, Goed, WorkerThread
<1> QED BY <1>1, <1>2, <1>3, <1>4, <1>5, <1>6 DEF Next, Hoofd

(* What goes to the batches comes from them or from the object.             *)
LEMMA VoegToeGrens ==
  ASSUME NEW nieuw, VoegToe(nieuw)
  PROVE  /\ Resteert' \subseteq Resteert \union nieuw
         /\ tx \subseteq tx' /\ tx' \subseteq tx \union Resteert \union nieuw
<1> DEFINE vol == {t \in Tabellen : Vol(t) /\ \E r \in nieuw : r.tabel = t}
           erin(t) == batch[t] \union {r \in nieuw : r.tabel = t}
<1>1. /\ tx' = tx \union UNION {erin(t) : t \in vol}
      /\ batch' = [t \in Tabellen |-> IF t \in vol THEN {} ELSE erin(t)]
  BY DEF VoegToe
<1>2. \A t \in Tabellen : batch'[t] \subseteq erin(t)
  BY <1>1
<1>3. \A t \in Tabellen : erin(t) \subseteq Resteert \union nieuw
  BY DEF Resteert
<1>4. vol \subseteq Tabellen
  OBVIOUS
<1> HIDE DEF vol, erin
<1>5. Resteert' \subseteq Resteert \union nieuw
  <2>1. \A r \in Resteert' : \E t \in Tabellen : r \in batch'[t]
    BY DEF Resteert
  <2> QED BY <1>2, <1>3, <2>1
<1> QED BY <1>1, <1>3, <1>4, <1>5

(* The file in hand and the rows it makes stay the same while it is read.   *)
LEMMA InhoudGelijk ==
  ASSUME Inhoud, Goed, UNCHANGED <<lading, bestand, pos, db, tx, batch, wis, leeg>>
  PROVE  Inhoud'
<1>1. /\ Bestand' = Bestand /\ Resteert' = Resteert /\ Ingevoegd' = Ingevoegd
      /\ Uitgang' = Uitgang /\ Vervangen(pos)' = Vervangen(pos)
  BY DEF Bestand, Resteert, Ingevoegd, Uitgang, Vervangen
<1> QED BY <1>1 DEF Inhoud, Gewist

(* One object more is read: its previous version is deleted, or waits.      *)
LEMMA LeesInhoud ==
  ASSUME Inv, Inhoud, Goed, Lees
  PROVE  Inhoud'
<1> DEFINE m == Bestand[pos + 1]
           sleutels == wis \union ({m.oud} \ {Geen})
           rijen == IF leeg /\ bestand \in lading.initieel THEN {} ELSE tx
           leegte == IF bestand \in lading.initieel THEN {} ELSE db
           weg == Vervangen(pos)
           weg1 == Vervangen(pos + 1)
<1>1. /\ pc = "lees" /\ pos < Len(Bestand) /\ pos' = pos + 1
      /\ UNCHANGED <<lading, bestand, batch, db>>
  BY DEF Lees
<1>2. TypeInv /\ Overdracht
  BY DEF Inv
<1>3. pos \in Nat /\ Len(Bestand) \in Nat
  BY <1>1, <1>2, Feiten
<1>4. ~lading.dubbel
  BY <1>2, SchrijverAannames DEF TypeInv, TypeOK, Goed
<1>5. /\ tx' = (IF WisVol(m) THEN Gewist(rijen, sleutels) ELSE rijen)
      /\ wis' = (IF WisVol(m) THEN {} ELSE sleutels) /\ leeg' = FALSE
  BY <1>4 DEF Lees, Dubbel
<1>6. weg1 = weg \union ({m.oud} \ {Geen})
  <2>1. \A j : j \in 1..(pos + 1) <=> j \in 1..pos \/ j = pos + 1
    BY <1>3
  <2> QED BY <2>1 DEF Vervangen
<1>7. wis \subseteq weg
  BY <1>2 DEF Overdracht, Inhoud, Vervangen
<1>8. /\ Bestand' = Bestand /\ Resteert' = Resteert /\ Ingevoegd' = Ingevoegd
      /\ Uitgang' = leegte /\ Vervangen(pos)' = weg1
  BY <1>1, <1>3 DEF Bestand, Resteert, Ingevoegd, Uitgang, Vervangen
<1>9. leeg <=> pos = 0
  BY <1>2 DEF Overdracht, Inhoud
<1>10. /\ \A r \in rijen : r \in Ingevoegd \/ (r \in leegte /\ r.sleutel \notin weg \ wis)
       /\ Gewist(leegte, weg) \subseteq rijen
  <2>1. CASE leeg /\ bestand \in lading.initieel
    BY <2>1 DEF Gewist
  <2>2. CASE ~(leeg /\ bestand \in lading.initieel)
    <3>1. rijen = tx
      BY <2>2
    <3>2. leegte = Uitgang
      BY <2>2, <1>3, <1>9 DEF Uitgang
    <3> HIDE DEF rijen, leegte
    <3> QED BY <3>1, <3>2 DEF Inhoud
  <2> QED BY <2>1, <2>2
<1>11. Geen \notin sleutels /\ Resteert \subseteq Ingevoegd
  BY DEF Inhoud
<1> HIDE DEF m, rijen, leegte, weg, weg1
<1>12. sleutels \subseteq weg1
  BY <1>6, <1>7
<1>13. /\ \A r \in tx' : r \in Ingevoegd \/ (r \in leegte /\ r.sleutel \notin weg1 \ wis')
       /\ Gewist(leegte, weg1) \subseteq tx'
  <2>1. CASE WisVol(m)
    <3>1. tx' = Gewist(rijen, sleutels) /\ wis' = {}
      BY <1>5, <2>1
    <3> QED BY <3>1, <1>6, <1>10, <1>12 DEF Gewist
  <2>2. CASE ~WisVol(m)
    <3>1. tx' = rijen /\ wis' = sleutels
      BY <1>5, <2>2
    <3> QED BY <3>1, <1>6, <1>10, <1>12 DEF Gewist
  <2> QED BY <2>1, <2>2
<1>14. pos' # 0 /\ Geen \notin wis'
  BY <1>1, <1>3, <1>5, <1>11
<1>15. Gewist(Uitgang, Vervangen(pos))' = Gewist(leegte, weg1)
  BY <1>8 DEF Gewist
<1> QED BY <1>8, <1>11, <1>13, <1>14, <1>15 DEF Inhoud

(* An object goes to the batches.                                           *)
LEMMA SchrijfInhoud ==
  ASSUME Inv, Inhoud, Goed, NEW i \in 1..Len(Bestand), Geschreven(i),
         UNCHANGED <<lading, bestand, pos, db, wis, leeg>>
  PROVE  Inhoud'
<1> DEFINE nieuw == Rijen(Bestand[i], <<bestand, i>>)
<1>1. nieuw \subseteq Ingevoegd
  BY DEF Ingevoegd
<1>2. VoegToe(nieuw)
  BY DEF Geschreven
<1> HIDE DEF nieuw
<1>3. /\ Resteert' \subseteq Resteert \union nieuw
      /\ tx \subseteq tx' /\ tx' \subseteq tx \union Resteert \union nieuw
  BY <1>2, VoegToeGrens
<1>4. /\ Bestand' = Bestand /\ Ingevoegd' = Ingevoegd
      /\ Uitgang' = Uitgang /\ Vervangen(pos)' = Vervangen(pos)
      /\ Gewist(Uitgang, Vervangen(pos))' = Gewist(Uitgang, Vervangen(pos))
  BY DEF Bestand, Ingevoegd, Uitgang, Vervangen, Gewist
<1> QED BY <1>1, <1>3, <1>4 DEF Inhoud

(* Every step keeps what the rows are.                                      *)
LEMMA StapInhoud ==
  ASSUME Inv, Inv', Rust, Inhoud, [Next]_vars
  PROVE  Inhoud'
<1> SUFFICES ASSUME Goed' PROVE Inhoud'
  BY DEF Inhoud
<1>i. TypeInv /\ Overdracht
  BY DEF Inv
<1>1. CASE Start
  <2>1. /\ db' = tx /\ tx' = tx /\ pos' = 0 /\ leeg' = TRUE /\ wis' = {}
        /\ batch' = LegeBatch
    BY <1>1 DEF Start, dbVars, Rust
  <2>2. Resteert' = {}
    BY <2>1 DEF Resteert, LegeBatch
  <2>3. Vervangen(pos)' = {} /\ Uitgang' = db'
    BY <2>1 DEF Vervangen, Uitgang
  <2> QED BY <2>1, <2>2, <2>3 DEF Inhoud, Gewist
<1>2. CASE Lees
  BY <1>2, LeesInhoud DEF Lees, Goed
<1>3. CASE LeesEinde \/ Controle \/ Offer \/ EindeObjecten \/ Join \/ Take \/ DrainTo
  <2>1. /\ Goed
        /\ UNCHANGED <<lading, bestand, pos, db, tx, batch, wis, leeg>>
    BY <1>3 DEF LeesEinde, Controle, Offer, EindeObjecten, Join, Take, DrainTo, Goed,
                dbVars, batchVars, mainVars
  <2> QED BY <2>1, InhoudGelijk
<1>4. CASE LeesFout \/ Commit \/ Fout \/ AbortPut \/ AbortJoin
  <2>1. pc' \in {"fout", "start", "abort", "gefaald", "abortjoin"}
    BY <1>4 DEF LeesFout, Commit, Fout, AbortPut, AbortJoin
  <2>2. pc' \notin {"abort", "abortjoin"}
    BY DEF Inv, Overdracht
  <2> QED BY <2>1, <2>2 DEF Goed
<1>5. CASE SchrijfZelf
  <2>1. /\ Goed /\ pc = "schrijf" /\ Geschreven(pos)
        /\ UNCHANGED <<lading, bestand, pos, db, wis, leeg>>
    BY <1>5 DEF SchrijfZelf, Goed
  <2>2. pos \in 1..Len(Bestand)
    BY <2>1, <1>i, Feiten DEF TypeInv, Voortgang
  <2> QED BY <2>1, <2>2, SchrijfInhoud
<1>6. CASE Wissen
  <2>1. /\ Goed /\ tx' = Gewist(tx, wis) /\ wis' = {}
        /\ UNCHANGED <<lading, bestand, pos, db, batch, leeg>>
    BY <1>6 DEF Wissen, Goed
  <2>2. wis \subseteq Vervangen(pos)
    BY <2>1, <1>i DEF Overdracht, Inhoud, Vervangen
  <2>3. /\ Bestand' = Bestand /\ Resteert' = Resteert /\ Ingevoegd' = Ingevoegd
        /\ Uitgang' = Uitgang /\ Vervangen(pos)' = Vervangen(pos)
        /\ Gewist(Uitgang, Vervangen(pos))' = Gewist(Uitgang, Vervangen(pos))
    BY <2>1 DEF Bestand, Resteert, Ingevoegd, Uitgang, Vervangen, Gewist
  <2>4. /\ pos = 0 => leeg
        /\ Resteert \subseteq Ingevoegd
        /\ \A r \in tx : \/ r \in Ingevoegd
                         \/ r \in Uitgang /\ r.sleutel \notin Vervangen(pos) \ wis
        /\ Gewist(Uitgang, Vervangen(pos)) \subseteq tx
    BY <2>1 DEF Inhoud
  <2>5. /\ \A r \in tx' : \/ r \in Ingevoegd
                          \/ r \in Uitgang /\ r.sleutel \notin Vervangen(pos)
        /\ Gewist(Uitgang, Vervangen(pos)) \subseteq tx'
    BY <2>1, <2>2, <2>4 DEF Gewist
  <2> QED BY <2>1, <2>3, <2>4, <2>5 DEF Inhoud
<1>7. CASE Voltooien
  <2>1. /\ Goed /\ tx' = tx \union Resteert /\ batch' = LegeBatch
        /\ UNCHANGED <<lading, bestand, pos, db, wis, leeg>>
    BY <1>7 DEF Voltooien, Goed
  <2>2. Resteert' = {}
    BY <2>1 DEF Resteert, LegeBatch
  <2>3. /\ Bestand' = Bestand /\ Ingevoegd' = Ingevoegd
        /\ Uitgang' = Uitgang /\ Vervangen(pos)' = Vervangen(pos)
        /\ Gewist(Uitgang, Vervangen(pos))' = Gewist(Uitgang, Vervangen(pos))
    BY <2>1 DEF Bestand, Ingevoegd, Uitgang, Vervangen, Gewist
  <2> QED BY <2>1, <2>2, <2>3 DEF Inhoud
<1>8. CASE Verwerk
  <2>1. /\ Goed /\ wpc = "schrijf"
        /\ UNCHANGED <<lading, bestand, pos, db, wis, leeg>>
        /\ \/ UNCHANGED <<tx, batch>>
           \/ lokaal # <<>> /\ Head(lokaal) # Marker /\ Geschreven(Head(lokaal))
    BY <1>8 DEF Verwerk, Goed, mainVars
  <2>2. CASE UNCHANGED <<tx, batch>>
    BY <2>1, <2>2, InhoudGelijk
  <2>3. CASE lokaal # <<>> /\ Head(lokaal) # Marker /\ Geschreven(Head(lokaal))
    <3>1. lokaal \in Seq(Plaatsing) /\ Len(Bestand) \in Nat
      BY <2>1, <1>i, Feiten
    <3>2. Head(lokaal) \in Plaatsing
      BY <2>3, <3>1, HeadTailProperties
    <3>3. Head(lokaal) \in 1..Len(Bestand)
      BY <2>3, <3>1, <3>2 DEF Plaatsing, Marker
    <3> QED BY <2>1, <2>3, <3>3, SchrijfInhoud
  <2> QED BY <2>1, <2>2, <2>3
<1>9. CASE UNCHANGED vars
  <2>1. Goed /\ UNCHANGED <<lading, bestand, pos, db, tx, batch, wis, leeg>>
    BY <1>9 DEF vars, dbVars, batchVars, mainVars, Goed
  <2> QED BY <2>1, InhoudGelijk
<1> QED BY <1>1, <1>2, <1>3, <1>4, <1>5, <1>6, <1>7, <1>8, <1>9 DEF Next, Hoofd, Worker

(* When a file is committed its rows are all there.                         *)
LEMMA CommitHeel ==
  ASSUME BestandInv, lading.soort = "BGT", pc = "commit", ~exceptionFromWorkerThread
  PROVE  tx = Gewist(IF bestand \in lading.initieel /\ Len(Bestand) > 0 THEN {} ELSE db,
                     Vervangen(Len(Bestand))) \union Ingevoegd
<1>1. /\ Inv /\ TypeInv /\ Overdracht /\ Rust /\ Levend /\ Inhoud /\ Goed
  BY DEF BestandInv, Inv, Goed
<1>2. /\ wpc = "uit" /\ pos = Len(Bestand) /\ wis = {} /\ Resteert = {} /\ queue = <<>>
  BY <1>1 DEF Rust, Levend, NaEinde, Resteert, LegeBatch
<1>3. lokaal = <<>> /\ bestand > 0
  BY <1>1, <1>2, Feiten DEF TypeInv, Voortgang
<1>4. Ingevoegd \subseteq tx
  <2> SUFFICES ASSUME NEW i \in 1..Len(Bestand)
               PROVE  Rijen(Bestand[i], <<bestand, i>>) \subseteq tx
    BY DEF Ingevoegd
  <2>1. Onderweg(i)
    BY <1>1, <1>2 DEF Overdracht, Aangeboden
  <2> QED BY <1>1, <1>2, <1>3, <2>1, OnderwegBetekenis, EmptySeq
<1>5. Uitgang = (IF bestand \in lading.initieel /\ Len(Bestand) > 0 THEN {} ELSE db)
  BY <1>2 DEF Uitgang
<1>6. tx = Gewist(Uitgang, Vervangen(Len(Bestand))) \union Ingevoegd
  BY <1>1, <1>2, <1>4 DEF Inhoud, Gewist
<1> QED BY <1>5, <1>6

(* The database changes by the commit of a file, and the commit of a file   *)
(* of the BGT whose worker did not fail deletes every row whose version the *)
(* file replaces, after a truncate when it is an initial load, and inserts  *)
(* every row of the file.                                                   *)
BestandHeel ==
    [][/\ db' # db => pc = "commit" /\ pc' = "start"
       /\ lading.soort = "BGT" /\ pc = "commit" /\ pc' = "start" /\ ~exceptionFromWorkerThread
          => db' = Gewist(IF bestand \in lading.initieel /\ Len(Bestand) > 0
                          THEN {} ELSE db, Vervangen(Len(Bestand)))
                   \union Ingevoegd]_vars

(* Two threads, a queue, deletes ahead of inserts and batches per table: a  *)
(* file is in the database as a whole, as if it had been applied at once    *)
(* (ObjectTableWriter.write, complete, BGTObjectTableWriter).               *)
THEOREM BestandIneens == Spec => BestandHeel
<1>1. Init => BestandInv
  <2>1. Init => Inv
    <3>1. Init => Overdracht
      BY DEF Init, Overdracht, Goed
    <3> QED BY <3>1, InitType DEF Inv
  <2>2. Init => Rust /\ Levend /\ Inhoud
    BY DEF Init, Rust, Levend, Inhoud, Goed, NaEinde
  <2> QED BY <2>1, <2>2 DEF BestandInv
<1>2. BestandInv /\ [Next]_vars => BestandInv'
  <2> SUFFICES ASSUME BestandInv, [Next]_vars PROVE BestandInv'
    OBVIOUS
  <2>1. Inv /\ Rust /\ Levend /\ Inhoud
    BY DEF BestandInv
  <2>2. Inv'
    <3>1. TypeInv'
      BY <2>1, StapType DEF Inv
    <3> QED BY <2>1, <3>1, StapOverdracht DEF Inv
  <2>3. Rust'
    BY <2>1, StapRust
  <2>4. Levend'
    BY <2>1, <2>2, StapLevend
  <2>5. Inhoud'
    BY <2>1, <2>2, StapInhoud
  <2> QED BY <2>2, <2>3, <2>4, <2>5 DEF BestandInv
<1> DEFINE A == /\ db' # db => pc = "commit" /\ pc' = "start"
                /\ lading.soort = "BGT" /\ pc = "commit" /\ pc' = "start" /\ ~exceptionFromWorkerThread
                   => db' = Gewist(IF bestand \in lading.initieel /\ Len(Bestand) > 0
                                   THEN {} ELSE db, Vervangen(Len(Bestand)))
                            \union Ingevoegd
<1>3. BestandInv /\ [Next]_vars => [A]_vars
  <2> SUFFICES ASSUME BestandInv, Next PROVE A
    OBVIOUS
  <2>1. CASE Commit /\ pc' = "start"
    <3>1. db' = tx /\ pc = "commit"
      BY <2>1 DEF Commit
    <3>2. CASE lading.soort = "BGT" /\ ~exceptionFromWorkerThread
      <4>1. tx = Gewist(IF bestand \in lading.initieel /\ Len(Bestand) > 0 THEN {} ELSE db,
                        Vervangen(Len(Bestand))) \union Ingevoegd
        BY <3>1, <3>2, CommitHeel
      <4> QED BY <2>1, <3>1, <4>1
    <3>3. CASE ~(lading.soort = "BGT" /\ ~exceptionFromWorkerThread)
      BY <2>1, <3>1, <3>3
    <3> QED BY <3>2, <3>3
  <2>2. CASE ~(Commit /\ pc' = "start")
    <3>1. db' = db /\ ~(pc = "commit" /\ pc' = "start")
      BY <2>2 DEF Next, Hoofd, Worker, Start, Lees, LeesFout, LeesEinde, Controle, Offer,
                  SchrijfZelf, EindeObjecten, Join, Wissen, Voltooien, Commit, Fout,
                  AbortPut, AbortJoin, Take, DrainTo, Verwerk, dbVars, mainVars
    <3> QED BY <3>1
  <2> QED BY <2>1, <2>2
<1>4. Spec => [][A]_vars
  BY <1>1, <1>2, <1>3, PTL DEF Spec
<1> QED BY <1>4 DEF BestandHeel


(***************************************************************************)
(* The files as a whole, of every kind: what is in the database is what    *)
(* one thread without batches would make of them, one object after the     *)
(* other. Nothing of that is where it will be in the end: rows are in the  *)
(* transaction, in batches, in list and queue and in the hands of the main *)
(* thread, and deletes wait while the rows they delete are still there.    *)
(* But all together they are what that thread has made so far.             *)
(***************************************************************************)
(* What holds of zero and of the next number holds of all.                  *)
LEMMA Volledig ==
  ASSUME NEW S, 0 \in S, \A n \in Nat : n \in S => n + 1 \in S
  PROVE  Nat \subseteq S
<1> DEFINE Kleiner == {ss \in Nat \X Nat : ss[1] < ss[2]}
           Buiten == {n \in Nat : n \notin S}
<1> SUFFICES ASSUME Buiten # {} PROVE FALSE
  OBVIOUS
<1>1. IsWellFoundedOn(Kleiner, Nat)
  BY NatLessThanWellFounded DEF OpToRel
<1>2. PICK n \in Buiten : \A y \in Buiten : ~(<<y, n>> \in Kleiner)
  <2> HIDE DEF Kleiner
  <2> QED BY <1>1, WFMin
<1>3. n \in Nat /\ n # 0 /\ n \notin S
  OBVIOUS
<1>4. n - 1 \in Nat /\ n - 1 < n /\ n = (n - 1) + 1
  BY <1>3
<1>5. n - 1 \in S
  BY <1>2, <1>3, <1>4
<1> QED BY <1>3, <1>4, <1>5

(* One object after the other.                                              *)
LEMMA ObjectNaObject ==
  ASSUME NEW l, NEW r, NEW f, Len(l.bestanden[f]) \in Nat
  PROVE  /\ NaObjecten(l, r, f)[0] = r
         /\ \A i \in 1..Len(l.bestanden[f]) :
               NaObjecten(l, r, f)[i] = Toegepast(l, NaObjecten(l, r, f)[i - 1], <<f, i>>)
<1> DEFINE Stap(g, i) == IF i = 0 THEN r ELSE Toegepast(l, g[i - 1], <<f, i>>)
           Loopt(g, n) == g = [i \in 0..n |-> Stap(g, i)]
           S == {n \in Nat : \E g : Loopt(g, n)}
<1>1. 0 \in S
  <2>1. Loopt([i \in 0..0 |-> r], 0)
    OBVIOUS
  <2> QED BY <2>1
<1>2. ASSUME NEW n \in Nat, n \in S PROVE n + 1 \in S
  <2>1. PICK g : Loopt(g, n)
    BY <1>2
  <2> DEFINE h == [i \in 0..(n + 1) |-> Stap(g, i)]
  <2>2. ASSUME NEW i \in 0..(n + 1) PROVE Stap(g, i) = Stap(h, i)
    <3>1. CASE i = 0
      BY <3>1
    <3>2. CASE i # 0
      <4>1. i - 1 \in 0..n /\ i - 1 \in 0..(n + 1)
        BY <3>2
      <4>2. g[i - 1] = Stap(g, i - 1)
        <5> HIDE DEF Stap
        <5> QED BY <2>1, <4>1
      <4>3. h[i - 1] = Stap(g, i - 1)
        <5> HIDE DEF Stap
        <5> QED BY <4>1
      <4> HIDE DEF h
      <4> QED BY <3>2, <4>2, <4>3
    <3> QED BY <3>1, <3>2
  <2>3. Loopt(h, n + 1)
    <3> HIDE DEF Stap
    <3> QED BY <2>2
  <2> HIDE DEF h, Loopt
  <2> QED BY <2>3
<1>3. Nat \subseteq S
  <2> HIDE DEF S
  <2> QED BY <1>1, <1>2, Volledig
<1> DEFINE n == Len(l.bestanden[f])
<1>4. \E g : Loopt(g, n)
  BY <1>3
<1>5. Loopt(NaObjecten(l, r, f), n)
  <2>1. NaObjecten(l, r, f) = CHOOSE g : Loopt(g, n)
    BY DEF NaObjecten
  <2> HIDE DEF Loopt
  <2> QED BY <1>4, <2>1
<1> HIDE DEF n
<1>6. ASSUME NEW g, Loopt(g, n), NEW i \in 0..n PROVE g[i] = Stap(g, i)
  <2> HIDE DEF Stap
  <2> QED BY <1>6
<1>7. \A i \in 0..n : NaObjecten(l, r, f)[i] = Stap(NaObjecten(l, r, f), i)
  <2> HIDE DEF Stap, Loopt
  <2> QED BY <1>5, <1>6
<1>8. n \in Nat /\ 0 \in 0..n /\ \A i \in 1..n : i \in 0..n /\ i # 0
  BY DEF n
<1>9. NaObjecten(l, r, f)[0] = Stap(NaObjecten(l, r, f), 0)
  <2> HIDE DEF Stap
  <2> QED BY <1>7, <1>8
<1>10. \A i \in 1..n : NaObjecten(l, r, f)[i] = Stap(NaObjecten(l, r, f), i) /\ i # 0
  <2> HIDE DEF Stap
  <2> QED BY <1>7, <1>8
<1> QED BY <1>9, <1>10 DEF n

(* One file after the other.                                                *)
LEMMA BestandNaBestand ==
  ASSUME NEW l, Len(l.bestanden) \in Nat
  PROVE  /\ NaBestanden(l)[0] = [rijen |-> l.begin, gezien |-> {}, bestanden |-> {}]
         /\ \A f \in 1..Len(l.bestanden) :
               NaBestanden(l)[f]
               = NaObjecten(l, NaBestanden(l)[f - 1], f)[Len(l.bestanden[f])]
<1> DEFINE begin == [rijen |-> l.begin, gezien |-> {}, bestanden |-> {}]
           Stap(g, f) == IF f = 0 THEN begin
                         ELSE NaObjecten(l, g[f - 1], f)[Len(l.bestanden[f])]
           Loopt(g, n) == g = [i \in 0..n |-> Stap(g, i)]
           S == {n \in Nat : \E g : Loopt(g, n)}
<1>1. 0 \in S
  <2>1. Loopt([i \in 0..0 |-> begin], 0)
    OBVIOUS
  <2> QED BY <2>1
<1>2. ASSUME NEW n \in Nat, n \in S PROVE n + 1 \in S
  <2>1. PICK g : Loopt(g, n)
    BY <1>2
  <2> DEFINE h == [i \in 0..(n + 1) |-> Stap(g, i)]
  <2>2. ASSUME NEW i \in 0..(n + 1) PROVE Stap(g, i) = Stap(h, i)
    <3>1. CASE i = 0
      BY <3>1
    <3>2. CASE i # 0
      <4>1. i - 1 \in 0..n /\ i - 1 \in 0..(n + 1)
        BY <3>2
      <4>2. g[i - 1] = Stap(g, i - 1)
        <5> HIDE DEF Stap
        <5> QED BY <2>1, <4>1
      <4>3. h[i - 1] = Stap(g, i - 1)
        <5> HIDE DEF Stap
        <5> QED BY <4>1
      <4> HIDE DEF h
      <4> QED BY <3>2, <4>2, <4>3
    <3> QED BY <3>1, <3>2
  <2>3. Loopt(h, n + 1)
    <3> HIDE DEF Stap
    <3> QED BY <2>2
  <2> HIDE DEF h, Loopt
  <2> QED BY <2>3
<1>3. Nat \subseteq S
  <2> HIDE DEF S
  <2> QED BY <1>1, <1>2, Volledig
<1> DEFINE n == Len(l.bestanden)
<1>4. \E g : Loopt(g, n)
  BY <1>3
<1>5. Loopt(NaBestanden(l), n)
  <2>1. NaBestanden(l) = CHOOSE g : Loopt(g, n)
    BY DEF NaBestanden
  <2> HIDE DEF Loopt
  <2> QED BY <1>4, <2>1
<1> HIDE DEF n
<1>6. ASSUME NEW g, Loopt(g, n), NEW i \in 0..n PROVE g[i] = Stap(g, i)
  <2> HIDE DEF Stap
  <2> QED BY <1>6
<1>7. \A i \in 0..n : NaBestanden(l)[i] = Stap(NaBestanden(l), i)
  <2> HIDE DEF Stap, Loopt
  <2> QED BY <1>5, <1>6
<1>8. n \in Nat /\ 0 \in 0..n /\ \A i \in 1..n : i \in 0..n /\ i # 0
  BY DEF n
<1>9. NaBestanden(l)[0] = Stap(NaBestanden(l), 0)
  <2> HIDE DEF Stap
  <2> QED BY <1>7, <1>8
<1>10. \A i \in 1..n : NaBestanden(l)[i] = Stap(NaBestanden(l), i) /\ i # 0
  <2> HIDE DEF Stap
  <2> QED BY <1>7, <1>8
<1> QED BY <1>9, <1>10 DEF n

(* What is left between the threads and in the hands of the main thread.    *)
Elementen(s) == {s[k] : k \in 1..Len(s)}
InHanden == (Elementen(queue) \union Elementen(lokaal)
             \union IF pc \in {"controle", "offer", "schrijf"} THEN {pos} ELSE {})
            \ {Marker}
Onderhanden == UNION {Rijen(Bestand[i], <<bestand, i>>) : i \in InHanden}
Wachtend == Resteert \union Onderhanden

(* What that one thread has made of the file in hand.                       *)
Na(f, i) == NaObjecten(lading, NaBestanden(lading)[f - 1], f)[i]

(* Neither this file failed nor the worker of an earlier one.               *)
Gaaf == /\ ~verloren /\ ~exceptionFromWorkerThread
        /\ pc \notin {"start", "fout", "abort", "abortjoin", "gefaald"}

(* Nothing follows the marker, and the worker ends behind it.               *)
Markering ==
    Gaaf => /\ \A k \in 1..Len(queue) : queue[k] = Marker
                                        => k = Len(queue) /\ pc \in NaEinde
            /\ \A k \in 1..Len(lokaal) : lokaal[k] = Marker
                   => k = Len(lokaal) /\ queue = <<>> /\ pc \in NaEinde
            /\ wpc = "uit" => queue = <<>> /\ (WorkerThread => pc \in NaEinde)

(* The keys that were seen and the tables that were truncated are those of  *)
(* that thread.                                                             *)
Gelijkop ==
    /\ bestand > 0 => /\ Na(bestand, pos).bestanden \subseteq 1..bestand
                      /\ lading.dubbel => gezien = Na(bestand, pos).gezien
    /\ bestand = 0 => gezien = {}
    /\ bestand > 0 /\ pc = "start" => pos = Len(Bestand)

(* What waits to be deleted was named in this file, and no row that waits   *)
(* to be written is of such a key.                                          *)
Wachtrij ==
    Gaaf => /\ leeg => Wachtend = {}
            /\ leeg <=> bestand \notin Na(bestand, pos).bestanden
            /\ lading.soort # "BGT" => wis = {}
            /\ lading.soort = "BGT" => /\ wis \subseteq {Bestand[j].oud : j \in 1..pos}
                                       /\ Wachtend \subseteq Ingevoegd

Som == Gaaf => Gewist(tx \union Wachtend, wis) = Na(bestand, pos).rijen

Vastgelegd ==
    ~verloren => db = NaBestanden(lading)[IF pc = "start" THEN bestand
                                          ELSE bestand - 1].rijen

ReeksInv == Markering /\ Gelijkop /\ Wachtrij /\ Som /\ Vastgelegd

(* What a sequence holds is what the threads hand to each other.            *)
LEMMA ElementenLeeg == Elementen(<<>>) = {}
BY EmptySeq DEF Elementen

LEMMA ElementenErbij ==
  ASSUME NEW S, NEW s \in Seq(S), NEW x \in S
  PROVE  Elementen(Append(s, x)) = Elementen(s) \union {x}
<1>1. /\ Len(s) \in Nat /\ Len(Append(s, x)) = Len(s) + 1
      /\ \A k \in 1..Len(s) : Append(s, x)[k] = s[k]
      /\ Append(s, x)[Len(s) + 1] = x
  BY AppendProperties, LenProperties
<1>2. \A k : k \in 1..(Len(s) + 1) <=> k \in 1..Len(s) \/ k = Len(s) + 1
  BY <1>1
<1> QED BY <1>1, <1>2 DEF Elementen

LEMMA ElementenEerste ==
  ASSUME NEW S, NEW s \in Seq(S), s # <<>>
  PROVE  /\ Elementen(s) = {Head(s)} \union Elementen(Tail(s))
         /\ Elementen(<<Head(s)>>) = {Head(s)}
<1>1. /\ Len(s) \in Nat /\ Len(s) > 0 /\ Head(s) = s[1] /\ Len(Tail(s)) = Len(s) - 1
      /\ \A k \in 1..(Len(s) - 1) : Tail(s)[k] = s[k + 1]
  BY HeadTailProperties, LenProperties, EmptySeq
<1>2. ASSUME NEW k \in 1..Len(s), k # 1
      PROVE  s[k] \in Elementen(Tail(s))
  <2>1. k - 1 \in 1..(Len(s) - 1) /\ (k - 1) + 1 = k
    BY <1>1, <1>2
  <2>2. Tail(s)[k - 1] = s[k]
    BY <1>1, <2>1
  <2> QED BY <1>1, <2>1, <2>2 DEF Elementen
<1>3. ASSUME NEW k \in 1..(Len(s) - 1)
      PROVE  Tail(s)[k] \in Elementen(s)
  <2>1. k + 1 \in 1..Len(s)
    BY <1>1
  <2> QED BY <1>1, <2>1 DEF Elementen
<1>4. s[1] \in Elementen(s)
  <2>1. 1 \in 1..Len(s)
    BY <1>1
  <2> QED BY <2>1 DEF Elementen
<1>5. Elementen(<<Head(s)>>) = {Head(s)}
  BY DEF Elementen
<1>6. Elementen(s) \subseteq {Head(s)} \union Elementen(Tail(s))
  BY <1>1, <1>2 DEF Elementen
<1>7. Elementen(Tail(s)) \subseteq Elementen(s)
  BY <1>1, <1>3 DEF Elementen
<1> QED BY <1>1, <1>4, <1>5, <1>6, <1>7

LEMMA ElementenSamen ==
  ASSUME NEW S, NEW s \in Seq(S), NEW t \in Seq(S)
  PROVE  Elementen(s \o t) = Elementen(s) \union Elementen(t)
<1>1. /\ Len(s) \in Nat /\ Len(t) \in Nat /\ Len(s \o t) = Len(s) + Len(t)
      /\ \A k \in 1..(Len(s) + Len(t)) :
            (s \o t)[k] = IF k <= Len(s) THEN s[k] ELSE t[k - Len(s)]
  BY ConcatProperties, LenProperties
<1>2. ASSUME NEW k \in 1..(Len(s) + Len(t))
      PROVE  (s \o t)[k] \in Elementen(s) \union Elementen(t)
  <2>1. CASE k <= Len(s)
    <3>1. k \in 1..Len(s)
      BY <1>1, <2>1
    <3> QED BY <1>1, <2>1, <3>1 DEF Elementen
  <2>2. CASE ~(k <= Len(s))
    <3>1. k - Len(s) \in 1..Len(t)
      BY <1>1, <2>2
    <3> QED BY <1>1, <2>2, <3>1 DEF Elementen
  <2> QED BY <2>1, <2>2
<1>3. ASSUME NEW k \in 1..Len(s) PROVE s[k] \in Elementen(s \o t)
  <2>1. k \in 1..(Len(s) + Len(t)) /\ k <= Len(s)
    BY <1>1
  <2> QED BY <1>1, <2>1 DEF Elementen
<1>4. ASSUME NEW k \in 1..Len(t) PROVE t[k] \in Elementen(s \o t)
  <2>1. /\ Len(s) + k \in 1..(Len(s) + Len(t)) /\ ~(Len(s) + k <= Len(s))
        /\ (Len(s) + k) - Len(s) = k
    BY <1>1
  <2>2. (s \o t)[Len(s) + k] = t[k]
    BY <1>1, <2>1
  <2> QED BY <1>1, <2>1, <2>2 DEF Elementen
<1>5. Elementen(s \o t) \subseteq Elementen(s) \union Elementen(t)
  BY <1>1, <1>2 DEF Elementen
<1>6. Elementen(s) \union Elementen(t) \subseteq Elementen(s \o t)
  BY <1>3, <1>4 DEF Elementen
<1> QED BY <1>5, <1>6

(* What that one thread makes of a file, object after object.               *)
LEMMA NaVerloop ==
  ASSUME TypeInv, NEW f \in 1..Len(lading.bestanden)
  PROVE  /\ Na(f, 0) = NaBestanden(lading)[f - 1]
         /\ \A i \in 1..Len(lading.bestanden[f]) :
               Na(f, i) = Toegepast(lading, Na(f, i - 1), <<f, i>>)
         /\ Na(f, Len(lading.bestanden[f])) = NaBestanden(lading)[f]
<1>1. Len(lading.bestanden) \in Nat /\ lading.bestanden[f] \in Seq(Wijziging)
  BY LadingType, LenProperties, ElementOfSeq DEF TypeInv
<1>2. Len(lading.bestanden[f]) \in Nat
  BY <1>1, LenProperties
<1>3. NaBestanden(lading)[f]
      = NaObjecten(lading, NaBestanden(lading)[f - 1], f)[Len(lading.bestanden[f])]
  BY <1>1, BestandNaBestand
<1>4. \A r : /\ NaObjecten(lading, r, f)[0] = r
             /\ \A i \in 1..Len(lading.bestanden[f]) :
                   NaObjecten(lading, r, f)[i]
                   = Toegepast(lading, NaObjecten(lading, r, f)[i - 1], <<f, i>>)
  BY <1>2, ObjectNaObject
<1> QED BY <1>3, <1>4 DEF Na

(* A step of a load that goes well is one of a load that went well.         *)
LEMMA GaafEerder ==
  ASSUME TypeInv, [Next]_vars, Gaaf'
  PROVE  Start \/ Gaaf
<1>1. exceptionFromWorkerThread \in BOOLEAN /\ verloren \in BOOLEAN
  BY DEF TypeInv, TypeOK
<1>2. CASE LeesFout \/ Fout \/ AbortPut \/ AbortJoin \/ Commit
  BY <1>2 DEF Gaaf, LeesFout, Fout, AbortPut, AbortJoin, Commit
<1>3. CASE Lees \/ LeesEinde \/ Controle \/ Offer \/ SchrijfZelf
  BY <1>3 DEF Gaaf, Lees, LeesEinde, Controle, Offer, SchrijfZelf
<1>4. CASE EindeObjecten \/ Join \/ Wissen \/ Voltooien
  BY <1>4 DEF Gaaf, EindeObjecten, Join, Wissen, Voltooien
<1>5. CASE Take \/ DrainTo \/ Verwerk
  BY <1>1, <1>5 DEF Gaaf, Take, DrainTo, Verwerk, mainVars
<1>6. CASE UNCHANGED vars
  BY <1>6 DEF Gaaf, vars, mainVars
<1> QED BY <1>2, <1>3, <1>4, <1>5, <1>6 DEF Next, Hoofd, Worker

LEMMA StapMarkering ==
  ASSUME Inv, Rust, Markering, [Next]_vars
  PROVE  Markering'
<1> SUFFICES ASSUME Gaaf' PROVE Markering'
  BY DEF Markering
<1>i. TypeInv
  BY DEF Inv
<1>l. Len(<<>>) = 0
  BY EmptySeq
<1>1. CASE Start
  <2>1. /\ queue' = <<>> /\ lokaal' = <<>> /\ lading' = lading
        /\ wpc' = IF WorkerThread THEN "take" ELSE "uit"
    BY <1>1 DEF Start
  <2> QED BY <2>1, <1>l DEF Markering, WorkerThread
<1>m. ~Start => /\ Gaaf
                /\ \A k \in 1..Len(queue) : queue[k] = Marker => k = Len(queue) /\ pc \in NaEinde
                /\ \A k \in 1..Len(lokaal) : lokaal[k] = Marker
                       => k = Len(lokaal) /\ queue = <<>> /\ pc \in NaEinde
                /\ wpc = "uit" => queue = <<>> /\ (WorkerThread => pc \in NaEinde)
  BY <1>i, GaafEerder DEF Markering
<1>2. CASE Lees \/ LeesEinde \/ Controle \/ SchrijfZelf \/ (Offer /\ queue' = queue)
  <2>1. /\ pc \notin NaEinde /\ ~Start
        /\ UNCHANGED <<lading, queue, lokaal, wpc>>
    BY <1>2 DEF Lees, LeesEinde, Controle, SchrijfZelf, Offer, Start, NaEinde, workerVars
  <2> QED BY <2>1, <1>m DEF Markering, WorkerThread
<1>3. CASE Offer /\ queue' # queue
  <2>1. /\ pc = "offer" /\ queue' = Append(queue, pos) /\ ~Start
        /\ UNCHANGED <<lading, lokaal, wpc>>
    BY <1>3 DEF Offer, Start, workerVars
  <2>2. WorkerThread /\ pc \notin NaEinde
    BY <2>1 DEF Rust, NaEinde
  <2>3. pos > 0 /\ pos \in Nat /\ queue \in Seq(Nat) /\ Len(queue) \in Nat
    BY <2>1, <1>i, Feiten, LenProperties DEF TypeInv, TypeOK, Voortgang
  <2>4. \A k \in 1..Len(queue') : queue'[k] # Marker
    <3>1. /\ Len(queue') = Len(queue) + 1 /\ queue'[Len(queue) + 1] = pos
          /\ \A k \in 1..Len(queue) : queue'[k] = queue[k]
      BY <2>1, <2>3, AppendProperties
    <3>2. \A k \in 1..Len(queue) : queue[k] # Marker
      BY <2>1, <2>2, <1>m
    <3> QED BY <2>3, <3>1, <3>2 DEF Marker
  <2>5. \A k \in 1..Len(lokaal') : lokaal'[k] # Marker
    BY <2>1, <2>2, <1>m
  <2>6. wpc' # "uit"
    BY <2>1, <2>2, <1>m
  <2> QED BY <2>4, <2>5, <2>6 DEF Markering
<1>4. CASE EindeObjecten
  <2>1. /\ pc = "einde" /\ pc' = "join" /\ queue' = Append(queue, Marker) /\ ~Start
        /\ UNCHANGED <<lading, lokaal, wpc>>
    BY <1>4 DEF EindeObjecten, Start, workerVars
  <2>2. WorkerThread /\ pc \notin NaEinde /\ pc' \in NaEinde
    BY <2>1 DEF Rust, NaEinde
  <2>3. queue \in Seq(Nat) /\ Len(queue) \in Nat /\ Marker \in Nat
    BY <1>i, LenProperties DEF TypeInv, TypeOK, Marker
  <2>4. \A k \in 1..Len(queue') : queue'[k] = Marker => k = Len(queue')
    <3>1. /\ Len(queue') = Len(queue) + 1
          /\ \A k \in 1..Len(queue) : queue'[k] = queue[k]
      BY <2>1, <2>3, AppendProperties
    <3>2. \A k \in 1..Len(queue) : queue[k] # Marker
      BY <2>1, <2>2, <1>m
    <3> QED BY <2>3, <3>1, <3>2
  <2>5. \A k \in 1..Len(lokaal') : lokaal'[k] # Marker
    BY <2>1, <2>2, <1>m
  <2>6. wpc' # "uit"
    BY <2>1, <2>2, <1>m
  <2> QED BY <2>2, <2>4, <2>5, <2>6 DEF Markering
<1>5. CASE Join \/ Wissen \/ Voltooien
  <2>1. /\ pc' \in NaEinde /\ ~Start
        /\ UNCHANGED <<lading, queue, lokaal, wpc>>
    BY <1>5 DEF Join, Wissen, Voltooien, Start, Gaaf, NaEinde, workerVars
  <2> QED BY <2>1, <1>m DEF Markering, WorkerThread
<1>6. CASE LeesFout \/ Commit \/ Fout \/ AbortPut \/ AbortJoin
  BY <1>6 DEF LeesFout, Commit, Fout, AbortPut, AbortJoin, Gaaf
<1>7. CASE Take
  <2>1. /\ wpc = "take" /\ queue # <<>> /\ lokaal' = <<Head(queue)>> /\ queue' = Tail(queue)
        /\ wpc' = "drain" /\ UNCHANGED <<lading, pc>>
    BY <1>7 DEF Take, mainVars
  <2>2. ~Start
    BY <2>1 DEF Start, Rust
  <2>3. queue \in Seq(Nat) /\ Len(queue) \in Nat
    BY <1>i, LenProperties DEF TypeInv, TypeOK
  <2>4. /\ Len(queue) > 0 /\ Len(queue') = Len(queue) - 1 /\ Head(queue) = queue[1]
        /\ \A k \in 1..(Len(queue) - 1) : queue'[k] = queue[k + 1]
        /\ queue' \in Seq(Nat)
    BY <2>1, <2>3, HeadTailProperties, EmptySeq, LenProperties
  <2>5. Len(lokaal') = 1 /\ lokaal'[1] = queue[1]
    BY <2>1, <2>4
  <2>6. \A k \in 1..Len(queue') : queue'[k] = Marker => k = Len(queue') /\ pc' \in NaEinde
    <3> SUFFICES ASSUME NEW k \in 1..(Len(queue) - 1), queue[k + 1] = Marker
                 PROVE  k = Len(queue) - 1 /\ pc \in NaEinde
      BY <2>1, <2>4
    <3>1. k + 1 \in 1..Len(queue)
      BY <2>3
    <3>2. k + 1 = Len(queue) /\ pc \in NaEinde
      BY <1>m, <2>2, <3>1
    <3> QED BY <2>3, <3>2
  <2>7. queue[1] = Marker => queue' = <<>> /\ pc' \in NaEinde
    <3> SUFFICES ASSUME queue[1] = Marker PROVE queue' = <<>> /\ pc' \in NaEinde
      OBVIOUS
    <3>1. 1 \in 1..Len(queue)
      BY <2>3, <2>4
    <3>2. 1 = Len(queue) /\ pc \in NaEinde
      BY <1>m, <2>2, <3>1
    <3>3. Len(queue') = 0
      BY <2>3, <2>4, <3>2
    <3>4. queue' = <<>>
      BY <2>4, <3>3, EmptySeq
    <3> QED BY <2>1, <3>2, <3>4
  <2>8. \A k \in 1..Len(lokaal') : lokaal'[k] = Marker
           => k = Len(lokaal') /\ queue' = <<>> /\ pc' \in NaEinde
    BY <2>5, <2>7
  <2> QED BY <2>1, <2>6, <2>8 DEF Markering
<1>8. CASE DrainTo
  <2>1. /\ wpc = "drain" /\ lokaal' = lokaal \o queue /\ queue' = <<>>
        /\ wpc' = "schrijf" /\ UNCHANGED <<lading, pc>>
    BY <1>8 DEF DrainTo, mainVars
  <2>2. ~Start
    BY <2>1 DEF Start, Rust
  <2>3. queue \in Seq(Nat) /\ lokaal \in Seq(Nat)
    BY <1>i DEF TypeInv, TypeOK
  <2>4. /\ Len(queue) \in Nat /\ Len(lokaal) \in Nat
        /\ Len(lokaal') = Len(lokaal) + Len(queue) /\ Len(queue') = 0
        /\ \A k \in 1..(Len(lokaal) + Len(queue)) :
              lokaal'[k] = IF k <= Len(lokaal) THEN lokaal[k]
                                               ELSE queue[k - Len(lokaal)]
    BY <2>1, <2>3, ConcatProperties, LenProperties, EmptySeq
  <2>5. \A k \in 1..Len(lokaal') : lokaal'[k] = Marker => k = Len(lokaal') /\ pc' \in NaEinde
    <3> SUFFICES ASSUME NEW k \in 1..(Len(lokaal) + Len(queue)), lokaal'[k] = Marker
                 PROVE  k = Len(lokaal) + Len(queue) /\ pc \in NaEinde
      BY <2>1, <2>4
    <3>1. CASE k <= Len(lokaal)
      <4>1. k \in 1..Len(lokaal) /\ lokaal[k] = Marker
        BY <2>4, <3>1
      <4>2. k = Len(lokaal) /\ Len(queue) = 0 /\ pc \in NaEinde
        BY <1>m, <2>2, <4>1, <1>l
      <4> QED BY <2>4, <4>2
    <3>2. CASE ~(k <= Len(lokaal))
      <4>1. k - Len(lokaal) \in 1..Len(queue) /\ queue[k - Len(lokaal)] = Marker
        BY <2>4, <3>2
      <4>2. k - Len(lokaal) = Len(queue) /\ pc \in NaEinde
        BY <1>m, <2>2, <4>1
      <4> QED BY <2>4, <4>2
    <3> QED BY <3>1, <3>2
  <2>6. \A k \in 1..Len(queue') : queue'[k] = Marker => k = Len(queue') /\ pc' \in NaEinde
    BY <2>4
  <2> QED BY <2>1, <2>5, <2>6 DEF Markering
<1>9. CASE Verwerk
  <2>1. wpc = "schrijf" /\ UNCHANGED <<lading, queue, pc>>
    BY <1>9 DEF Verwerk, mainVars
  <2>2. ~Start
    BY <2>1 DEF Start, Rust
  <2>3. lokaal \in Seq(Nat) /\ Len(lokaal) \in Nat
    BY <1>i, LenProperties DEF TypeInv, TypeOK
  <2>4. lokaal # <<>> => /\ Len(lokaal) > 0 /\ Head(lokaal) = lokaal[1]
                         /\ Len(Tail(lokaal)) = Len(lokaal) - 1
                         /\ \A k \in 1..(Len(lokaal) - 1) : Tail(lokaal)[k] = lokaal[k + 1]
    BY <2>3, HeadTailProperties, EmptySeq, LenProperties
  <2>5. CASE lokaal = <<>> /\ wpc' = "take" /\ lokaal' = lokaal
    BY <1>m, <2>1, <2>2, <2>5 DEF Markering
  <2>6. CASE lokaal # <<>> /\ Head(lokaal) = Marker /\ wpc' = "uit" /\ lokaal' = <<>>
    <3>1. 1 \in 1..Len(lokaal) /\ lokaal[1] = Marker
      BY <2>3, <2>4, <2>6
    <3>2. queue = <<>> /\ pc \in NaEinde
      BY <1>m, <2>2, <3>1
    <3> QED BY <2>1, <2>6, <3>2, <1>l DEF Markering
  <2>7. CASE lokaal # <<>> /\ lokaal' = Tail(lokaal) /\ wpc' = wpc
    <3>1. ASSUME NEW k \in 1..(Len(lokaal) - 1), lokaal[k + 1] = Marker
          PROVE  k = Len(lokaal) - 1 /\ queue = <<>> /\ pc \in NaEinde
      <4>1. k + 1 \in 1..Len(lokaal)
        BY <2>3
      <4>2. k + 1 = Len(lokaal) /\ queue = <<>> /\ pc \in NaEinde
        BY <1>m, <2>2, <3>1, <4>1
      <4>3. k \in Nat
        BY <2>3
      <4> QED BY <2>3, <4>2, <4>3
    <3>2. \A k \in 1..Len(lokaal') : lokaal'[k] = Marker
             => k = Len(lokaal') /\ queue' = <<>> /\ pc' \in NaEinde
      BY <2>1, <2>4, <2>7, <3>1
    <3>3. \A k \in 1..Len(queue') : queue'[k] = Marker => k = Len(queue') /\ pc' \in NaEinde
      BY <1>m, <2>1, <2>2
    <3> QED BY <2>1, <2>7, <3>2, <3>3 DEF Markering
  <2> QED BY <1>9, <2>5, <2>6, <2>7 DEF Verwerk, Gaaf
<1>10. CASE UNCHANGED vars
  <2>1. UNCHANGED <<lading, queue, lokaal, wpc, pc, verloren, exceptionFromWorkerThread>>
    BY <1>10 DEF vars, mainVars, workerVars
  <2> QED BY <2>1 DEF Markering, Gaaf, WorkerThread
<1> QED BY <1>1, <1>2, <1>3, <1>4, <1>5, <1>6, <1>7, <1>8, <1>9, <1>10
        DEF Next, Hoofd, Worker

(* The next file starts with what the files before it made.                 *)
LEMMA StartNa ==
  ASSUME TypeInv, Gelijkop, Start
  PROVE  /\ Na(bestand, pos)' = NaBestanden(lading)[bestand]
         /\ bestand > 0 => Na(bestand, pos)' = Na(bestand, pos)
         /\ bestand = 0 => Na(bestand, pos)'
                           = [rijen |-> lading.begin, gezien |-> {}, bestanden |-> {}]
         /\ bestand \in Nat /\ bestand' = bestand + 1
<1>1. /\ pc = "start" /\ bestand < Len(lading.bestanden) /\ bestand' = bestand + 1
      /\ pos' = 0 /\ lading' = lading
  BY DEF Start
<1>2. Len(lading.bestanden) \in Nat /\ bestand \in 0..Len(lading.bestanden)
  BY LadingType, LenProperties DEF TypeInv, TypeOK
<1>3. /\ bestand \in Nat /\ bestand + 1 \in 1..Len(lading.bestanden)
      /\ (bestand + 1) - 1 = bestand
      /\ bestand > 0 => bestand \in 1..Len(lading.bestanden)
  BY <1>1, <1>2
<1>4. Na(bestand, pos)' = Na(bestand + 1, 0)
  BY <1>1 DEF Na
<1>5. Na(bestand + 1, 0) = NaBestanden(lading)[bestand]
  BY <1>3, NaVerloop
<1>6. ASSUME bestand > 0 PROVE Na(bestand, pos) = NaBestanden(lading)[bestand]
  <2>1. pos = Len(lading.bestanden[bestand])
    BY <1>1, <1>6 DEF Gelijkop, Bestand
  <2> QED BY <1>3, <1>6, <2>1, NaVerloop
<1>7. NaBestanden(lading)[0] = [rijen |-> lading.begin, gezien |-> {}, bestanden |-> {}]
  BY <1>2, BestandNaBestand
<1> QED BY <1>1, <1>3, <1>4, <1>5, <1>6, <1>7

(* The next object of a file.                                               *)
LEMMA LeesNa ==
  ASSUME TypeInv, Lees
  PROVE  /\ Na(bestand, pos)' = Toegepast(lading, Na(bestand, pos), <<bestand, pos + 1>>)
         /\ bestand \in Nat /\ bestand > 0 /\ pos \in Nat /\ pos + 1 \in 1..Len(Bestand)
         /\ Bestand[pos + 1] \in Wijziging
         /\ lading.bestanden[<<bestand, pos + 1>>[1]][<<bestand, pos + 1>>[2]]
            = Bestand[pos + 1]
<1>1. pc = "lees" /\ pos < Len(Bestand) /\ pos' = pos + 1 /\ UNCHANGED <<lading, bestand>>
  BY DEF Lees
<1>2. /\ bestand \in Nat /\ bestand > 0 /\ pos \in Nat /\ Len(Bestand) \in Nat
  BY <1>1, Feiten
<1>3. /\ bestand \in 1..Len(lading.bestanden)
      /\ \A i \in 1..Len(Bestand) : Bestand[i] \in Wijziging
  BY <1>2, BestandType DEF TypeInv
<1>4. pos + 1 \in 1..Len(Bestand) /\ (pos + 1) - 1 = pos
  BY <1>1, <1>2
<1>5. Na(bestand, pos + 1) = Toegepast(lading, Na(bestand, pos), <<bestand, pos + 1>>)
  BY <1>3, <1>4, NaVerloop DEF Bestand
<1>6. Na(bestand, pos)' = Na(bestand, pos + 1)
  BY <1>1 DEF Na
<1> QED BY <1>2, <1>3, <1>4, <1>5, <1>6 DEF Bestand

LEMMA StapGelijkop ==
  ASSUME Inv, Rust, Gelijkop, [Next]_vars
  PROVE  Gelijkop'
<1>i. TypeInv
  BY DEF Inv
<1>1. CASE Start
  <2>1. /\ bestand \in Nat /\ bestand' = bestand + 1
        /\ bestand > 0 => Na(bestand, pos)' = Na(bestand, pos)
        /\ bestand = 0 => Na(bestand, pos)'
                          = [rijen |-> lading.begin, gezien |-> {}, bestanden |-> {}]
    BY <1>1, <1>i, StartNa
  <2>2. pc' # "start" /\ UNCHANGED <<lading, gezien>>
    BY <1>1 DEF Start
  <2>3. 1..bestand \subseteq 1..(bestand + 1) /\ bestand' # 0
    BY <2>1
  <2>4. CASE bestand > 0
    BY <2>1, <2>2, <2>3, <2>4 DEF Gelijkop
  <2>5. CASE bestand = 0
    BY <2>1, <2>2, <2>3, <2>5 DEF Gelijkop
  <2> QED BY <2>1, <2>4, <2>5
<1>2. CASE Lees
  <2> DEFINE m == Bestand[pos + 1]
             N == Na(bestand, pos)
             p == <<bestand, pos + 1>>
  <2>1. /\ Na(bestand, pos)' = Toegepast(lading, N, p)
        /\ bestand \in Nat /\ bestand > 0 /\ p[1] = bestand
        /\ lading.bestanden[p[1]][p[2]] = m
    BY <1>2, <1>i, LeesNa
  <2>2. /\ N.bestanden \subseteq 1..bestand /\ (lading.dubbel => gezien = N.gezien)
    BY <2>1 DEF Gelijkop
  <2>3. /\ UNCHANGED <<lading, bestand>> /\ pc' # "start"
        /\ gezien' = IF Dubbel(m, gezien) THEN gezien
                     ELSE IF lading.dubbel /\ m.oud = Geen THEN gezien \union {m.nieuw}
                     ELSE gezien
    BY <1>2 DEF Lees
  <2>4. bestand \in 1..bestand
    BY <2>1
  <2> HIDE DEF m, N, p
  <2>5. CASE lading.dubbel /\ m.oud = Geen /\ m.nieuw \in N.gezien
    <3>1. Toegepast(lading, N, p) = N
      BY <2>1, <2>5 DEF Toegepast
    <3>2. gezien' = gezien
      BY <2>2, <2>3, <2>5 DEF Dubbel
    <3> QED BY <2>1, <2>2, <2>3, <3>1, <3>2 DEF Gelijkop
  <2>6. CASE ~(lading.dubbel /\ m.oud = Geen /\ m.nieuw \in N.gezien)
    <3>1. /\ Toegepast(lading, N, p).bestanden = N.bestanden \union {bestand}
          /\ Toegepast(lading, N, p).gezien = IF m.oud = Geen THEN N.gezien \union {m.nieuw}
                                              ELSE N.gezien
      BY <2>1, <2>6 DEF Toegepast
    <3>2. lading.dubbel => gezien' = Toegepast(lading, N, p).gezien
      BY <2>2, <2>3, <2>6, <3>1 DEF Dubbel
    <3> QED BY <2>1, <2>2, <2>3, <2>4, <3>1, <3>2 DEF Gelijkop
  <2> QED BY <2>5, <2>6
<1>3. CASE Commit
  <2>1. UNCHANGED <<lading, bestand, pos, gezien>> /\ pc = "commit"
    BY <1>3 DEF Commit, batchVars
  <2>2. pos = Len(Bestand)
    BY <2>1 DEF Rust, NaEinde
  <2> QED BY <2>1, <2>2 DEF Gelijkop, Na, Bestand
<1>4. CASE LeesFout \/ LeesEinde \/ Controle \/ Offer \/ SchrijfZelf \/ EindeObjecten
  <2>1. UNCHANGED <<lading, bestand, pos, gezien>> /\ pc' # "start"
    BY <1>4 DEF LeesFout, LeesEinde, Controle, Offer, SchrijfZelf, EindeObjecten, batchVars
  <2> QED BY <2>1 DEF Gelijkop, Na, Bestand
<1>5. CASE Join \/ Wissen \/ Voltooien \/ Fout \/ AbortPut \/ AbortJoin
  <2>1. UNCHANGED <<lading, bestand, pos, gezien>> /\ pc' # "start"
    BY <1>5 DEF Join, Wissen, Voltooien, Fout, AbortPut, AbortJoin, batchVars
  <2> QED BY <2>1 DEF Gelijkop, Na, Bestand
<1>6. CASE Worker \/ UNCHANGED vars
  <2>1. UNCHANGED <<lading, bestand, pos, gezien, pc>>
    BY <1>6 DEF Worker, Take, DrainTo, Verwerk, vars, batchVars, mainVars
  <2> QED BY <2>1 DEF Gelijkop, Na, Bestand
<1> QED BY <1>1, <1>2, <1>3, <1>4, <1>5, <1>6 DEF Next, Hoofd

(* What the threads have in hand are places in the file.                    *)
LEMMA HandenType ==
  ASSUME TypeInv, bestand > 0
  PROVE  InHanden \subseteq 1..Len(Bestand)
<1>1. /\ queue \in Seq(Plaatsing) /\ lokaal \in Seq(Plaatsing)
      /\ pos \in Plaatsing /\ Len(Bestand) \in Nat
  BY BestandType DEF TypeInv, TypeOK, Voortgang, Plaatsing
<1>2. Elementen(queue) \subseteq Plaatsing /\ Elementen(lokaal) \subseteq Plaatsing
  BY <1>1, ElementOfSeq DEF Elementen
<1> QED BY <1>1, <1>2 DEF InHanden, Plaatsing, Marker

LEMMA WachtendGelijk ==
  ASSUME InHanden' = InHanden, UNCHANGED <<lading, bestand, batch>>
  PROVE  Wachtend' = Wachtend
<1>1. Bestand' = Bestand /\ Resteert' = Resteert
  BY DEF Bestand, Resteert
<1> QED BY <1>1 DEF Wachtend, Onderhanden

(* An object that goes from the hands to the batches changes nothing of the *)
(* whole.                                                                   *)
LEMMA GeschrevenSom ==
  ASSUME TypeInv, bestand > 0, NEW h \in InHanden, Geschreven(h),
         UNCHANGED <<lading, bestand>>,
         InHanden' \subseteq InHanden, InHanden \subseteq InHanden' \union {h}
  PROVE  /\ Wachtend' \subseteq Wachtend
         /\ tx' \union Wachtend' = tx \union Wachtend
<1> DEFINE rij(i) == Rijen(Bestand[i], <<bestand, i>>)
<1>1. h \in 1..Len(Bestand)
  BY HandenType
<1>2. tx' \union Resteert' = tx \union Resteert \union rij(h)
  BY <1>1, SchrijfType DEF TypeInv
<1>3. Resteert' \subseteq Resteert \union rij(h)
  <2>1. VoegToe(rij(h))
    BY DEF Geschreven
  <2> HIDE DEF rij
  <2> QED BY <2>1, VoegToeGrens
<1>4. Onderhanden = UNION {rij(i) : i \in InHanden}
  BY DEF Onderhanden
<1>5. Onderhanden' = UNION {rij(i) : i \in InHanden'}
  BY DEF Onderhanden, Bestand
<1> HIDE DEF rij
<1>6. rij(h) \subseteq Onderhanden /\ Onderhanden' \subseteq Onderhanden
  BY <1>4, <1>5
<1>7. Onderhanden \subseteq Onderhanden' \union rij(h)
  BY <1>4, <1>5
<1> QED BY <1>2, <1>3, <1>6, <1>7 DEF Wachtend

(* Reading, truncating and deleting apart, a step of a load that goes well  *)
(* only moves rows: from the hands of a thread to the other, to a batch or  *)
(* to the transaction.                                                      *)
LEMMA VerplaatsSom ==
  ASSUME Inv, Rust, Markering, Gaaf, Gaaf', [Next]_vars, ~Start, ~Lees, ~Wissen
  PROVE  /\ UNCHANGED <<lading, bestand, pos, wis, leeg>>
         /\ Wachtend' \subseteq Wachtend
         /\ tx' \union Wachtend' = tx \union Wachtend
<1>i. TypeInv
  BY DEF Inv
<1>1. CASE LeesEinde \/ Controle \/ Join \/ UNCHANGED vars
  <2>1. /\ UNCHANGED <<lading, bestand, pos, wis, leeg, batch, tx, queue, lokaal>>
        /\ pc' \in {"controle", "offer", "schrijf"} <=> pc \in {"controle", "offer", "schrijf"}
    BY <1>1 DEF LeesEinde, Controle, Join, Gaaf, vars, dbVars, batchVars, mainVars, workerVars
  <2>2. InHanden' = InHanden
    BY <2>1 DEF InHanden, Elementen
  <2> QED BY <2>1, <2>2, WachtendGelijk
<1>2. CASE Offer
  <2>1. /\ UNCHANGED <<lading, bestand, pos, wis, leeg, batch, tx, lokaal>>
        /\ pc = "offer"
        /\ \/ queue' = Append(queue, pos) /\ pc' = "lees"
           \/ queue' = queue /\ pc' = "controle"
    BY <1>2 DEF Offer, dbVars, batchVars, workerVars
  <2>2. queue \in Seq(Plaatsing) /\ pos \in Plaatsing
    BY <2>1, <1>i, Feiten
  <2>3. CASE queue' = Append(queue, pos) /\ pc' = "lees"
    <3>1. Elementen(queue)' = Elementen(queue) \union {pos}
      BY <2>2, <2>3, ElementenErbij DEF Elementen
    <3>2. InHanden' = InHanden
      BY <2>1, <2>3, <3>1 DEF InHanden, Elementen
    <3> QED BY <2>1, <3>2, WachtendGelijk
  <2>4. CASE queue' = queue /\ pc' = "controle"
    <3>1. InHanden' = InHanden
      BY <2>1, <2>4 DEF InHanden, Elementen
    <3> QED BY <2>1, <3>1, WachtendGelijk
  <2> QED BY <2>1, <2>3, <2>4
<1>3. CASE EindeObjecten
  <2>1. /\ UNCHANGED <<lading, bestand, pos, wis, leeg, batch, tx, lokaal>>
        /\ pc = "einde" /\ pc' = "join" /\ queue' = Append(queue, Marker)
    BY <1>3 DEF EindeObjecten, dbVars, batchVars, workerVars
  <2>2. queue \in Seq(Plaatsing) /\ Marker \in Plaatsing
    BY <2>1, <1>i, Feiten
  <2>3. Elementen(queue)' = Elementen(queue) \union {Marker}
    BY <2>1, <2>2, ElementenErbij DEF Elementen
  <2>4. InHanden' = InHanden
    BY <2>1, <2>3 DEF InHanden, Elementen
  <2> QED BY <2>1, <2>4, WachtendGelijk
<1>4. CASE Take
  <2>1. /\ UNCHANGED <<lading, bestand, pos, pc, wis, leeg, batch, tx>>
        /\ wpc = "take" /\ queue # <<>> /\ lokaal' = <<Head(queue)>> /\ queue' = Tail(queue)
    BY <1>4 DEF Take, dbVars, batchVars, mainVars
  <2>2. queue \in Seq(Plaatsing) /\ lokaal = <<>>
    BY <2>1, <1>i, Feiten DEF TypeInv, Voortgang
  <2>3. /\ Elementen(queue) = Elementen(lokaal)' \union Elementen(queue)'
        /\ Elementen(lokaal) = {}
    <3>1. /\ Elementen(lokaal)' = Elementen(<<Head(queue)>>)
          /\ Elementen(queue)' = Elementen(Tail(queue))
      BY <2>1 DEF Elementen
    <3> QED BY <2>2, <2>1, <3>1, ElementenEerste, ElementenLeeg
  <2>4. InHanden' = InHanden
    BY <2>1, <2>3 DEF InHanden
  <2> QED BY <2>1, <2>4, WachtendGelijk
<1>5. CASE DrainTo
  <2>1. /\ UNCHANGED <<lading, bestand, pos, pc, wis, leeg, batch, tx>>
        /\ wpc = "drain" /\ lokaal' = lokaal \o queue /\ queue' = <<>>
    BY <1>5 DEF DrainTo, dbVars, batchVars, mainVars
  <2>2. queue \in Seq(Plaatsing) /\ lokaal \in Seq(Plaatsing)
    BY <2>1, <1>i, Feiten
  <2>3. /\ Elementen(lokaal)' = Elementen(lokaal) \union Elementen(queue)
        /\ Elementen(queue)' = {}
    <3>1. Elementen(lokaal)' = Elementen(lokaal \o queue) /\ Elementen(queue)' = Elementen(<<>>)
      BY <2>1 DEF Elementen
    <3> QED BY <2>2, <3>1, ElementenSamen, ElementenLeeg
  <2>4. InHanden' = InHanden
    BY <2>1, <2>3 DEF InHanden
  <2> QED BY <2>1, <2>4, WachtendGelijk
<1>6. CASE Verwerk
  <2>1. /\ wpc = "schrijf" /\ UNCHANGED <<lading, bestand, pos, pc, wis, leeg, queue>>
    BY <1>6 DEF Verwerk, mainVars
  <2>2. lokaal \in Seq(Plaatsing) /\ bestand > 0
    BY <2>1, <1>i, Feiten
  <2>3. lokaal # <<>> => Elementen(lokaal) = {Head(lokaal)} \union Elementen(Tail(lokaal))
    BY <2>2, ElementenEerste
  <2>4. CASE lokaal = <<>> /\ UNCHANGED <<tx, batch, lokaal>>
    <3>1. InHanden' = InHanden
      BY <2>1, <2>4 DEF InHanden, Elementen
    <3> QED BY <2>1, <2>4, <3>1, WachtendGelijk
  <2>5. CASE /\ lokaal # <<>> /\ Head(lokaal) = Marker /\ lokaal' = <<>>
             /\ UNCHANGED <<tx, batch>>
    <3>1. /\ Len(lokaal) \in Nat /\ Len(lokaal) > 0 /\ Head(lokaal) = lokaal[1]
      BY <2>2, <2>5, HeadTailProperties, EmptySeq, LenProperties
    <3>2. 1 \in 1..Len(lokaal)
      BY <3>1
    <3>3. 1 = Len(lokaal)
      BY <2>5, <3>1, <3>2 DEF Markering
    <3>4. Elementen(lokaal) = {Marker}
      <4>1. 1 \in 1..Len(lokaal) /\ \A k \in 1..Len(lokaal) : k = 1
        <5>1. Len(lokaal) = 1
          BY <3>3
        <5> QED BY <5>1
      <4>2. Elementen(lokaal) = {lokaal[1]}
        <5>1. \A x : x \in Elementen(lokaal) <=> \E k \in 1..Len(lokaal) : x = lokaal[k]
          BY DEF Elementen
        <5> QED BY <4>1, <5>1
      <4> QED BY <2>5, <3>1, <4>2
    <3>5. Elementen(lokaal)' = {}
      BY <2>5, ElementenLeeg DEF Elementen
    <3>6. Elementen(queue)' = Elementen(queue)
      BY <2>1 DEF Elementen
    <3>7. InHanden' = InHanden
      BY <2>1, <3>4, <3>5, <3>6 DEF InHanden
    <3> QED BY <2>1, <2>5, <3>7, WachtendGelijk
  <2>6. CASE /\ lokaal # <<>> /\ Head(lokaal) # Marker /\ Geschreven(Head(lokaal))
             /\ lokaal' = Tail(lokaal)
    <3>1. Elementen(lokaal) = {Head(lokaal)} \union Elementen(lokaal)'
      BY <2>3, <2>6 DEF Elementen
    <3>2. Elementen(queue)' = Elementen(queue)
      BY <2>1 DEF Elementen
    <3>3. /\ Head(lokaal) \in InHanden /\ InHanden' \subseteq InHanden
          /\ InHanden \subseteq InHanden' \union {Head(lokaal)}
      BY <2>1, <2>6, <3>1, <3>2 DEF InHanden
    <3> QED BY <1>i, <2>1, <2>2, <2>6, <3>3, GeschrevenSom
  <2> QED BY <1>6, <2>4, <2>5, <2>6 DEF Verwerk, Gaaf
<1>7. CASE SchrijfZelf
  <2>1. /\ pc = "schrijf" /\ Geschreven(pos) /\ pc' = "lees"
        /\ UNCHANGED <<lading, bestand, pos, wis, leeg, queue, lokaal>>
    BY <1>7 DEF SchrijfZelf, Gaaf, workerVars
  <2>2. bestand > 0 /\ pos # Marker
    BY <2>1, <1>i, Feiten DEF TypeInv, Voortgang, Marker
  <2>3. Elementen(queue)' = Elementen(queue) /\ Elementen(lokaal)' = Elementen(lokaal)
    BY <2>1 DEF Elementen
  <2>4. /\ pos \in InHanden /\ InHanden' \subseteq InHanden
        /\ InHanden \subseteq InHanden' \union {pos}
    BY <2>1, <2>2, <2>3 DEF InHanden
  <2> QED BY <1>i, <2>1, <2>2, <2>4, GeschrevenSom
<1>8. CASE Voltooien
  <2>1. /\ pc = "voltooien" /\ pc' = "commit" /\ tx' = tx \union Resteert /\ batch' = LegeBatch
        /\ UNCHANGED <<lading, bestand, pos, wis, leeg, queue, lokaal>>
    BY <1>8 DEF Voltooien, Gaaf, workerVars
  <2>2. InHanden' = InHanden
    BY <2>1 DEF InHanden, Elementen
  <2>3. Onderhanden' = Onderhanden
    BY <2>1, <2>2 DEF Onderhanden, Bestand
  <2>4. Resteert' = {}
    BY <2>1 DEF Resteert, LegeBatch
  <2> QED BY <2>1, <2>3, <2>4 DEF Wachtend
<1>9. CASE LeesFout \/ Commit \/ Fout \/ AbortPut \/ AbortJoin
  BY <1>9 DEF LeesFout, Commit, Fout, AbortPut, AbortJoin, Gaaf
<1> QED BY <1>1, <1>2, <1>3, <1>4, <1>5, <1>6, <1>7, <1>8, <1>9 DEF Next, Hoofd, Worker

(* A delete that goes ahead of rows that wait.                              *)
LEMMA GewistVooraf ==
  ASSUME NEW R, NEW W, NEW D, NEW K, \A r \in W : r.sleutel \notin D \union K
  PROVE  Gewist(R, D \union K) \union W = Gewist(Gewist(R \union W, D), K)
BY DEF Gewist

LEMMA IngevoegdVeilig ==
  ASSUME TypeInv, bestand > 0, lading.soort = "BGT",
         NEW r \in Ingevoegd, NEW j \in 1..Len(Bestand)
  PROVE  r.sleutel # Bestand[j].oud
<1>1. PICK i \in 1..Len(Bestand) : r \in Rijen(Bestand[i], <<bestand, i>>)
  BY DEF Ingevoegd
<1> QED BY <1>1, SleutelVeilig

(* What the next object deletes is no row that waits, and no row of its own *)
(* when it waits with it; and only the BGT loader has deletes that wait.    *)
LEMMA LeesVeilig ==
  ASSUME Inv, MutatieInv, Gaaf, Wachtrij, Lees,
         NEW m, m = Bestand[pos + 1], NEW sleutels, sleutels = wis \union ({m.oud} \ {Geen})
  PROVE  /\ \A r \in Wachtend : r.sleutel \notin sleutels
         /\ ~WisVol(m) => \A r \in Rijen(m, <<bestand, pos + 1>>) : r.sleutel \notin sleutels
         /\ lading.soort # "BGT" /\ ~WisVol(m) => sleutels = {}
<1>i. TypeInv
  BY DEF Inv
<1>1. /\ bestand \in Nat /\ bestand > 0 /\ pos \in Nat /\ pos + 1 \in 1..Len(Bestand)
      /\ m \in Wijziging /\ pc = "lees" /\ Len(Bestand) \in Nat
      /\ bestand \in 1..Len(lading.bestanden)
  BY <1>i, LeesNa, BestandType DEF Lees, TypeInv
<1>2. lading \in Ladingen /\ lading.soort \in {"BGT", "BAG2", "BAG2mutatie"}
  BY <1>i, LadingType DEF TypeInv, TypeOK
<1>3. CASE lading.soort = "BGT"
  <2>1. wis \subseteq {Bestand[j].oud : j \in 1..pos} /\ Wachtend \subseteq Ingevoegd
    BY <1>3 DEF Wachtrij
  <2>2. 1..pos \subseteq 1..Len(Bestand)
    BY <1>1
  <2>3. \A k \in sleutels : \E j \in 1..Len(Bestand) : k = Bestand[j].oud
    BY <1>1, <2>1, <2>2
  <2>4. Rijen(m, <<bestand, pos + 1>>) \subseteq Ingevoegd
    BY <1>1 DEF Ingevoegd
  <2>5. \A r \in Ingevoegd : r.sleutel \notin sleutels
    BY <1>i, <1>1, <1>3, <2>3, IngevoegdVeilig
  <2> QED BY <1>3, <2>1, <2>4, <2>5
<1>4. CASE lading.soort = "BAG2"
  <2>1. wis = {}
    BY <1>4 DEF Wachtrij
  <2>2. <<bestand, pos + 1>> \in AllePlaatsen(lading)
    BY <1>1, PlaatsenFeit DEF Bestand
  <2>3. Toevoeging(lading, <<bestand, pos + 1>>)
    BY <1>2, <1>4, <2>2, SchrijverAannames
  <2>4. m.oud = Geen
    BY <2>3 DEF Toevoeging, Bestand
  <2>5. sleutels = {}
    BY <2>1, <2>4
  <2> QED BY <2>5
<1>5. CASE lading.soort = "BAG2mutatie"
  <2>1. Alleen /\ wis = {}
    BY <1>5 DEF MutatieInv, Mutatielading, Alleen
  <2>2. InHanden = {}
    <3>1. Elementen(queue) \subseteq {Marker} /\ Elementen(lokaal) \subseteq {Marker}
      BY <2>1 DEF Alleen, Elementen
    <3> QED BY <1>1, <3>1 DEF InHanden
  <2>3. Wachtend = {}
    BY <2>1, <2>2 DEF Alleen, Wachtend, Onderhanden, Resteert, LegeBatch
  <2>4. ~WisVol(m) => sleutels = {}
    <3>1. m.oud \in Nat /\ IsFiniteSet({m.oud}) /\ Cardinality({m.oud}) = 1
      BY <1>1, FS_Singleton DEF Wijziging
    <3>2. wis \union {m.oud} = {m.oud}
      BY <2>1
    <3>3. ~WisVol(m) => m.oud = Geen
      BY <1>5, <3>1, <3>2 DEF WisVol
    <3> QED BY <2>1, <3>3
  <2> QED BY <2>3, <2>4
<1> QED BY <1>2, <1>3, <1>4, <1>5

(* One object more, for the loader and for that thread.                     *)
LEMMA LeesSom ==
  ASSUME Inv, MutatieInv, Gaaf, Gelijkop, Wachtrij, Som, Lees
  PROVE  Wachtrij' /\ Som'
<1> DEFINE m == Bestand[pos + 1]
           p == <<bestand, pos + 1>>
           N == Na(bestand, pos)
           K == {m.oud} \ {Geen}
           sleutels == wis \union K
           rijen == IF leeg /\ bestand \in lading.initieel THEN {} ELSE tx
           nrijen == IF bestand \in lading.initieel \ N.bestanden THEN {} ELSE N.rijen
           nieuw == Rijen(m, p)
<1>i. TypeInv
  BY DEF Inv
<1>1. /\ Na(bestand, pos)' = Toegepast(lading, N, p)
      /\ bestand \in Nat /\ bestand > 0 /\ pos \in Nat /\ pos + 1 \in 1..Len(Bestand)
      /\ m \in Wijziging /\ p[1] = bestand
      /\ lading.bestanden[p[1]][p[2]] = m
  BY <1>i, LeesNa
<1>2. /\ pc = "lees" /\ pos' = pos + 1
      /\ UNCHANGED <<lading, bestand, batch, queue, lokaal>>
      /\ pc' = IF Dubbel(m, gezien) \/ m.nieuw = Geen THEN "lees"
               ELSE IF Multithreading THEN "controle" ELSE "schrijf"
      /\ IF Dubbel(m, gezien)
         THEN UNCHANGED <<tx, wis, leeg>>
         ELSE /\ tx' = IF WisVol(m) THEN Gewist(rijen, sleutels) ELSE rijen
              /\ wis' = IF WisVol(m) THEN {} ELSE sleutels
              /\ leeg' = FALSE
  BY DEF Lees, workerVars
<1>3. /\ leeg => Wachtend = {}
      /\ leeg <=> bestand \notin N.bestanden
      /\ lading.soort # "BGT" => wis = {}
      /\ lading.soort = "BGT" => /\ wis \subseteq {Bestand[j].oud : j \in 1..pos}
                                 /\ Wachtend \subseteq Ingevoegd
      /\ Gewist(tx \union Wachtend, wis) = N.rijen
  BY DEF Wachtrij, Som
<1>4. Dubbel(m, gezien) <=> lading.dubbel /\ m.oud = Geen /\ m.nieuw \in N.gezien
  BY <1>1 DEF Gelijkop, Dubbel
<1>5. /\ Bestand' = Bestand /\ Resteert' = Resteert /\ Ingevoegd' = Ingevoegd
      /\ Elementen(queue)' = Elementen(queue) /\ Elementen(lokaal)' = Elementen(lokaal)
  BY <1>2 DEF Bestand, Resteert, Ingevoegd, Elementen
<1>6. {Bestand[j].oud : j \in 1..(pos + 1)} = {Bestand[j].oud : j \in 1..pos} \union {m.oud}
  <2>1. \A j : j \in 1..(pos + 1) <=> j \in 1..pos \/ j = pos + 1
    BY <1>1
  <2> QED BY <2>1
<1>7. CASE Dubbel(m, gezien)
  <2>1. Na(bestand, pos)' = N
    BY <1>1, <1>4, <1>7 DEF Toegepast
  <2>2. UNCHANGED <<tx, wis, leeg>> /\ pc' = "lees"
    BY <1>2, <1>7
  <2>3. Wachtend' = Wachtend
    <3>1. InHanden' = InHanden
      BY <1>2, <1>5, <2>2 DEF InHanden
    <3> QED BY <1>2, <3>1, WachtendGelijk
  <2>4. Wachtrij'
    <3> HIDE DEF N, m, p
    <3>1. {Bestand[j].oud : j \in 1..pos}' = {Bestand[j].oud : j \in 1..(pos + 1)}
      BY <1>2, <1>5
    <3> QED BY <1>2, <1>3, <1>5, <1>6, <2>1, <2>2, <2>3, <3>1 DEF Wachtrij
  <2>5. Som'
    BY <1>3, <2>1, <2>2, <2>3 DEF Som
  <2> QED BY <2>4, <2>5
<1>8. CASE ~Dubbel(m, gezien)
  <2>1. /\ tx' = IF WisVol(m) THEN Gewist(rijen, sleutels) ELSE rijen
        /\ wis' = IF WisVol(m) THEN {} ELSE sleutels
        /\ leeg' = FALSE
    BY <1>2, <1>8
  <2>2. /\ Na(bestand, pos)'.rijen = {x \in nrijen : m.oud = Geen \/ x.sleutel # m.oud}
                                     \union nieuw
        /\ bestand \in Na(bestand, pos)'.bestanden
    <3> HIDE DEF m, N
    <3> QED BY <1>1, <1>4, <1>8 DEF Toegepast
  <2>3. Wachtend' = Wachtend \union nieuw
    <3>1. CASE m.nieuw = Geen
      <4>1. nieuw = {}
        BY <3>1 DEF Rijen
      <4>2. pc' = "lees"
        <5> HIDE DEF m
        <5> QED BY <1>2, <3>1
      <4>3. InHanden' = InHanden
        BY <1>2, <1>5, <4>2 DEF InHanden
      <4>4. Wachtend' = Wachtend
        BY <1>2, <4>3, WachtendGelijk
      <4> HIDE DEF nieuw
      <4> QED BY <4>1, <4>4
    <3>2. CASE m.nieuw # Geen
      <4>1. InHanden' = InHanden \union {pos + 1}
        <5>1. pos + 1 # Marker
          BY <1>1 DEF Marker
        <5>2. pc' \in {"controle", "offer", "schrijf"}
          <6> HIDE DEF m
          <6> QED BY <1>2, <1>8, <3>2
        <5> QED BY <1>2, <1>5, <5>1, <5>2 DEF InHanden
      <4>2. Onderhanden' = UNION {Rijen(Bestand[i], <<bestand, i>>) : i \in InHanden \union {pos + 1}}
        BY <1>2, <1>5, <4>1 DEF Onderhanden
      <4>3. Onderhanden' = Onderhanden \union nieuw
        BY <4>2 DEF Onderhanden
      <4> QED BY <1>5, <4>3 DEF Wachtend
    <3> QED BY <3>1, <3>2
  <2>4. /\ \A r \in Wachtend : r.sleutel \notin sleutels
        /\ ~WisVol(m) => \A r \in nieuw : r.sleutel \notin sleutels
        /\ lading.soort # "BGT" /\ ~WisVol(m) => sleutels = {}
    BY LeesVeilig
  <2>5. nieuw \subseteq Ingevoegd
    BY <1>1 DEF Ingevoegd
  <2>6. Wachtrij'
    <3>1. {Bestand[j].oud : j \in 1..pos}' = {Bestand[j].oud : j \in 1..(pos + 1)}
      BY <1>2, <1>5
    <3>2. lading.soort = "BGT" => sleutels \subseteq {Bestand[j].oud : j \in 1..(pos + 1)}
      BY <1>3, <1>6
    <3>3. lading.soort = "BGT" => wis' \subseteq {Bestand[j].oud : j \in 1..pos}'
      BY <2>1, <3>1, <3>2
    <3>4. lading.soort # "BGT" => wis' = {}
      BY <2>1, <2>4
    <3>5. lading.soort = "BGT" => Wachtend' \subseteq Ingevoegd'
      BY <1>3, <1>5, <2>3, <2>5
    <3> HIDE DEF m, p, N, sleutels, rijen, nrijen, nieuw
    <3> QED BY <1>2, <2>1, <2>2, <3>3, <3>4, <3>5 DEF Wachtrij
  <2>7. Gewist(rijen \union Wachtend, wis) = nrijen
    <3>1. CASE leeg /\ bestand \in lading.initieel
      BY <1>3, <3>1 DEF Gewist
    <3>2. CASE ~(leeg /\ bestand \in lading.initieel)
      <4>1. rijen = tx /\ nrijen = N.rijen
        <5> HIDE DEF N
        <5> QED BY <1>3, <3>2
      <4> HIDE DEF rijen, nrijen, N
      <4> QED BY <1>3, <4>1
    <3> QED BY <3>1, <3>2
  <2>8. Gewist(nrijen, K) = {x \in nrijen : m.oud = Geen \/ x.sleutel # m.oud}
    <3> HIDE DEF nrijen, m
    <3> QED BY DEF Gewist
  <2>9. Gewist(tx' \union Wachtend', wis') = Gewist(nrijen, K) \union nieuw
    <3> HIDE DEF nrijen, rijen, m, p, N, K, nieuw
    <3>1. CASE WisVol(m)
      <4>1. Gewist(rijen, wis \union K) \union Wachtend = Gewist(nrijen, K)
        <5>1. Gewist(rijen, wis \union K) \union Wachtend
              = Gewist(Gewist(rijen \union Wachtend, wis), K)
          <6>1. \A r \in Wachtend : r.sleutel \notin wis \union K
            BY <2>4
          <6> QED BY <6>1, GewistVooraf
        <5> QED BY <2>7, <5>1
      <4>2. Gewist(tx' \union Wachtend', wis') = tx' \union Wachtend'
        BY <2>1, <3>1 DEF Gewist
      <4> QED BY <2>1, <2>3, <3>1, <4>1, <4>2
    <3>2. CASE ~WisVol(m)
      <4>1. Gewist(rijen \union Wachtend \union nieuw, wis \union K) = Gewist(nrijen, K) \union nieuw
        <5>1. Gewist(rijen \union Wachtend \union nieuw, wis \union K)
              = Gewist(Gewist(rijen \union Wachtend, wis), K) \union nieuw
          <6>1. \A r \in nieuw : r.sleutel \notin wis \union K
            BY <2>4, <3>2
          <6> DEFINE R == rijen \union Wachtend
          <6> HIDE DEF R
          <6>2. Gewist(R \union nieuw, wis \union K) = Gewist(Gewist(R, wis), K) \union nieuw
            BY <6>1 DEF Gewist
          <6> QED BY <6>2 DEF R
        <5> QED BY <2>7, <5>1
      <4>2. tx' \union Wachtend' = rijen \union Wachtend \union nieuw /\ wis' = wis \union K
        BY <2>1, <2>3, <3>2
      <4> QED BY <4>1, <4>2
    <3> QED BY <3>1, <3>2
  <2>10. Som'
    <3> HIDE DEF nrijen, rijen, m, p, N, K, nieuw
    <3>1. Gewist(tx \union Wachtend, wis)' = Gewist(tx' \union Wachtend', wis')
      BY DEF Gewist
    <3> QED BY <2>2, <2>8, <2>9, <3>1 DEF Som
  <2> QED BY <2>6, <2>10
<1> QED BY <1>7, <1>8

(* Every step keeps the whole equal to what that thread has made.           *)
LEMMA StapSom ==
  ASSUME Inv, Rust, MutatieInv, ReeksInv, [Next]_vars
  PROVE  Wachtrij' /\ Som'
<1> SUFFICES ASSUME Gaaf' PROVE Wachtrij' /\ Som'
  BY DEF Wachtrij, Som
<1>i. /\ TypeInv /\ Markering /\ Gelijkop /\ Wachtrij /\ Som /\ Vastgelegd
  BY DEF Inv, ReeksInv
<1>1. CASE Start
  <2>1. /\ pc = "start" /\ queue' = <<>> /\ lokaal' = <<>> /\ batch' = LegeBatch /\ wis' = {}
        /\ leeg' = TRUE /\ pc' = "lees" /\ tx' = tx /\ verloren' = verloren
        /\ lading' = lading
    BY <1>1 DEF Start, dbVars
  <2>2. InHanden' = {}
    <3>1. Elementen(queue)' = {} /\ Elementen(lokaal)' = {}
      BY <2>1, ElementenLeeg DEF Elementen
    <3> QED BY <2>1, <3>1 DEF InHanden
  <2>3. Wachtend' = {}
    BY <2>1, <2>2 DEF Wachtend, Onderhanden, Resteert, LegeBatch
  <2>4. /\ Na(bestand, pos)' = NaBestanden(lading)[bestand]
        /\ bestand > 0 => Na(bestand, pos)' = Na(bestand, pos)
        /\ bestand = 0 => Na(bestand, pos)'
                          = [rijen |-> lading.begin, gezien |-> {}, bestanden |-> {}]
        /\ bestand \in Nat /\ bestand' = bestand + 1
    BY <1>1, <1>i, StartNa
  <2>5. bestand' \notin Na(bestand, pos)'.bestanden
    <3>1. CASE bestand > 0
      <4>1. Na(bestand, pos)'.bestanden \subseteq 1..bestand
        BY <1>i, <2>4, <3>1 DEF Gelijkop
      <4>2. bestand' \notin 1..bestand
        BY <2>4
      <4> QED BY <4>1, <4>2
    <3>2. CASE bestand = 0
      BY <2>4, <3>2
    <3> QED BY <2>4, <3>1, <3>2
  <2>6. Wachtrij'
    BY <2>1, <2>3, <2>5 DEF Wachtrij
  <2>7. tx = NaBestanden(lading)[bestand].rijen
    BY <1>i, <2>1 DEF Vastgelegd, Rust, Gaaf
  <2>8. Gewist(tx \union Wachtend, wis)' = tx
    BY <2>1, <2>3 DEF Gewist
  <2>9. Som'
    BY <2>4, <2>7, <2>8 DEF Som
  <2> QED BY <2>6, <2>9
<1>2. ASSUME ~Start PROVE Gaaf
  BY <1>2, <1>i, GaafEerder
<1>3. CASE Lees
  <2>1. ~Start
    BY <1>3 DEF Lees, Start
  <2> QED BY <1>2, <1>3, <1>i, <2>1, LeesSom
<1>4. CASE Wissen
  <2>1. /\ pc = "wissen" /\ pc' = "voltooien" /\ ~Start
        /\ tx' = Gewist(tx, wis) /\ wis' = {}
        /\ UNCHANGED <<lading, bestand, pos, batch, leeg, queue, lokaal>>
    BY <1>4 DEF Wissen, Start, Gaaf, workerVars
  <2>2. Gaaf
    BY <1>2, <2>1
  <2>3. InHanden' = InHanden
    BY <2>1 DEF InHanden, Elementen
  <2>4. Wachtend' = Wachtend
    BY <2>1, <2>3, WachtendGelijk
  <2>5. /\ Ingevoegd' = Ingevoegd /\ Na(bestand, pos)' = Na(bestand, pos)
    BY <2>1 DEF Ingevoegd, Bestand, Na
  <2>6. Wachtrij'
    BY <1>i, <2>1, <2>2, <2>4, <2>5 DEF Wachtrij
  <2>7. \A r \in Wachtend : r.sleutel \notin wis
    <3>1. CASE lading.soort # "BGT"
      BY <1>i, <2>2, <3>1 DEF Wachtrij
    <3>2. CASE lading.soort = "BGT"
      <4>1. wis \subseteq {Bestand[j].oud : j \in 1..pos} /\ Wachtend \subseteq Ingevoegd
        BY <1>i, <2>2, <3>2 DEF Wachtrij
      <4>2. pos = Len(Bestand) /\ bestand > 0
        BY <1>i, <2>1, Feiten DEF Rust, NaEinde
      <4> QED BY <1>i, <3>2, <4>1, <4>2, IngevoegdVeilig
    <3> QED BY <3>1, <3>2
  <2>8. Gewist(tx' \union Wachtend', wis') = Gewist(tx \union Wachtend, wis)
    BY <2>1, <2>4, <2>7 DEF Gewist
  <2>9. Gewist(tx \union Wachtend, wis)' = Gewist(tx' \union Wachtend', wis')
    BY DEF Gewist
  <2>10. Som'
    BY <1>i, <2>2, <2>5, <2>8, <2>9 DEF Som
  <2> QED BY <2>6, <2>10
<1>5. CASE ~Start /\ ~Lees /\ ~Wissen
  <2>1. Gaaf
    BY <1>2, <1>5
  <2>2. /\ UNCHANGED <<lading, bestand, pos, wis, leeg>>
        /\ Wachtend' \subseteq Wachtend
        /\ tx' \union Wachtend' = tx \union Wachtend
    BY <1>5, <1>i, <2>1, VerplaatsSom
  <2>3. /\ Ingevoegd' = Ingevoegd /\ Na(bestand, pos)' = Na(bestand, pos)
        /\ {Bestand[j].oud : j \in 1..pos}' = {Bestand[j].oud : j \in 1..pos}
    BY <2>2 DEF Ingevoegd, Bestand, Na
  <2>4. Wachtrij'
    BY <1>i, <2>1, <2>2, <2>3 DEF Wachtrij
  <2>5. Gewist(tx \union Wachtend, wis)' = Gewist(tx \union Wachtend, wis)
    <3>1. Gewist(tx \union Wachtend, wis)' = Gewist(tx' \union Wachtend', wis')
      BY DEF Gewist
    <3> QED BY <2>2, <3>1
  <2>6. Som'
    BY <1>i, <2>1, <2>3, <2>5 DEF Som
  <2> QED BY <2>4, <2>6
<1> QED BY <1>1, <1>3, <1>4, <1>5

(* At the commit nothing waits any more, and the whole is in the            *)
(* transaction.                                                             *)
LEMMA CommitSom ==
  ASSUME Inv, Rust, ReeksInv, pc = "commit", ~verloren, ~exceptionFromWorkerThread
  PROVE  tx = NaBestanden(lading)[bestand].rijen
<1>1. TypeInv /\ Gaaf /\ Markering /\ Som
  BY DEF Inv, ReeksInv, Gaaf
<1>2. wpc = "uit" /\ wis = {} /\ batch = LegeBatch /\ pos = Len(Bestand)
  BY DEF Rust, NaEinde
<1>3. queue = <<>> /\ lokaal = <<>>
  BY <1>1, <1>2 DEF Markering, TypeInv, Voortgang
<1>4. bestand \in 1..Len(lading.bestanden)
  BY <1>1, Feiten, BestandType DEF TypeInv
<1>5. InHanden = {}
  BY <1>3, ElementenLeeg DEF InHanden
<1>6. Wachtend = {}
  BY <1>2, <1>5 DEF Wachtend, Onderhanden, Resteert, LegeBatch
<1>7. Gewist(tx \union Wachtend, wis) = tx
  BY <1>2, <1>6 DEF Gewist
<1>8. Na(bestand, pos) = NaBestanden(lading)[bestand]
  BY <1>1, <1>2, <1>4, NaVerloop DEF Bestand
<1> QED BY <1>1, <1>7, <1>8 DEF Som

LEMMA StapVastgelegd ==
  ASSUME Inv, Rust, ReeksInv, [Next]_vars
  PROVE  Vastgelegd'
<1> SUFFICES ASSUME ~verloren' PROVE Vastgelegd'
  BY DEF Vastgelegd
<1>i. TypeInv /\ Vastgelegd /\ verloren \in BOOLEAN /\ exceptionFromWorkerThread \in BOOLEAN
  BY DEF Inv, ReeksInv, TypeInv, TypeOK
<1>1. CASE Start
  <2>1. /\ pc = "start" /\ pc' # "start" /\ UNCHANGED <<lading, db, verloren>>
        /\ bestand' = bestand + 1
    BY <1>1 DEF Start, dbVars
  <2>2. bestand \in Nat
    BY <1>1, <1>i, StartNa DEF ReeksInv
  <2>3. bestand' - 1 = bestand
    BY <2>1, <2>2
  <2> QED BY <1>i, <2>1, <2>3 DEF Vastgelegd
<1>2. CASE Commit /\ pc' = "start"
  <2>1. /\ pc = "commit" /\ db' = tx /\ UNCHANGED <<lading, bestand>>
        /\ ~verloren /\ ~exceptionFromWorkerThread
    BY <1>2, <1>i DEF Commit
  <2>2. tx = NaBestanden(lading)[bestand].rijen
    BY <2>1, CommitSom
  <2> QED BY <1>2, <2>1, <2>2 DEF Vastgelegd
<1>3. CASE ~Start /\ ~(Commit /\ pc' = "start")
  <2>1. /\ UNCHANGED <<lading, db, bestand, verloren>>
        /\ pc' = "start" <=> pc = "start"
    <3>1. CASE Lees \/ LeesFout \/ LeesEinde \/ Controle \/ Offer \/ SchrijfZelf
      BY <3>1 DEF Lees, LeesFout, LeesEinde, Controle, Offer, SchrijfZelf, dbVars
    <3>2. CASE EindeObjecten \/ Join \/ Wissen \/ Voltooien \/ Commit
      BY <1>3, <3>2 DEF EindeObjecten, Join, Wissen, Voltooien, Commit, dbVars
    <3>3. CASE Fout \/ AbortPut \/ AbortJoin
      BY <3>3 DEF Fout, AbortPut, AbortJoin, dbVars
    <3>4. CASE Worker \/ UNCHANGED vars
      BY <3>4 DEF Worker, Take, DrainTo, Verwerk, vars, dbVars, mainVars
    <3> QED BY <1>3, <3>1, <3>2, <3>3, <3>4 DEF Next, Hoofd
  <2> QED BY <1>i, <2>1 DEF Vastgelegd
<1> QED BY <1>1, <1>2, <1>3

(* For every batch size, load and number of files, with or without a worker *)
(* thread, and whatever fails: a file is in the database completely or not  *)
(* at all, and what is there is what its objects make of it one after the   *)
(* other, unless the exception of a worker was not seen                     *)
(* (ObjectTableWriter.write, complete).                                     *)
THEOREM Opeenvolging == Spec => []SequentieelResultaat
<1> DEFINE I == Inv /\ Rust /\ MutatieInv /\ ReeksInv
<1>1. Init => I
  <2> SUFFICES ASSUME Init PROVE I
    OBVIOUS
  <2>1. TypeInv /\ Inv /\ Rust /\ MutatieInv
    BY InitType, InitMutatie DEF Inv, Init, Overdracht, Goed, Rust, NaEinde
  <2>2. Len(lading.bestanden) \in Nat
    BY <2>1, LadingType, LenProperties DEF TypeInv
  <2>3. NaBestanden(lading)[0] = [rijen |-> lading.begin, gezien |-> {}, bestanden |-> {}]
    BY <2>2, BestandNaBestand
  <2>4. /\ pc = "start" /\ bestand = 0 /\ db = lading.begin /\ gezien = {}
    BY DEF Init
  <2>5. ~Gaaf
    BY <2>4 DEF Gaaf
  <2>6. Gelijkop
    BY <2>4 DEF Gelijkop
  <2>7. Vastgelegd
    BY <2>3, <2>4 DEF Vastgelegd
  <2> QED BY <2>1, <2>5, <2>6, <2>7 DEF ReeksInv, Markering, Wachtrij, Som
<1>2. I /\ [Next]_vars => I'
  <2> SUFFICES ASSUME I, [Next]_vars PROVE I'
    OBVIOUS
  <2>1. Inv /\ TypeInv /\ Rust /\ MutatieInv /\ ReeksInv
    BY DEF Inv
  <2>2. TypeInv'
    BY <2>1, StapType
  <2>3. Inv' /\ Rust' /\ MutatieInv'
    BY <2>1, <2>2, StapOverdracht, StapRust, StapMutatie DEF Inv
  <2>4. Markering' /\ Gelijkop'
    BY <2>1, StapMarkering, StapGelijkop DEF ReeksInv
  <2>5. Wachtrij' /\ Som' /\ Vastgelegd'
    BY <2>1, StapSom, StapVastgelegd
  <2> QED BY <2>3, <2>4, <2>5 DEF ReeksInv
<1>3. I => SequentieelResultaat
  <2> SUFFICES ASSUME I, ~verloren PROVE SequentieelResultaat
    BY DEF SequentieelResultaat
  <2>1. bestand = 0 => pc = "start"
    BY DEF Inv, TypeInv, Voortgang
  <2> QED BY <2>1 DEF ReeksInv, Vastgelegd, SequentieelResultaat, Resultaat
<1> HIDE DEF I
<1> QED BY <1>1, <1>2, <1>3, PTL DEF Spec



(***************************************************************************)
(* Ending the worker: the part of AbortEindigt that is about states. A     *)
(* thread that is waited for has its marker, or is gone.                   *)
(***************************************************************************)
Afsluiting ==
    /\ pc = "abort" => queue = <<>>
    /\ pc \in {"join", "abortjoin"}
          => wpc = "uit" \/ Marker \in Elementen(queue) \union Elementen(lokaal)

LEMMA StapAfsluiting ==
  ASSUME TypeInv, Afsluiting, [Next]_vars
  PROVE  Afsluiting'
<1>t. queue \in Seq(Nat) /\ lokaal \in Seq(Nat) /\ Marker \in Nat
  BY DEF TypeInv, TypeOK, Marker
<1>1. CASE Start \/ Lees \/ LeesFout \/ LeesEinde \/ Controle \/ Offer \/ SchrijfZelf
  <2>1. pc' \notin {"abort", "join", "abortjoin"}
    BY <1>1 DEF Start, Lees, LeesFout, LeesEinde, Controle, Offer, SchrijfZelf
  <2> QED BY <2>1 DEF Afsluiting
<1>2. CASE Join \/ Wissen \/ Voltooien \/ Commit \/ AbortJoin
  <2>1. pc' \notin {"abort", "join", "abortjoin"}
    BY <1>2 DEF Join, Wissen, Voltooien, Commit, AbortJoin
  <2> QED BY <2>1 DEF Afsluiting
<1>3. CASE EindeObjecten \/ AbortPut
  <2>1. queue' = Append(queue, Marker) /\ pc' \in {"join", "abortjoin"}
    BY <1>3 DEF EindeObjecten, AbortPut
  <2>2. Elementen(queue)' = Elementen(Append(queue, Marker))
    BY <2>1 DEF Elementen
  <2>3. Marker \in Elementen(queue)'
    BY <1>t, <2>2, ElementenErbij
  <2> QED BY <2>1, <2>3 DEF Afsluiting
<1>4. CASE Fout
  BY <1>4 DEF Fout, Afsluiting
<1>5. CASE Take
  <2>1. /\ wpc = "take" /\ queue # <<>> /\ lokaal' = <<Head(queue)>> /\ queue' = Tail(queue)
        /\ pc' = pc
    BY <1>5 DEF Take, mainVars
  <2>2. Elementen(queue) = Elementen(lokaal)' \union Elementen(queue)'
    <3>1. /\ Elementen(lokaal)' = Elementen(<<Head(queue)>>)
          /\ Elementen(queue)' = Elementen(Tail(queue))
      BY <2>1 DEF Elementen
    <3> QED BY <1>t, <2>1, <3>1, ElementenEerste
  <2>3. Elementen(lokaal) = {}
    BY <2>1, ElementenLeeg DEF TypeInv, Voortgang
  <2> QED BY <2>1, <2>2, <2>3 DEF Afsluiting
<1>6. CASE DrainTo
  <2>1. /\ wpc = "drain" /\ lokaal' = lokaal \o queue /\ queue' = <<>> /\ pc' = pc
    BY <1>6 DEF DrainTo, mainVars
  <2>2. Elementen(lokaal)' = Elementen(lokaal) \union Elementen(queue)
    <3>1. Elementen(lokaal)' = Elementen(lokaal \o queue)
      BY <2>1 DEF Elementen
    <3> QED BY <1>t, <3>1, ElementenSamen
  <2> QED BY <2>1, <2>2 DEF Afsluiting
<1>7. CASE Verwerk
  <2>1. /\ wpc = "schrijf" /\ UNCHANGED <<queue, pc>>
        /\ \/ lokaal' = lokaal
           \/ wpc' = "uit"
           \/ lokaal # <<>> /\ Head(lokaal) # Marker /\ lokaal' = Tail(lokaal)
    BY <1>7 DEF Verwerk, mainVars
  <2>2. Elementen(queue)' = Elementen(queue)
    BY <2>1 DEF Elementen
  <2>3. \/ wpc' = "uit"
        \/ Marker \in Elementen(lokaal) => Marker \in Elementen(lokaal)'
    <3>1. CASE lokaal' = lokaal
      BY <3>1 DEF Elementen
    <3>2. CASE lokaal # <<>> /\ Head(lokaal) # Marker /\ lokaal' = Tail(lokaal)
      <4>1. Elementen(lokaal) = {Head(lokaal)} \union Elementen(Tail(lokaal))
        BY <1>t, <3>2, ElementenEerste
      <4>2. Elementen(lokaal)' = Elementen(Tail(lokaal))
        BY <3>2 DEF Elementen
      <4> QED BY <3>2, <4>1, <4>2
    <3> QED BY <2>1, <3>1, <3>2
  <2> QED BY <2>1, <2>2, <2>3 DEF Afsluiting
<1>8. CASE UNCHANGED vars
  BY <1>8 DEF vars, mainVars, workerVars, Afsluiting, Elementen
<1> QED BY <1>1, <1>2, <1>3, <1>4, <1>5, <1>6, <1>7, <1>8 DEF Next, Hoofd, Worker

(* The put() of abortWorkerThread never blocks, and a worker that the main  *)
(* thread joins never waits for an object: the two do not wait for each     *)
(* other ("Make sure worker thread exits").                                 *)
NietOpElkaar ==
    /\ pc = "abort" => Len(queue) < Batch
    /\ pc \in {"join", "abortjoin"} => ~(wpc = "take" /\ queue = <<>>)

THEOREM AfsluitenKan == Spec => []NietOpElkaar
<1>1. Init => TypeInv /\ Afsluiting
  BY InitType DEF Init, Afsluiting
<1>2. TypeInv /\ Afsluiting /\ [Next]_vars => (TypeInv /\ Afsluiting)'
  BY StapType, StapAfsluiting
<1>3. TypeInv /\ Afsluiting => NietOpElkaar
  <2> SUFFICES ASSUME TypeInv, Afsluiting PROVE NietOpElkaar
    OBVIOUS
  <2>1. pc = "abort" => Len(queue) < Batch
    <3>1. Batch \in Nat \ {0}
      BY SchrijverAannames
    <3> QED BY <3>1, EmptySeq DEF Afsluiting
  <2>2. ASSUME pc \in {"join", "abortjoin"}, wpc = "take", queue = <<>>
        PROVE  FALSE
    <3>1. lokaal = <<>>
      BY <2>2 DEF TypeInv, Voortgang
    <3> QED BY <2>2, <3>1, ElementenLeeg DEF Afsluiting
  <2> QED BY <2>1, <2>2 DEF NietOpElkaar
<1> QED BY <1>1, <1>2, <1>3, PTL DEF Spec
=============================================================================
