------------------------- MODULE ObjectTableWriter -------------------------
(***************************************************************************)
(* How the BGT and BAG2 loaders write a stream of objects to the database: *)
(* the main thread reads the stream, deletes previous versions and offers  *)
(* the objects to a bounded queue; a worker thread takes them and fills    *)
(* the insert batches; endOfObjects and complete finish a file with one    *)
(* commit. Both threads share one connection and its transaction.          *)
(*                                                                         *)
(* A row is [tabel, sleutel, bron]: its table, its primary key and the     *)
(* place <<file, index>> of the object it was made from.                   *)
(***************************************************************************)
EXTENDS Naturals, Sequences, FiniteSets

CONSTANTS Batch,      \* batchSize, also the capacity of objectsToWrite
          Ladingen,   \* the loads a history may consist of, see Lading
          Fouten      \* what may go wrong: "lezen", "data", "sql"

Geen == 0
Marker == 0           \* the SchemaObjectInstance without an object type
Tabellen == {"hoofd", "attr"}

(***************************************************************************)
(* A load is a record:                                                     *)
(*   soort      "BGT", "BAG2" (a stand) or "BAG2mutatie"                   *)
(*   draden     --no-multithreading was not given                          *)
(*   initieel   the files that are an initialLoad: the first object of one *)
(*              truncates the table                                        *)
(*   dubbel     ignoreDuplicates                                           *)
(*   begin      the rows that are in the database                          *)
(*   bestanden  the files, each a sequence of [oud, nieuw, attr]: the key  *)
(*              of the version to delete, the key of the new version, and  *)
(*              does it have rows of its own in another table; a key is    *)
(*              Geen when there is nothing to delete, or to insert.        *)
(* A file of the BGT holds no version that it also deletes ("different     *)
(* versions still have a unique primary key value"), and the BGT loader    *)
(* does not look for duplicates.                                           *)
(* In a stand of the BAG every object is a toevoeging.                     *)
(* A wijziging of the BAG keeps the key.  A toevoeging is of a key that is *)
(* neither in the database nor written before in the load, or that was     *)
(* added before and is skipped: what files these are is up to BAG2Mutaties.*)
(***************************************************************************)
Rijtype == [tabel : Tabellen, sleutel : Nat, bron : Nat \X Nat]

(* No two rows of a table have the same key, and no row refers to an object *)
(* that is not there.                                                       *)
Sluitend(rijen) ==
    /\ \A r, s \in rijen : r.tabel = s.tabel /\ r.sleutel = s.sleutel => r = s
    /\ \A r \in rijen : r.tabel = "attr" =>
          \E s \in rijen : s.tabel = "hoofd" /\ s.sleutel = r.sleutel

Eerder(p, q) == p[1] < q[1] \/ (p[1] = q[1] /\ p[2] < q[2])
AllePlaatsen(l) == UNION {{<<f, i>> : i \in 1..Len(l.bestanden[f])} :
                          f \in 1..Len(l.bestanden)}
NieuwVan(l, p) == l.bestanden[p[1]][p[2]].nieuw
Toevoeging(l, p) == l.bestanden[p[1]][p[2]].oud = Geen

ASSUME SchrijverAannames ==
    /\ Batch \in Nat \ {0}
    /\ Fouten \subseteq {"lezen", "data", "sql"}
    /\ Ladingen \subseteq
          [soort : {"BGT", "BAG2", "BAG2mutatie"}, draden : BOOLEAN,
           initieel : SUBSET Nat, dubbel : BOOLEAN, begin : SUBSET Rijtype,
           bestanden : Seq(Seq([oud : Nat, nieuw : Nat, attr : BOOLEAN]))]
    /\ \A l \in Ladingen : l.soort = "BGT" =>
          /\ ~l.dubbel
          /\ \A f \in 1..Len(l.bestanden) : \A i, j \in 1..Len(l.bestanden[f]) :
                l.bestanden[f][i].nieuw # Geen
                => l.bestanden[f][j].oud # l.bestanden[f][i].nieuw
    /\ \A l \in Ladingen : l.soort = "BAG2" =>
          \A p \in AllePlaatsen(l) : Toevoeging(l, p)
    /\ \A l \in Ladingen : l.soort = "BAG2mutatie" =>
          /\ Sluitend(l.begin)
          /\ \A p \in AllePlaatsen(l) : LET k == NieuwVan(l, p) IN
                k # Geen =>
                    \/ l.bestanden[p[1]][p[2]].oud = k
                    \/ /\ Toevoeging(l, p)
                       /\ \/ /\ \A r \in l.begin : r.sleutel # k
                             /\ \A q \in AllePlaatsen(l) :
                                   Eerder(q, p) => NieuwVan(l, q) # k
                          \/ /\ l.dubbel
                             /\ \E q \in AllePlaatsen(l) :
                                   Eerder(q, p) /\ Toevoeging(l, q)
                                   /\ NieuwVan(l, q) = k

VARIABLES
    lading,
    db,             \* the committed rows
    tx,             \* the rows as the transaction in progress sees them
    stuk,           \* the transaction failed and can only be rolled back
    batch,          \* insertBatches, arrayAttributeInsertBatches
    wis,            \* deleteBatches
    leeg,           \* insertBatches.isEmpty()
    gezien,         \* keysPerObjectType
    exceptionFromWorkerThread,
    queue,          \* objectsToWrite
    (************************** the main thread ****************************)
    pc, bestand, pos,
    (************************* the worker thread ***************************)
    wpc, lokaal,
    (******************* history, only for properties **********************)
    verloren        \* a file was committed after its worker had failed

dbVars == <<db, tx, stuk>>
batchVars == <<batch, wis, leeg, gezien>>
mainVars == <<pc, bestand, pos>>
workerVars == <<wpc, lokaal>>
vars == <<lading, dbVars, batchVars, exceptionFromWorkerThread, queue, mainVars,
          workerVars, verloren>>

Bestand == lading.bestanden[bestand]
Mutatie == Bestand[pos]

(* For mutaties of the BAG the batch size is 1 and objects are written by   *)
(* the main thread; the worker was started before that was decided.         *)
OmvangVast == Batch   \* mutant: setBatchSize(1) is forgotten
Omvang == IF lading.soort = "BAG2mutatie" THEN 1 ELSE Batch
Multithreading == lading.draden /\ lading.soort # "BAG2mutatie"
WorkerThread == lading.draden

LegeBatch == [t \in Tabellen |-> {}]

TypeOK ==
    /\ lading \in Ladingen
    /\ db \subseteq Rijtype /\ tx \subseteq Rijtype
    /\ batch \in [Tabellen -> SUBSET Rijtype]
    /\ \A t \in Tabellen : IsFiniteSet(batch[t]) /\ Cardinality(batch[t]) < Omvang
    /\ wis \subseteq Nat /\ gezien \subseteq Nat
    /\ {stuk, leeg, exceptionFromWorkerThread, verloren} \subseteq BOOLEAN
    /\ queue \in Seq(Nat) /\ Len(queue) <= Batch
    /\ pc \in {"start", "lees", "controle", "offer", "schrijf", "einde", "join",
               "wissen", "voltooien", "commit", "fout", "abort", "abortjoin",
               "gefaald"}
    /\ bestand \in 0..Len(lading.bestanden)
    /\ bestand > 0 => pos \in 0..Len(Bestand)
    /\ wpc \in {"uit", "take", "drain", "schrijf"}
    /\ lokaal \in Seq(Nat)

Init ==
    /\ lading \in Ladingen
    /\ db = lading.begin /\ tx = lading.begin /\ stuk = FALSE
    /\ batch = LegeBatch /\ wis = {} /\ leeg = TRUE /\ gezien = {}
    /\ exceptionFromWorkerThread = FALSE
    /\ queue = <<>>
    /\ pc = "start" /\ bestand = 0 /\ pos = 0
    /\ wpc = "uit" /\ lokaal = <<>>
    /\ verloren = FALSE

(***************************************************************************)
(* The batches.                                                            *)
(***************************************************************************)
Rij(t, m, plaats) == [tabel |-> t, sleutel |-> m.nieuw, bron |-> plaats]
Rijen(m, plaats) ==
    IF m.nieuw = Geen THEN {}
    ELSE {Rij("hoofd", m, plaats)}
         \union IF m.attr THEN {Rij("attr", m, plaats)} ELSE {}

Gewist(rijen, sleutels) == {r \in rijen : r.sleutel \notin sleutels}

(* addBatch fills a batch and executes it when it has reached its size.     *)
VolTeLaat(t) == Cardinality(batch[t]) = Omvang   \* mutant: one too late
Vol(t) == Cardinality(batch[t]) + 1 = Omvang

(* The main row first, then the rows that refer to it.                      *)
VoegToe(nieuw) ==
    LET vol == {t \in Tabellen : Vol(t) /\ \E r \in nieuw : r.tabel = t}
        erin(t) == batch[t] \union {r \in nieuw : r.tabel = t}
    IN /\ tx' = tx \union UNION {erin(t) : t \in vol}
       /\ batch' = [t \in Tabellen |-> IF t \in vol THEN {} ELSE erin(t)]

Uitvoeren(nieuw) == \E r \in nieuw : Vol(r.tabel)

(* One object goes to the insert batches: it works, it cannot be converted, *)
(* or the database refuses a batch.                                         *)
Geschreven(i) ==
    LET nieuw == Rijen(Bestand[i], <<bestand, i>>)
    IN /\ ~(stuk /\ Uitvoeren(nieuw))
       /\ VoegToe(nieuw)
       /\ UNCHANGED stuk

NietGeschreven(i) ==
    LET nieuw == Rijen(Bestand[i], <<bestand, i>>)
    IN \/ /\ "data" \in Fouten
          /\ \/ UNCHANGED <<tx, batch, stuk>>
             \/ /\ ~(stuk /\ Uitvoeren(nieuw))
                /\ VoegToe({r \in nieuw : r.tabel = "hoofd"})
                /\ UNCHANGED stuk
       \/ /\ Uitvoeren(nieuw)
          /\ stuk \/ "sql" \in Fouten
          /\ stuk' = TRUE
          /\ UNCHANGED <<tx, batch>>

(***************************************************************************)
(* The main thread: write.                                                 *)
(***************************************************************************)
(* start(): a new Progress with an empty queue. The BGT loader uses one     *)
(* writer for all its files, the BAG2 loader makes one for every file.      *)
Start ==
    /\ pc = "start" /\ bestand < Len(lading.bestanden)
    /\ bestand' = bestand + 1
    /\ pos' = 0
    /\ pc' = "lees"
    /\ queue' = <<>>
    /\ batch' = LegeBatch /\ wis' = {} /\ leeg' = TRUE
    /\ wpc' = IF WorkerThread THEN "take" ELSE "uit"
    /\ lokaal' = <<>>
    /\ exceptionFromWorkerThread' = (lading.soort = "BGT"
                                     /\ exceptionFromWorkerThread)
    /\ UNCHANGED <<lading, dbVars, gezien, verloren>>

(* isDuplicate: an addition whose key was seen in this or an earlier file.  *)
Dubbel(m, sleutels) == lading.dubbel /\ m.oud = Geen /\ m.nieuw \in sleutels

(* deletePreviousVersion: the size of a delete batch.                       *)
WisVol(m) == /\ m.oud # Geen
             /\ Cardinality(wis \union {m.oud}) =
                   IF lading.soort = "BGT" THEN Batch ELSE 1

(* The next object of the stream: the table is prepared, the previous       *)
(* version deleted, and what is not to be inserted is skipped.              *)
Lees ==
    /\ pc = "lees" /\ pos < Len(Bestand)
    /\ LET m == Bestand[pos + 1]
           sleutels == wis \union ({m.oud} \ {Geen})
           rijen == IF leeg /\ bestand \in lading.initieel THEN {} ELSE tx
       IN /\ ~(WisVol(m) /\ stuk)
          /\ IF Dubbel(m, gezien)
             THEN UNCHANGED <<tx, wis, leeg, gezien>>
             ELSE /\ tx' = IF WisVol(m) THEN Gewist(rijen, sleutels) ELSE rijen
                  /\ wis' = IF WisVol(m) THEN {} ELSE sleutels
                  /\ leeg' = FALSE
                  /\ gezien' = IF lading.dubbel /\ m.oud = Geen
                               THEN gezien \union {m.nieuw} ELSE gezien
          /\ pc' = IF Dubbel(m, gezien) \/ m.nieuw = Geen THEN "lees"
                   ELSE IF Multithreading THEN "controle" ELSE "schrijf"
    /\ pos' = pos + 1
    /\ UNCHANGED <<lading, db, stuk, batch, exceptionFromWorkerThread, queue,
                   bestand, workerVars, verloren>>

(* The stream cannot be read, or the delete fails.                          *)
LeesFout ==
    /\ pc = "lees"
    /\ \/ "lezen" \in Fouten /\ UNCHANGED stuk
       \/ /\ pos < Len(Bestand) /\ WisVol(Bestand[pos + 1])
          /\ stuk \/ "sql" \in Fouten
          /\ stuk' = TRUE
    /\ pc' = "fout"
    /\ UNCHANGED <<lading, db, tx, batchVars, exceptionFromWorkerThread, queue,
                   bestand, pos, workerVars, verloren>>

LeesEinde ==
    /\ pc = "lees" /\ pos = Len(Bestand)
    /\ pc' = IF WorkerThread THEN "einde" ELSE "wissen"
    /\ UNCHANGED <<lading, dbVars, batchVars, exceptionFromWorkerThread, queue,
                   bestand, pos, workerVars, verloren>>

(* addObjectToBatch on the main thread: while there is no exception from    *)
(* the worker, offer the object and wait half a second for room.            *)
Controle ==
    /\ pc = "controle"
    /\ pc' = IF exceptionFromWorkerThread THEN "fout" ELSE "offer"
    /\ UNCHANGED <<lading, dbVars, batchVars, exceptionFromWorkerThread, queue,
                   bestand, pos, workerVars, verloren>>

(* Mutant: put() that does not wait, the object is dropped.                 *)
OfferOfWeg ==
    /\ pc = "offer"
    /\ queue' = IF Len(queue) < Batch THEN Append(queue, pos) ELSE queue
    /\ pc' = "lees"
    /\ UNCHANGED <<lading, dbVars, batchVars, exceptionFromWorkerThread,
                   bestand, pos, workerVars, verloren>>

Offer ==
    /\ pc = "offer"
    /\ \/ Len(queue) < Batch /\ queue' = Append(queue, pos) /\ pc' = "lees"
       \/ Len(queue) = Batch /\ queue' = queue /\ pc' = "controle"
    /\ UNCHANGED <<lading, dbVars, batchVars, exceptionFromWorkerThread,
                   bestand, pos, workerVars, verloren>>

(* Without multithreading the main thread fills the batches.                *)
SchrijfZelf ==
    /\ pc = "schrijf"
    /\ \/ Geschreven(pos) /\ pc' = "lees"
       \/ NietGeschreven(pos) /\ pc' = "fout"
    /\ UNCHANGED <<lading, db, wis, leeg, gezien, exceptionFromWorkerThread,
                   queue, bestand, pos, workerVars, verloren>>

(* endOfObjects: put() of the marker blocks while the queue is full.        *)
EindeObjecten ==
    /\ pc = "einde" /\ Len(queue) < Batch
    /\ queue' = Append(queue, Marker)
    /\ pc' = "join"
    /\ UNCHANGED <<lading, dbVars, batchVars, exceptionFromWorkerThread,
                   bestand, pos, workerVars, verloren>>

Join ==
    /\ pc = "join" /\ wpc = "uit"
    /\ pc' = "wissen"
    /\ UNCHANGED <<lading, dbVars, batchVars, exceptionFromWorkerThread, queue,
                   bestand, pos, workerVars, verloren>>

(* The delete batches are executed.                                         *)
Wissen ==
    /\ pc = "wissen"
    /\ \/ /\ ~(stuk /\ wis # {})
          /\ tx' = Gewist(tx, wis) /\ wis' = {}
          /\ stuk' = stuk
          /\ pc' = "voltooien"
       \/ /\ wis # {} /\ (stuk \/ "sql" \in Fouten)
          /\ stuk' = TRUE
          /\ pc' = "fout"
          /\ UNCHANGED <<tx, wis>>
    /\ UNCHANGED <<lading, db, batch, leeg, gezien, exceptionFromWorkerThread,
                   queue, bestand, pos, workerVars, verloren>>

Resteert == UNION {batch[t] : t \in Tabellen}

(* Mutant: the array attributes are forgotten.                              *)
VoltooienHoofd ==
    /\ pc = "voltooien"
    /\ tx' = tx \union batch["hoofd"]
    /\ batch' = LegeBatch
    /\ pc' = "commit"
    /\ UNCHANGED <<lading, db, stuk, wis, leeg, gezien,
                   exceptionFromWorkerThread, queue, bestand, pos, workerVars,
                   verloren>>

(* complete(): what is left in the insert batches is executed.              *)
Voltooien ==
    /\ pc = "voltooien"
    /\ \/ /\ ~(stuk /\ Resteert # {})
          /\ tx' = tx \union Resteert
          /\ batch' = LegeBatch
          /\ stuk' = stuk
          /\ pc' = "commit"
       \/ /\ Resteert # {} /\ (stuk \/ "sql" \in Fouten)
          /\ stuk' = TRUE
          /\ pc' = "fout"
          /\ UNCHANGED <<tx, batch>>
    /\ UNCHANGED <<lading, db, wis, leeg, gezien, exceptionFromWorkerThread,
                   queue, bestand, pos, workerVars, verloren>>

(* The driver refuses to commit a transaction that failed.                  *)
Commit ==
    /\ pc = "commit"
    /\ \/ /\ ~stuk
          /\ db' = tx
          /\ verloren' = (verloren \/ exceptionFromWorkerThread)
          /\ pc' = "start"
       \/ /\ stuk \/ "sql" \in Fouten
          /\ pc' = "fout"
          /\ UNCHANGED <<db, verloren>>
    /\ UNCHANGED <<lading, tx, stuk, batchVars, exceptionFromWorkerThread, queue,
                   bestand, pos, workerVars>>

(***************************************************************************)
(* An exception on the main thread ends the load; its transaction is never *)
(* committed. The BAG2 loader makes sure that the worker ends              *)
(* (abortWorkerThread), the BGT loader only closes the batches.            *)
(***************************************************************************)
(* Mutant: the queue is not cleared.                                        *)
FoutZonderLegen ==
    /\ pc = "fout"
    /\ pc' = IF lading.soort # "BGT" /\ WorkerThread THEN "abort" ELSE "gefaald"
    /\ UNCHANGED <<lading, dbVars, batchVars, exceptionFromWorkerThread, queue,
                   bestand, pos, workerVars, verloren>>

Fout ==
    /\ pc = "fout"
    /\ IF lading.soort # "BGT" /\ WorkerThread
       THEN pc' = "abort" /\ queue' = <<>>
       ELSE pc' = "gefaald" /\ queue' = queue
    /\ UNCHANGED <<lading, dbVars, batchVars, exceptionFromWorkerThread,
                   bestand, pos, workerVars, verloren>>

AbortPut ==
    /\ pc = "abort" /\ Len(queue) < Batch
    /\ queue' = Append(queue, Marker)
    /\ pc' = "abortjoin"
    /\ UNCHANGED <<lading, dbVars, batchVars, exceptionFromWorkerThread,
                   bestand, pos, workerVars, verloren>>

AbortJoin ==
    /\ pc = "abortjoin" /\ wpc = "uit"
    /\ pc' = "gefaald"
    /\ UNCHANGED <<lading, dbVars, batchVars, exceptionFromWorkerThread, queue,
                   bestand, pos, workerVars, verloren>>

(***************************************************************************)
(* The worker thread.                                                      *)
(***************************************************************************)
Take ==
    /\ wpc = "take" /\ queue # <<>>
    /\ lokaal' = <<Head(queue)>>
    /\ queue' = Tail(queue)
    /\ wpc' = "drain"
    /\ UNCHANGED <<lading, dbVars, batchVars, exceptionFromWorkerThread,
                   mainVars, verloren>>

(* Mutant: the list that take() started is replaced.                        *)
DrainVervangt ==
    /\ wpc = "drain"
    /\ lokaal' = IF queue = <<>> THEN lokaal ELSE queue
    /\ queue' = <<>>
    /\ wpc' = "schrijf"
    /\ UNCHANGED <<lading, dbVars, batchVars, exceptionFromWorkerThread,
                   mainVars, verloren>>

DrainTo ==
    /\ wpc = "drain"
    /\ lokaal' = lokaal \o queue
    /\ queue' = <<>>
    /\ wpc' = "schrijf"
    /\ UNCHANGED <<lading, dbVars, batchVars, exceptionFromWorkerThread,
                   mainVars, verloren>>

(* The for loop over the objects. An exception ends the thread; what it     *)
(* had taken and not written yet goes with it.                              *)
Verwerk ==
    /\ wpc = "schrijf"
    /\ \/ /\ lokaal = <<>>
          /\ wpc' = "take"
          /\ UNCHANGED <<tx, stuk, batch, lokaal, exceptionFromWorkerThread>>
       \/ /\ lokaal # <<>> /\ Head(lokaal) = Marker
          /\ wpc' = "uit"
          /\ lokaal' = <<>>
          /\ UNCHANGED <<tx, stuk, batch, exceptionFromWorkerThread>>
       \/ /\ lokaal # <<>> /\ Head(lokaal) # Marker
          /\ Geschreven(Head(lokaal))
          /\ lokaal' = Tail(lokaal)
          /\ UNCHANGED <<wpc, exceptionFromWorkerThread>>
       \/ /\ lokaal # <<>> /\ Head(lokaal) # Marker
          /\ NietGeschreven(Head(lokaal))
          /\ lokaal' = <<>>
          /\ wpc' = "uit"
          /\ exceptionFromWorkerThread' = TRUE
    /\ UNCHANGED <<lading, db, wis, leeg, gezien, queue, mainVars, verloren>>

Hoofd == Start \/ Lees \/ LeesFout \/ LeesEinde \/ Controle \/ Offer
         \/ SchrijfZelf \/ EindeObjecten \/ Join \/ Wissen \/ Voltooien \/ Commit
         \/ Fout \/ AbortPut \/ AbortJoin
Worker == Take \/ DrainTo \/ Verwerk

Next == Hoofd \/ Worker

Spec == Init /\ [][Next]_vars

(* Two Java threads that the scheduler keeps running; reading the stream    *)
(* and the calls of the database return.                                    *)
FairSpec == Spec /\ WF_vars(Hoofd) /\ WF_vars(Worker)

(***************************************************************************)
(* Properties.                                                             *)
(***************************************************************************)
(* What a single thread without batches would make of the files: one object *)
(* after the other, one file after the other. The state of that thread is   *)
(* the rows, the keys it has seen and the files of which it wrote an object.*)
Toegepast(l, r, p) ==
    LET m == l.bestanden[p[1]][p[2]]
        rijen == IF p[1] \in l.initieel \ r.bestanden THEN {} ELSE r.rijen
    IN IF l.dubbel /\ m.oud = Geen /\ m.nieuw \in r.gezien THEN r
       ELSE [rijen |-> {x \in rijen : m.oud = Geen \/ x.sleutel # m.oud}
                       \union Rijen(m, p),
             gezien |-> IF m.oud = Geen THEN r.gezien \union {m.nieuw}
                                        ELSE r.gezien,
             bestanden |-> r.bestanden \union {p[1]}]

NaObjecten(l, r, f) ==
    LET na[i \in 0..Len(l.bestanden[f])] ==
            IF i = 0 THEN r ELSE Toegepast(l, na[i - 1], <<f, i>>)
    IN na

NaBestanden(l) ==
    LET na[f \in 0..Len(l.bestanden)] ==
            IF f = 0 THEN [rijen |-> l.begin, gezien |-> {}, bestanden |-> {}]
            ELSE NaObjecten(l, na[f - 1], f)[Len(l.bestanden[f])]
    IN na

Resultaat(n) == NaBestanden(lading)[n].rijen

(* Files are loaded completely or not at all, and what is in the database   *)
(* is what their objects make of it one after the other: two threads, a     *)
(* queue, deletes ahead of inserts and batches per table change nothing,    *)
(* unless a worker failed and its exception was not seen (write, complete). *)
SequentieelResultaat ==
    ~verloren => db = Resultaat(IF pc = "start" THEN bestand
                                ELSE IF bestand = 0 THEN 0 ELSE bestand - 1)

(* No two rows of a table have the same key, and no row refers to an object *)
(* that is not there yet: mutaties of the BAG are written with the keys in  *)
(* place ("batch size is set to 1 to correctly order all batches").         *)
Integriteit == lading.soort = "BAG2mutatie" => Sluitend(tx)

(* Between the threads no object gets lost: as long as the worker did not   *)
(* fail, an object that was offered is in the queue, in the hands of the    *)
(* worker, in a batch or in the transaction (offer, take, drainTo).         *)
Aangeboden == 1..(IF pc \in {"controle", "offer", "schrijf"} THEN pos - 1 ELSE pos)
Onderweg(i) == \/ \E k \in DOMAIN queue : queue[k] = i
               \/ \E k \in DOMAIN lokaal : lokaal[k] = i
               \/ Rijen(Bestand[i], <<bestand, i>>) \subseteq tx \union Resteert

NietsOvergeslagen ==
    (lading.soort = "BGT" /\ pc \notin {"start", "fout", "gefaald"}
                         /\ ~exceptionFromWorkerThread)
        => \A i \in Aangeboden : Onderweg(i)

(* "Make sure worker thread exits": after an exception the BAG2 loader      *)
(* ends, and so does its worker (abortWorkerThread).                        *)
AbortEindigt ==
    (pc = "fout" /\ lading.soort # "BGT") ~> (pc = "gefaald" /\ wpc = "uit")

(* The main thread never waits for ever on a queue that nobody drains ("we  *)
(* can't use the blocking put() method").                                   *)
SchrijvenEindigt == pc = "lees" ~> pc \in {"start", "gefaald"}
=============================================================================
