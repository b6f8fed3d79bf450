-------------------- MODULE BerichtPipelineDirectProofs --------------------
(***************************************************************************)
(* What holds of the transformation without a pipeline thread, for every   *)
(* number of berichten, page size, assignment of berichten to objects,     *)
(* number of runs and number of crashes: the job table finds back what was *)
(* not done, and staging records nothing as processed that is not in the   *)
(* RSGB. And what of it is left with a pipeline thread.                    *)
(***************************************************************************)
EXTENDS BerichtPipelineProofs, FiniteSetTheorems, WellFoundedInduction

(* A set of numbers that is not empty has a greatest element: the numbers   *)
(* above which none of it lies have a smallest one.                         *)
LEMMA GrootsteBestaat ==
    ASSUME NEW n \in Nat, NEW S \in SUBSET (1..n), S # {}
    PROVE  \E m \in S : \A i \in S : m >= i
  <1> DEFINE Kleiner == {ss \in Nat \X Nat : ss[1] < ss[2]}
             Boven == {m \in Nat : \A i \in S : m >= i}
  <1>1. n \in Boven
    OBVIOUS
  <1>2. IsWellFoundedOn(Kleiner, Nat)
    BY NatLessThanWellFounded DEF OpToRel
  <1>3. PICK m \in Boven : \A y \in Boven : ~(<<y, m>> \in Kleiner)
    <2> HIDE DEF Kleiner
    <2> QED
      BY <1>1, <1>2, WFMin
  <1>4. m # 0
    <2>1. PICK i \in S : i \in 1..n
      OBVIOUS
    <2> QED
      BY <1>3, <2>1
  <1>5. m - 1 \in Nat /\ <<m - 1, m>> \in Kleiner
    BY <1>3, <1>4
  <1>6. m - 1 \notin Boven
    BY <1>3, <1>5
  <1> QED
    BY <1>3, <1>5, <1>6

Direct == ~inst.pipeline
Gelezen == {c \in taak : c <= lastJid}

(***************************************************************************)
(* The inductive invariant.                                                *)
(***************************************************************************)
(* No second thread, nothing left behind, and a run starts from nothing.    *)
EenDraad ==
    /\ achterblijvers = {} /\ pc \notin {"stop", "join"}
    /\ pc = "klaar" => offset = 0

(* What was read is counted; with nothing read of a page there is nothing   *)
(* left to read.                                                            *)
Telling ==
    /\ Leest => Cardinality(Gelezen) = IF pc = "query" THEN offset
                                                       ELSE offset + processed
    /\ pc = "rij" /\ processed = 0 /\ rs = {} => taak \subseteq gedaan

(* The job table is that of the run until all of it was tried.              *)
Jobtabel ==
    /\ pc \in {"opruimen", "fout"} => job = taak
    /\ pc = "opruimen" => taak \subseteq gedaan

(* Statuses follow what was done, the row that is just committed excepted.  *)
Bijgehouden ==
    /\ \A b \in taak : status[b] # "AFWEZIG"
    /\ ~inst.stagingFout /\ pc # "klaar" =>
          \A b \in gedaan : \/ status[b] \in {"RSGB_OK", "RSGB_NOK", "RSGB_OUTDATED"}
                            \/ handle.pc = "commit" /\ handle.bericht = b
    /\ ~inst.stagingFout => \A b \in taak : status[b] = "STAGING_OK" => b \in job

Uitkomst == inst.stop /\ mislukt # {} /\ pc \in {"sluiten", "klaar"} => uitkomst # "ok"

(* The plan of handle is still right when it is carried out, and what the   *)
(* RSGB holds of an object came from a bericht about that object.           *)
PlanKlopt ==
    handle.pc \in {"verwerk", "commit"} =>
        /\ handle.plan \in {"TOEPASSEN", "ONGEWIJZIGD", "VEROUDERD"}
        /\ handle.plan = "ONGEWIJZIGD" => status[handle.bericht] = "RSGB_OK"
        /\ handle.plan = "TOEPASSEN" =>
              /\ \A c \in Bericht :
                    /\ ObjectRef[c] = ObjectRef[handle.bericht]
                    /\ status[c] = "RSGB_OK"
                    => c < handle.bericht
              /\ handle.pc = "commit" => rsgb[ObjectRef[handle.bericht]] = handle.bericht
EigenObject == \A o \in Object : rsgb[o] # Geen => ObjectRef[rsgb[o]] = o

DirectInv == EenDraad /\ Telling /\ Jobtabel /\ Bijgehouden /\ Uitkomst
             /\ PlanKlopt /\ EigenObject /\ StagingVolgtRsgb

(***************************************************************************)
(* Which steps there are.                                                  *)
(***************************************************************************)
DirecteStap ==
    \/ \E b \in Bericht : Laad(b) \/ RijDirect(b)
    \/ \E modus \in Modi : StartRun(modus) \/ WeigerRun(modus)
    \/ Query \/ EindeBatch \/ RemoveJob \/ Afbreken \/ Close
    \/ HandleLees \/ HandleCommit \/ HandleFout \/ HandleStatus
    \/ Crash

(* Without a pipeline the steps of the second thread do not occur.          *)
LEMMA DirecteStappen ==
  ASSUME Inv, EenDraad, Direct, [Next]_vars
  PROVE  DirecteStap \/ UNCHANGED vars
<1>1. /\ wpc = "uit" /\ pc \notin {"getQueue", "put", "stop", "join"}
      /\ achterblijvers = {} /\ ~inst.pipeline
  BY DEF Inv, Rollen, EenDraad, Direct
<1>2. ASSUME NEW b \in Bericht PROVE ~RijGetransformeerd(b) /\ ~RijOnleesbaar(b)
  BY <1>1 DEF RijGetransformeerd, RijOnleesbaar
<1>3. ~GetQueue /\ ~Put /\ ~StopWhenQueueEmpty /\ ~Join /\ ~Poll /\ ~Check
  BY <1>1 DEF GetQueue, Put, StopWhenQueueEmpty, Join, Poll, Check
<1> QED BY <1>1, <1>2, <1>3 DEF Next, RunStap, ThreadStap, HandleStap, DirecteStap

(* The settings of a history do not change.                                 *)
LEMMA InstVast ==
  ASSUME DirecteStap \/ UNCHANGED vars
  PROVE  inst' = inst
<1>1. ASSUME NEW b \in Bericht, Laad(b) \/ RijDirect(b) PROVE inst' = inst
  BY <1>1 DEF Laad, RijDirect, begrensd
<1>2. ASSUME NEW modus \in Modi, StartRun(modus) \/ WeigerRun(modus)
      PROVE  inst' = inst
  BY <1>2 DEF StartRun, WeigerRun
<1> QED
  BY <1>1, <1>2 DEF DirecteStap, Query, EindeBatch, RemoveJob, Afbreken, Close,
     HandleLees, HandleCommit, HandleFout, HandleStatus, Crash, vars, begrensd

(* One thread, before and after every step.                                 *)
LEMMA StapEenDraad ==
  ASSUME Inv, DirectInv, Direct, DirecteStap \/ UNCHANGED vars
  PROVE  EenDraad'
<1> USE DEF EenDraad
<1>a. EenDraad /\ wpc = "uit" /\ ~inst.pipeline
  BY DEF DirectInv, Inv, Rollen, Direct
<1>1. ASSUME NEW b \in Bericht, Laad(b) \/ RijDirect(b) PROVE EenDraad'
  BY <1>1, <1>a DEF Laad, RijDirect, runVars, handleVars
<1>2. ASSUME NEW modus \in Modi, StartRun(modus) \/ WeigerRun(modus)
      PROVE  EenDraad'
  BY <1>2, <1>a DEF StartRun, WeigerRun, handleVars
<1>3. CASE Query \/ EindeBatch \/ RemoveJob \/ Afbreken
  BY <1>3, <1>a DEF Query, EindeBatch, RemoveJob, Afbreken, handleVars
<1>4. CASE Close \/ Crash
  BY <1>4, <1>a DEF Close, Crash, RunInRust
<1>5. CASE HandleLees \/ HandleCommit \/ HandleFout
  BY <1>5, <1>a DEF HandleLees, HandleCommit, HandleFout, runVars
<1>6. CASE HandleStatus
  BY <1>6, <1>a DEF HandleStatus
<1>7. CASE UNCHANGED vars
  BY <1>7, <1>a DEF vars, runVars, handleVars
<1> QED BY <1>1, <1>2, <1>3, <1>4, <1>5, <1>6, <1>7 DEF DirecteStap

(***************************************************************************)
(* Counting: the rows up to lastJid are those that were tried.             *)
(***************************************************************************)
(* The rows of a run, and those read of it, can be counted.                 *)
LEMMA Eindig ==
  ASSUME TypeOK
  PROVE  /\ IsFiniteSet(taak) /\ IsFiniteSet(Gelezen) /\ IsFiniteSet(job)
         /\ Cardinality(taak) \in Nat /\ Cardinality(Gelezen) \in Nat
         /\ Cardinality(Gelezen) <= Cardinality(taak)
         /\ Cardinality(Gelezen) = Cardinality(taak) => Gelezen = taak
<1>1. IsFiniteSet(Bericht)
  BY FS_Interval, PipelineAannames DEF Bericht
<1>2. IsFiniteSet(taak) /\ IsFiniteSet(job)
  BY <1>1, FS_Subset DEF TypeOK
<1>3. Gelezen \in SUBSET taak
  BY DEF Gelezen
<1> QED BY <1>2, <1>3, FS_Subset, FS_CardinalityType

(* Once the count reaches the number of rows of the run, or nothing is left *)
(* to read, everything was tried.                                           *)
LEMMA AllesGeprobeerd ==
  ASSUME Inv, DirectInv, Direct, pc = "rij", rs = {},
         ~(processed > 0 /\ offset + processed < Cardinality(taak))
  PROVE  taak \subseteq gedaan
<1>t. /\ TypeOK /\ Lezer /\ Telling /\ processed \in Nat /\ offset \in Nat
  BY DEF Inv, DirectInv, TypeOK
<1>1. CASE processed = 0
  BY <1>1, <1>t DEF Telling
<1>2. CASE processed # 0
  <2>1. Cardinality(Gelezen) = offset + processed
    BY <1>t DEF Telling, Leest
  <2>2. Gelezen = taak
    BY <1>2, <1>t, <2>1, Eindig
  <2>3. lastJid \in Nat /\ taak \subseteq Nat
    BY <1>t, Getallen
  <2> QED BY <2>2, <2>3, <1>t DEF Gelezen, Lezer, Leest, Direct
<1> QED BY <1>1, <1>2

(* A step that reads no row keeps the count.                                *)
LEMMA TellingGelijk ==
  ASSUME Telling, UNCHANGED <<taak, lastJid, pc, offset, processed, rs>>,
         gedaan \subseteq gedaan'
  PROVE  Telling'
BY DEF Telling, Gelezen, Leest

(* Every step keeps the count.                                              *)
LEMMA StapTelling ==
  ASSUME Inv, Inv', DirectInv, Direct, DirecteStap \/ UNCHANGED vars
  PROVE  Telling'
<1>t. /\ TypeOK /\ TypeOK' /\ Rollen /\ Rollen' /\ Lezer /\ Telling /\ EenDraad
      /\ processed \in Nat /\ offset \in Nat
      /\ lastJid \in Nat /\ taak \subseteq Nat /\ rij \in Nat /\ taak' \subseteq Nat
      /\ ~inst.pipeline
  <2>1. TypeOK /\ TypeOK'
    BY DEF Inv
  <2>2. taak' \subseteq Nat
    BY <2>1, ObjectVanBericht DEF TypeOK
  <2> QED BY <2>1, <2>2, Getallen DEF Inv, DirectInv, TypeOK, Direct
<1>1. ASSUME NEW b \in Bericht, Laad(b) PROVE Telling'
  BY <1>1, <1>t, TellingGelijk DEF Laad, runVars, histVars
<1>2. ASSUME NEW modus \in Modi, StartRun(modus) PROVE Telling'
  <2>1. /\ pc' \in {"klaar", "query"} /\ lastJid' = 0 /\ offset' = 0
    BY <1>2, <1>t DEF StartRun, Rollen, EenDraad, Geen
  <2>2. Gelezen' = {}
    <3>1. \A c \in taak' : c \in Nat \ {0}
      BY <1>t, ObjectVanBericht DEF TypeOK
    <3>2. Gelezen' = {c \in taak' : c <= 0}
      BY <2>1 DEF Gelezen
    <3> QED BY <3>1, <3>2
  <2> QED BY <2>1, <2>2, FS_EmptySet DEF Telling, Leest
<1>3. ASSUME NEW modus \in Modi, WeigerRun(modus) PROVE Telling'
  BY <1>3 DEF WeigerRun, Telling, Leest
<1>4. CASE Query
  <2>1. /\ pc = "query" /\ pc' = "rij" /\ processed' = 0
        /\ UNCHANGED <<job, lastJid, offset, taak, gedaan>>
    BY <1>4 DEF Query, dbVars, histVars
  <2>2. Cardinality(Gelezen') = offset' + processed'
    <3>1. Gelezen' = Gelezen /\ Cardinality(Gelezen) = offset
      BY <2>1, <1>t DEF Gelezen, Telling, Leest
    <3> QED BY <2>1, <3>1, <1>t
  <2>3. ASSUME rs' = {} PROVE taak' \subseteq gedaan'
    <3> DEFINE rijen == {b \in job : b > lastJid}
    <3>1. Pagina({}, rijen)
      BY <1>4, <2>3 DEF Query
    <3>2. IsFiniteSet(rijen)
      BY <1>t, Eindig, FS_Subset
    <3>3. Cardinality(rijen) = 0
      <4> HIDE DEF rijen
      <4> QED BY <3>1, <3>2, FS_EmptySet, FS_CardinalityType, PipelineAannames DEF Pagina
    <3>4. rijen = {}
      BY <3>2, <3>3, FS_EmptySet
    <3>5. job = taak
      BY <2>1, <1>t DEF Lezer, Leest
    <3> QED BY <2>1, <3>4, <3>5, <1>t DEF Lezer, Leest
  <2> QED BY <2>1, <2>2, <2>3 DEF Telling
<1>5. ASSUME NEW b \in Bericht, RijDirect(b) PROVE Telling'
  BY <1>5, <1>t DEF RijDirect, Telling, Leest, Gelezen, histVars
<1>6. CASE EindeBatch
  <2>1. /\ pc = "rij" /\ pc' \in {"query", "opruimen"} /\ offset' = offset + processed
        /\ UNCHANGED <<lastJid, taak, gedaan>>
    BY <1>6 DEF EindeBatch, histVars
  <2> QED BY <2>1, <1>t DEF Telling, Leest, Gelezen
<1>7. CASE RemoveJob \/ Afbreken \/ Close \/ Crash
  BY <1>7, <1>t DEF RemoveJob, Afbreken, Close, Crash, Telling, Leest
<1>8. CASE HandleLees \/ HandleCommit \/ HandleFout
  BY <1>8, <1>t, TellingGelijk DEF HandleLees, HandleCommit, HandleFout, runVars,
     histVars
<1>9. CASE HandleStatus
  <2>1. /\ pc = "handle" /\ handle # Vrij
    BY <1>9, <1>t DEF HandleStatus, Rollen, Vrij
  <2>2. /\ pc' = (IF Exceptie THEN "fout" ELSE "rij")
        /\ lastJid' = (IF Exceptie THEN lastJid ELSE rij)
        /\ processed' = (IF Exceptie THEN processed ELSE processed + 1)
        /\ UNCHANGED <<taak, offset>>
    BY <1>9, <1>t DEF HandleStatus
  <2>3. CASE Exceptie
    BY <2>2, <2>3 DEF Telling, Leest
  <2>4. CASE ~Exceptie
    <3>1. rij \in taak /\ rij > lastJid
      BY <2>1, <1>t DEF Lezer
    <3>2. ASSUME NEW c \in taak PROVE c <= rij => c <= lastJid \/ c = rij
      <4>1. SUFFICES ASSUME c > lastJid, c < rij PROVE FALSE
        BY <1>t, <3>2
      <4>2. c \notin gedaan
        BY <4>1, <2>1, <1>t DEF Lezer, Leest
      <4>3. c \in rs
        BY <4>1, <4>2, <2>1, <1>t DEF Lezer, Leest
      <4> QED BY <4>1, <4>3, <2>1, <1>t DEF Lezer, Leest
    <3>3. Gelezen' = Gelezen \union {rij} /\ rij \notin Gelezen
      <4>1. Gelezen' = {c \in taak : c <= rij}
        BY <2>2, <2>4 DEF Gelezen
      <4>2. ASSUME NEW c \in taak
            PROVE  (c <= rij <=> c <= lastJid \/ c = rij) /\ (c = rij => ~(c <= lastJid))
        BY <3>1, <3>2, <1>t
      <4>3. {c \in taak : c <= rij} = {c \in taak : c <= lastJid} \union {rij}
        BY <4>2, <3>1
      <4> QED BY <4>1, <4>2, <4>3, <3>1 DEF Gelezen
    <3>4. Cardinality(Gelezen') = Cardinality(Gelezen) + 1
      BY <3>3, <1>t, Eindig, FS_AddElement
    <3>5. Cardinality(Gelezen) = offset + processed
      BY <2>1, <1>t DEF Telling, Leest
    <3> QED BY <2>2, <2>4, <3>4, <3>5, <1>t DEF Telling, Leest
  <2> QED BY <2>3, <2>4
<1>10. CASE UNCHANGED vars
  BY <1>10, <1>t, TellingGelijk DEF vars, runVars, histVars
<1> QED BY <1>1, <1>2, <1>3, <1>4, <1>5, <1>6, <1>7, <1>8, <1>9, <1>10
        DEF DirecteStap

(***************************************************************************)
(* The job table, the statuses and the outcome.                            *)
(***************************************************************************)
(* Every step keeps the job table until all of it was tried.                *)
LEMMA StapJobtabel ==
  ASSUME Inv, DirectInv, Direct, DirecteStap \/ UNCHANGED vars
  PROVE  Jobtabel'
<1> USE DEF Jobtabel
<1>t. Jobtabel /\ Rollen /\ Lezer /\ ~inst.pipeline
  BY DEF Inv, DirectInv, Direct
<1>1. ASSUME NEW b \in Bericht, Laad(b) \/ RijDirect(b) PROVE Jobtabel'
  BY <1>1, <1>t DEF Laad, RijDirect, runVars, histVars
<1>2. ASSUME NEW modus \in Modi, StartRun(modus) \/ WeigerRun(modus)
      PROVE  Jobtabel'
  BY <1>2 DEF StartRun, WeigerRun
<1>3. CASE Query \/ RemoveJob \/ Afbreken \/ Close \/ Crash
  BY <1>3, <1>t DEF Query, RemoveJob, Afbreken, Close, Crash
<1>4. CASE EindeBatch
  <2>1. /\ pc = "rij" /\ rs = {} /\ offset' = offset + processed
        /\ pc' = (IF processed > 0 /\ offset' < Cardinality(taak)
                    THEN "query" ELSE "opruimen")
        /\ UNCHANGED <<job, taak, gedaan>>
    BY <1>4 DEF EindeBatch, dbVars, histVars
  <2>2. pc' # "query" => taak \subseteq gedaan
    BY <2>1, AllesGeprobeerd
  <2>3. pc' # "fout"
    BY <2>1
  <2> QED BY <2>1, <2>2, <2>3, <1>t DEF Lezer, Leest
<1>5. CASE HandleLees \/ HandleCommit \/ HandleFout
  BY <1>5, <1>t DEF HandleLees, HandleCommit, HandleFout, runVars, histVars, dbVars
<1>6. CASE HandleStatus
  <2>1. pc = "handle" /\ job = taak
    BY <1>6, <1>t DEF HandleStatus, Rollen, Lezer, Leest
  <2> QED BY <1>6, <1>t, <2>1 DEF HandleStatus
<1>7. CASE UNCHANGED vars
  BY <1>7, <1>t DEF vars, runVars, histVars, dbVars
<1> QED BY <1>1, <1>2, <1>3, <1>4, <1>5, <1>6, <1>7 DEF DirecteStap

(* Writing a status changes that of one bericht, unless staging fails.      *)
LEMMA Geschreven ==
  ASSUME TypeOK, NEW b \in Bericht, NEW s \in Status, SchrijfStatus(b, s)
  PROVE  /\ \A c \in Bericht : status'[c] = status[c] \/ (c = b /\ status'[c] = s)
         /\ ~inst.stagingFout => status'[b] = s
BY DEF TypeOK, SchrijfStatus

(* What handle writes when it begins and when it ends.                      *)
LEMMA GeschrevenLees ==
  ASSUME Inv, HandleLees
  PROVE  \A c \in Bericht : \/ status'[c] = status[c]
                            \/ c = handle.bericht /\ status'[c] = "RSGB_NOK"
<1>1. TypeOK /\ handle.bericht \in Bericht
  BY HandleBezet DEF Inv, TypeOK, HandleLees
<1>2. CASE Onleesbaar
  BY <1>1, <1>2, Geschreven DEF HandleLees, Status
<1>3. CASE ~Onleesbaar
  BY <1>3 DEF HandleLees
<1> QED BY <1>2, <1>3

LEMMA GeschrevenStatus ==
  ASSUME Inv, HandleStatus
  PROVE  /\ handle.bericht \in Bericht
         /\ \A c \in Bericht : \/ status'[c] = status[c]
                               \/ c = handle.bericht /\ status'[c] = NieuweStatus
         /\ ~inst.stagingFout => status'[handle.bericht] = NieuweStatus
         /\ NieuweStatus \in {"RSGB_OK", "RSGB_NOK", "RSGB_OUTDATED"}
<1>1. TypeOK /\ handle.bericht \in Bericht
  BY HandleBezet DEF Inv, TypeOK, HandleStatus
<1>2. NieuweStatus \in {"RSGB_OK", "RSGB_NOK", "RSGB_OUTDATED"}
  BY DEF NieuweStatus
<1> QED BY <1>1, <1>2, Geschreven DEF HandleStatus, Status

(* Every step keeps the statuses up with what was done.                     *)
LEMMA StapBijgehouden ==
  ASSUME Inv, Inv', DirectInv, Direct, DirecteStap \/ UNCHANGED vars
  PROVE  Bijgehouden'
<1> USE DEF Bijgehouden
<1>t. /\ TypeOK /\ Bijgehouden /\ Jobtabel /\ Rollen /\ Vlucht /\ ~inst.pipeline
      /\ inst' = inst /\ taak \subseteq Bericht /\ gedaan \subseteq Bericht
  BY InstVast DEF Inv, DirectInv, Direct, TypeOK
<1>1. ASSUME NEW b \in Bericht, Laad(b) PROVE Bijgehouden'
  <2>1. /\ status[b] = "AFWEZIG" /\ status'[b] = "STAGING_OK"
        /\ \A c \in Bericht : c # b => status'[c] = status[c]
        /\ UNCHANGED <<job, pc, taak, gedaan, handle>>
    BY <1>1, <1>t DEF Laad, TypeOK, runVars, histVars, handleVars
  <2>2. b \notin taak
    BY <2>1, <1>t
  <2>3. ~inst.stagingFout /\ pc # "klaar" => b \notin gedaan \/ handle.bericht = b
    BY <2>1, <1>t
  <2>4. handle.bericht = b /\ handle.pc = "commit" => pc = "handle"
    BY <1>t DEF Rollen
  <2> QED BY <2>1, <2>2, <2>3, <1>t
<1>2. ASSUME NEW modus \in Modi, StartRun(modus) PROVE Bijgehouden'
  <2>1. PICK selectie \in Selectie(modus) : job' = selectie /\ taak' = selectie
    BY <1>2 DEF StartRun
  <2>2. \A b \in selectie : status[b] # "AFWEZIG"
    BY <1>2, PipelineAannames DEF Selectie, Opgeschoond
  <2>3. gedaan' = {} /\ status' = status
    BY <1>2 DEF StartRun
  <2> QED BY <2>1, <2>2, <2>3
<1>3. ASSUME NEW modus \in Modi, WeigerRun(modus) PROVE Bijgehouden'
  BY <1>3 DEF WeigerRun
<1>4. CASE Query \/ EindeBatch \/ Afbreken
  <2>1. pc # "klaar" /\ UNCHANGED <<status, job, taak, gedaan, handle>>
    BY <1>4 DEF Query, EindeBatch, Afbreken, dbVars, histVars, handleVars
  <2> QED BY <2>1, <1>t
<1>5. ASSUME NEW b \in Bericht, RijDirect(b) PROVE Bijgehouden'
  <2>1. pc = "rij" /\ UNCHANGED <<status, job, taak, gedaan>>
    BY <1>5 DEF RijDirect, dbVars, histVars
  <2>2. handle.pc = "vrij"
    BY <2>1, <1>t DEF Rollen
  <2> QED BY <2>1, <2>2, <1>t
<1>6. CASE RemoveJob
  <2>1. /\ pc = "opruimen" /\ taak \subseteq gedaan
        /\ UNCHANGED <<status, taak, gedaan, handle>>
    BY <1>6, <1>t DEF RemoveJob, Jobtabel, histVars, handleVars
  <2>2. handle.pc = "vrij"
    BY <2>1, <1>t DEF Rollen
  <2> QED BY <2>1, <2>2, <1>t
<1>7. CASE Close \/ Crash
  BY <1>7, <1>t DEF Close, Crash, dbVars, histVars
<1>8. CASE HandleLees
  <2>1. /\ handle.pc = "lees" /\ UNCHANGED <<job, pc, taak, gedaan>>
    BY <1>8 DEF HandleLees, runVars, histVars
  <2>2. pc = "handle"
    BY <2>1, <1>t DEF Rollen
  <2> QED BY <2>1, <2>2, <1>t, <1>8, GeschrevenLees
<1>9. CASE HandleCommit
  <2>1. /\ handle.pc = "verwerk" /\ gedaan' = gedaan \union {handle.bericht}
        /\ handle'.pc = "commit" /\ handle'.bericht = handle.bericht
        /\ UNCHANGED <<status, job, pc, taak>>
    BY <1>9, <1>t, HandleVerder DEF HandleCommit, TypeOK, runVars
  <2>2. pc = "handle"
    BY <2>1, <1>t DEF Rollen
  <2> QED BY <2>1, <2>2, <1>t
<1>10. CASE HandleFout
  <2>1. /\ handle.pc = "verwerk" /\ UNCHANGED <<status, job, pc, taak, gedaan>>
    BY <1>10 DEF HandleFout, runVars, histVars, dbVars
  <2>2. pc = "handle"
    BY <2>1, <1>t DEF Rollen
  <2> QED BY <2>1, <2>2, <1>t
<1>11. CASE HandleStatus
  <2>1. /\ gedaan' = gedaan \union {handle.bericht} /\ UNCHANGED <<job, taak>>
    BY <1>11 DEF HandleStatus
  <2>2. pc = "handle"
    BY <1>11, <1>t DEF HandleStatus, Rollen
  <2> QED BY <2>1, <2>2, <1>t, <1>11, GeschrevenStatus
<1>12. CASE UNCHANGED vars
  BY <1>12, <1>t DEF vars, runVars, histVars, dbVars, handleVars
<1> QED BY <1>1, <1>2, <1>3, <1>4, <1>5, <1>6, <1>7, <1>8, <1>9, <1>10, <1>11,
        <1>12 DEF DirecteStap

(* A run that reports success had no failure that should have stopped it.   *)
LEMMA StapUitkomst ==
  ASSUME Inv, DirectInv, Direct, DirecteStap \/ UNCHANGED vars
  PROVE  Uitkomst'
<1> USE DEF Uitkomst
<1>t. Uitkomst /\ Rollen /\ Fouten /\ ~inst.pipeline /\ inst' = inst
  BY InstVast DEF Inv, DirectInv, Direct
<1>1. ASSUME NEW b \in Bericht, Laad(b) \/ RijDirect(b) PROVE Uitkomst'
  BY <1>1, <1>t DEF Laad, RijDirect, runVars, histVars
<1>2. ASSUME NEW modus \in Modi, StartRun(modus) \/ WeigerRun(modus)
      PROVE  Uitkomst'
  BY <1>2 DEF StartRun, WeigerRun
<1>3. CASE Query \/ EindeBatch \/ Afbreken \/ Crash
  BY <1>3 DEF Query, EindeBatch, Afbreken, Crash
<1>4. CASE RemoveJob
  <2>1. inst.stop => mislukt = {}
    BY <1>4, <1>t DEF RemoveJob, Fouten, Rollen
  <2> QED BY <1>4, <1>t, <2>1 DEF RemoveJob, histVars
<1>5. CASE Close
  BY <1>5, <1>t DEF Close, histVars
<1>6. CASE HandleLees \/ HandleCommit \/ HandleFout
  BY <1>6, <1>t DEF HandleLees, HandleCommit, HandleFout, runVars, histVars
<1>7. CASE HandleStatus
  BY <1>7, <1>t DEF HandleStatus
<1>8. CASE UNCHANGED vars
  BY <1>8, <1>t DEF vars, runVars, histVars
<1> QED BY <1>1, <1>2, <1>3, <1>4, <1>5, <1>6, <1>7, <1>8 DEF DirecteStap

(***************************************************************************)
(* The plan of handle and what the RSGB holds.                             *)
(***************************************************************************)
(* getOldBericht returns the newest bericht of the object that staging says *)
(* is in the RSGB, so that the plan compares with all of them.              *)
LEMMA PlanBetekenis ==
  ASSUME NEW st, NEW b \in Bericht
  PROVE  /\ Plan(st, b) \in {"TOEPASSEN", "ONGEWIJZIGD", "VEROUDERD"}
         /\ Plan(st, b) = "ONGEWIJZIGD" => st[b] = "RSGB_OK"
         /\ Plan(st, b) = "TOEPASSEN" =>
              \A c \in Bericht : ObjectRef[c] = ObjectRef[b] /\ st[c] = "RSGB_OK"
                                 => c < b
<1> DEFINE o == ObjectRef[b]
           verwerkt == {c \in Bericht : ObjectRef[c] = o /\ st[c] = "RSGB_OK"}
           oud == OudBericht(st, o)
<1>1. Plan(st, b) = IF oud = b THEN "ONGEWIJZIGD"
                    ELSE IF oud > b THEN "VEROUDERD" ELSE "TOEPASSEN"
  BY DEF Plan
<1>2. b \in Nat /\ b # 0 /\ Bericht \subseteq Nat /\ verwerkt \in SUBSET (1..N)
  BY ObjectVanBericht DEF Bericht
<1>3. CASE verwerkt = {}
  <2>1. oud = 0
    BY <1>3 DEF OudBericht, Geen
  <2> QED BY <1>1, <1>2, <1>3, <2>1
<1>4. CASE verwerkt # {}
  <2>1. \E m \in verwerkt : \A c \in verwerkt : m >= c
    <3> HIDE DEF verwerkt
    <3> QED BY <1>2, <1>4, GrootsteBestaat, PipelineAannames
  <2>2. oud = CHOOSE m \in verwerkt : \A c \in verwerkt : c <= m
    BY <1>4 DEF OudBericht
  <2>3. \E m \in verwerkt : \A c \in verwerkt : c <= m
    BY <1>2, <2>1
  <2>4. oud \in verwerkt /\ \A c \in verwerkt : c <= oud
    <3> HIDE DEF verwerkt, oud
    <3> QED BY <2>2, <2>3
  <2>5. oud \in Nat
    BY <1>2, <2>4
  <2>6. Plan(st, b) = "ONGEWIJZIGD" => oud = b
    BY <1>1
  <2>7. Plan(st, b) = "TOEPASSEN" => oud < b
    <3> HIDE DEF oud
    <3> QED BY <1>1, <1>2, <2>5
  <2>8. \A c \in Bericht : ObjectRef[c] = ObjectRef[b] /\ st[c] = "RSGB_OK"
                           => c \in verwerkt
    OBVIOUS
  <2>9. ASSUME Plan(st, b) = "TOEPASSEN", NEW c \in verwerkt PROVE c < b
    <3> HIDE DEF verwerkt, oud
    <3> QED BY <1>2, <2>4, <2>5, <2>7, <2>9
  <2>10. Plan(st, b) \in {"TOEPASSEN", "ONGEWIJZIGD", "VEROUDERD"}
    BY <1>1
  <2> QED BY <2>4, <2>6, <2>8, <2>9, <2>10
<1> QED BY <1>3, <1>4

(* A step that writes no status RSGB_OK, leaves the RSGB alone and does not *)
(* move handle to another plan.                                             *)
LEMMA PlanGelijk ==
  ASSUME PlanKlopt, EigenObject, StagingVolgtRsgb,
         rsgb' = rsgb, handle' = handle \/ handle'.pc \notin {"verwerk", "commit"},
         \A c \in Bericht : status'[c] = "RSGB_OK" <=> status[c] = "RSGB_OK",
         TypeOK
  PROVE  PlanKlopt' /\ EigenObject' /\ StagingVolgtRsgb'
<1>1. EigenObject' /\ StagingVolgtRsgb'
  BY DEF EigenObject, StagingVolgtRsgb
<1>2. CASE handle'.pc \notin {"verwerk", "commit"}
  BY <1>1, <1>2 DEF PlanKlopt
<1>3. CASE handle' = handle /\ handle.pc \in {"verwerk", "commit"}
  <2>1. handle.bericht \in Bericht
    BY <1>3, HandleBezet DEF TypeOK
  <2> QED BY <1>1, <1>3, <2>1 DEF PlanKlopt
<1> QED BY <1>2, <1>3

(* What the RSGB holds of an object is a bericht, or nothing yet.           *)
LEMMA Standen ==
  ASSUME TypeOK
  PROVE  \A o \in Object : rsgb[o] \in Nat
<1>1. Bericht \union {Geen} \subseteq Nat
  BY ObjectVanBericht
<1>2. \A o \in Object : rsgb[o] \in Bericht \union {Geen}
  BY DEF TypeOK
<1> QED BY <1>1, <1>2

(* Every step keeps the plan right, and staging behind the RSGB.            *)
LEMMA StapPlan ==
  ASSUME Inv, DirectInv, Direct, DirecteStap \/ UNCHANGED vars
  PROVE  PlanKlopt' /\ EigenObject' /\ StagingVolgtRsgb'
<1> DEFINE Doel == PlanKlopt' /\ EigenObject' /\ StagingVolgtRsgb'
           h == handle.bericht
<1>t. /\ TypeOK /\ Rollen /\ PlanKlopt /\ EigenObject /\ StagingVolgtRsgb
      /\ \A o \in Object : rsgb[o] \in Nat
  <2>1. TypeOK /\ Rollen /\ PlanKlopt /\ EigenObject /\ StagingVolgtRsgb
    BY DEF Inv, DirectInv
  <2>2. \A o \in Object : rsgb[o] \in Nat
    BY <2>1, Standen
  <2> QED BY <2>1, <2>2
<1>1. ASSUME NEW b \in Bericht, Laad(b) PROVE Doel
  <2>1. \A c \in Bericht : status'[c] = "RSGB_OK" <=> status[c] = "RSGB_OK"
    BY <1>1, <1>t DEF Laad, TypeOK
  <2> QED BY <1>1, <2>1, <1>t, PlanGelijk DEF Laad, handleVars
<1>2. ASSUME NEW modus \in Modi, StartRun(modus) \/ WeigerRun(modus) PROVE Doel
  <2>1. UNCHANGED <<status, rsgb, handle>>
    BY <1>2 DEF StartRun, WeigerRun, handleVars
  <2> QED BY <2>1, <1>t, PlanGelijk
<1>3. CASE Query \/ EindeBatch \/ RemoveJob \/ Afbreken
  <2>1. UNCHANGED <<status, rsgb, handle>>
    BY <1>3 DEF Query, EindeBatch, RemoveJob, Afbreken, dbVars, handleVars
  <2> QED BY <2>1, <1>t, PlanGelijk
<1>4. ASSUME NEW b \in Bericht, RijDirect(b) PROVE Doel
  <2>1. handle'.pc = "lees" /\ UNCHANGED <<status, rsgb>>
    BY <1>4 DEF RijDirect, dbVars
  <2> QED BY <2>1, <1>t, PlanGelijk
<1>5. CASE Close \/ Crash
  <2>1. handle'.pc = "vrij" /\ UNCHANGED <<status, rsgb>>
    BY <1>5 DEF Close, Crash, Vrij, dbVars
  <2> QED BY <2>1, <1>t, PlanGelijk
<1>6. CASE HandleLees
  <2>1. handle \in [pc : {"lees", "verwerk", "commit", "fout"},
                    bericht : Bericht, plan : Plannen]
    BY <1>6, <1>t DEF HandleLees, TypeOK, Handles, Vrij
  <2>2. /\ handle'.bericht = h /\ rsgb' = rsgb
        /\ handle'.pc = "fout" \/ (handle'.pc = "verwerk" /\ handle'.plan = Plan(status', h))
    BY <1>6, <2>1 DEF HandleLees
  <2>3. h \in Bericht
    BY <2>1
  <2>4. PlanKlopt'
    <3>1. CASE handle'.pc = "fout"
      BY <3>1 DEF PlanKlopt
    <3>2. CASE handle'.pc = "verwerk" /\ handle'.plan = Plan(status', h)
      <4> HIDE DEF h
      <4> QED BY <2>2, <2>3, <3>2, PlanBetekenis DEF PlanKlopt
    <3> QED BY <2>2, <3>1, <3>2
  <2>5. \A c \in Bericht : status'[c] = "RSGB_OK" => status[c] = "RSGB_OK"
    BY <1>6, GeschrevenLees
  <2>6. EigenObject' /\ StagingVolgtRsgb'
    BY <2>2, <2>5, <1>t DEF EigenObject, StagingVolgtRsgb
  <2> QED BY <2>4, <2>6
<1>7. CASE HandleCommit
  <2>1. /\ handle.pc = "verwerk" /\ handle'.pc = "commit" /\ handle'.bericht = h
        /\ handle'.plan = handle.plan /\ rsgb' = Toegepast /\ status' = status
    BY <1>7, <1>t, HandleVerder DEF HandleCommit, TypeOK
  <2>2. h \in Bericht /\ ObjectRef[h] \in Object
    BY <2>1, <1>t, HandleBezet, ObjectVanBericht DEF TypeOK
  <2>3. CASE handle.plan # "TOEPASSEN"
    <3>1. rsgb' = rsgb
      BY <2>1, <2>3 DEF Toegepast
    <3> QED BY <2>1, <2>3, <3>1, <1>t DEF PlanKlopt, EigenObject, StagingVolgtRsgb
  <2>4. CASE handle.plan = "TOEPASSEN"
    <3>1. /\ rsgb'[ObjectRef[h]] = h
          /\ \A o \in Object : o # ObjectRef[h] => rsgb'[o] = rsgb[o]
      BY <2>1, <2>2, <2>4, <1>t DEF Toegepast, TypeOK
    <3>2. \A c \in Bericht : ObjectRef[c] = ObjectRef[h] /\ status[c] = "RSGB_OK"
                             => c < h
      BY <2>1, <2>4, <1>t DEF PlanKlopt
    <3>3. PlanKlopt'
      BY <2>1, <2>4, <3>1, <3>2 DEF PlanKlopt
    <3>4. EigenObject'
      BY <3>1, <1>t DEF EigenObject
    <3>5. StagingVolgtRsgb'
      <4>1. SUFFICES ASSUME NEW c \in Bericht, status[c] = "RSGB_OK"
                     PROVE  rsgb'[ObjectRef[c]] >= c
        BY <2>1 DEF StagingVolgtRsgb
      <4>2. CASE ObjectRef[c] = ObjectRef[h]
        <5>1. c < h /\ c \in Nat /\ h \in Nat
          BY <3>2, <4>1, <4>2, <2>2, ObjectVanBericht
        <5> QED BY <3>1, <4>2, <5>1
      <4>3. CASE ObjectRef[c] # ObjectRef[h]
        BY <3>1, <4>1, <4>3, <1>t, ObjectVanBericht DEF StagingVolgtRsgb
      <4> QED BY <4>2, <4>3
    <3> QED BY <3>3, <3>4, <3>5
  <2> QED BY <2>3, <2>4
<1>8. CASE HandleFout
  <2>1. handle'.pc = "fout" /\ UNCHANGED <<status, rsgb>>
    BY <1>8, <1>t, HandleVerder DEF HandleFout, TypeOK, dbVars
  <2> QED BY <2>1, <1>t, PlanGelijk
<1>9. CASE HandleStatus
  <2>1. handle'.pc = "vrij" /\ rsgb' = rsgb /\ handle.pc \in {"commit", "fout"}
    BY <1>9 DEF HandleStatus, Vrij
  <2>2. PlanKlopt' /\ EigenObject'
    BY <2>1, <1>t DEF PlanKlopt, EigenObject
  <2>3. NieuweStatus = "RSGB_OK" => rsgb[ObjectRef[h]] >= h
    <3>1. SUFFICES ASSUME NieuweStatus = "RSGB_OK" PROVE rsgb[ObjectRef[h]] >= h
      OBVIOUS
    <3>2. handle.pc = "commit" /\ handle.plan \in {"TOEPASSEN", "ONGEWIJZIGD"}
      BY <2>1, <3>1, <1>t DEF NieuweStatus, PlanKlopt
    <3>3. h \in Bericht /\ h \in Nat
      BY <1>9, GeschrevenStatus, ObjectVanBericht
    <3>4. CASE handle.plan = "TOEPASSEN"
      <4>1. rsgb[ObjectRef[h]] = h
        BY <3>2, <3>4, <1>t DEF PlanKlopt
      <4> HIDE DEF h
      <4> QED BY <3>3, <4>1
    <3>5. CASE handle.plan = "ONGEWIJZIGD"
      BY <3>2, <3>3, <3>5, <1>t DEF PlanKlopt, StagingVolgtRsgb
    <3> QED BY <3>2, <3>4, <3>5
  <2>4. StagingVolgtRsgb'
    BY <1>9, <2>1, <2>3, <1>t, GeschrevenStatus DEF StagingVolgtRsgb
  <2> QED BY <2>2, <2>4
<1>10. CASE UNCHANGED vars
  BY <1>10, <1>t, PlanGelijk DEF vars, dbVars, handleVars
<1> QED BY <1>1, <1>2, <1>3, <1>4, <1>5, <1>6, <1>7, <1>8, <1>9, <1>10
        DEF DirecteStap

(***************************************************************************)
(* The theorems.                                                           *)
(***************************************************************************)
(* The invariant holds before anything has started.                         *)
LEMMA InitDirect == Init /\ Direct => DirectInv
<1> SUFFICES ASSUME Init, Direct PROVE DirectInv
  OBVIOUS
<1>1. handle.pc = "vrij" /\ \A b \in Bericht : status[b] # "RSGB_OK"
  BY DEF Init, Vrij
<1>2. EenDraad /\ Telling /\ Jobtabel /\ Uitkomst
  BY DEF Init, EenDraad, Telling, Jobtabel, Uitkomst, Leest
<1>3. Bijgehouden
  BY DEF Init, Bijgehouden
<1>4. PlanKlopt /\ EigenObject /\ StagingVolgtRsgb
  BY <1>1 DEF Init, PlanKlopt, EigenObject, StagingVolgtRsgb
<1> QED BY <1>2, <1>3, <1>4 DEF DirectInv

(* Every step keeps it.                                                     *)
LEMMA StapDirect ==
  ASSUME Inv, Inv', Direct => DirectInv, [Next]_vars, Direct'
  PROVE  DirectInv'
<1>1. Direct
  <2>1. inst' = inst
    BY DEF Next, RunStap, ThreadStap, HandleStap, Laad, StartRun, WeigerRun, Query,
       RijDirect, RijGetransformeerd, RijOnleesbaar, EindeBatch, GetQueue, Put,
       RemoveJob, StopWhenQueueEmpty, Join, Afbreken, Close, Poll, Check, HandleLees,
       HandleCommit, HandleFout, HandleStatus, Achterblijver, Crash, vars, begrensd
  <2> QED BY <2>1 DEF Direct
<1>2. DirectInv /\ EenDraad
  BY <1>1 DEF DirectInv
<1>3. DirecteStap \/ UNCHANGED vars
  BY <1>1, <1>2, DirecteStappen
<1> QED BY <1>1, <1>2, <1>3, StapEenDraad, StapTelling, StapJobtabel, StapBijgehouden,
           StapUitkomst, StapPlan DEF DirectInv

(* The invariant of a run without a pipeline thread: what was read is       *)
(* counted, the job table stays until all of it was tried, statuses follow  *)
(* what was done and the plan of handle is still right at its commit.       *)
THEOREM DirectInvariant == Spec => [](Direct => DirectInv)
<1>1. Init => (Direct => DirectInv)
  BY InitDirect
<1>2. Inv /\ Inv' /\ (Direct => DirectInv) /\ [Next]_vars => (Direct => DirectInv)'
  BY StapDirect
<1> QED BY Invariant, <1>1, <1>2, PTL DEF Spec

(* A bericht that staging records as processed is in the RSGB, or was       *)
(* followed there by a newer one of its object, whatever crash comes between*)
(* commit() in the RSGB and updateProcessingResult in staging.              *)
THEOREM DirectStagingVolgtRsgb == Spec => [](~inst.pipeline => StagingVolgtRsgb)
<1>1. (Direct => DirectInv) => (~inst.pipeline => StagingVolgtRsgb)
  BY DEF Direct, DirectInv
<1> QED BY DirectInvariant, <1>1, PTL

(* Without a pipeline thread a run that stops on errors and reports success *)
(* had no bericht that failed: the exception reaches the listener.          *)
THEOREM DirectFoutGemeld == Spec => [](~inst.pipeline => FoutGemeld)
<1>1. (Direct => DirectInv) => (~inst.pipeline => FoutGemeld)
  BY DEF Direct, DirectInv, Uitkomst, FoutGemeld
<1> QED BY DirectInvariant, <1>1, PTL

(* When no run is active a restart finds in the job table every bericht of  *)
(* the last run that was not done (job table, status and removeJob are      *)
(* separate commits).                                                       *)
THEOREM DirectNietsVergeten == Spec => [](~inst.pipeline => NietsVergeten)
<1>1. (Direct => DirectInv) => (~inst.pipeline => NietsVergeten)
  BY DEF Direct, DirectInv, Bijgehouden, NietsVergeten
<1> QED BY DirectInvariant, <1>1, PTL

(* The job table is only emptied when every row of the run was tried.       *)
THEOREM DirectHerstart ==
    ASSUME \A i \in Instellingen : ~i.pipeline
    PROVE  Spec => HerstartMogelijk
<1>1. Inv => Direct
  BY DEF Inv, TypeOK, Direct
<1>2. DirectInv /\ [Next]_vars
      => [(pc = "opruimen" /\ job' # job) => taak \subseteq gedaan]_vars
  BY DEF DirectInv, Jobtabel
<1> QED BY Invariant, DirectInvariant, <1>1, <1>2, PTL DEF Spec, HerstartMogelijk

(* An object never goes back to data older than what staging records as     *)
(* processed: the plan that getOldBericht led to still holds at the commit. *)
THEOREM DirectNooitTerug ==
    ASSUME \A i \in Instellingen : ~i.pipeline
    PROVE  Spec => NooitTerug
<1> DEFINE Terug == \A o \in Object : rsgb'[o] < rsgb[o] => status[rsgb[o]] # "RSGB_OK"
<1>1. Inv => Direct
  BY DEF Inv, TypeOK, Direct
<1>2. Inv /\ DirectInv /\ [Next]_vars => [Terug]_vars
  <2> SUFFICES ASSUME Inv, DirectInv, [Next]_vars, NEW o \in Object,
                      rsgb'[o] < rsgb[o], status[rsgb[o]] = "RSGB_OK"
               PROVE  FALSE
    OBVIOUS
  <2>t. /\ TypeOK /\ rsgb[o] \in Nat /\ rsgb[o] \in Bericht \union {Geen}
        /\ DirecteStap \/ UNCHANGED vars
    BY <1>1, Standen, DirecteStappen DEF Inv, DirectInv, TypeOK
  <2>1. rsgb' # rsgb
    BY <2>t
  <2>2. HandleCommit
    BY <2>1, <2>t DEF DirecteStap, Laad, RijDirect, StartRun, WeigerRun, Query,
       EindeBatch, RemoveJob, Afbreken, Close, HandleLees, HandleFout, HandleStatus,
       Crash, vars, dbVars
  <2> DEFINE h == handle.bericht
  <2>3. /\ handle.pc = "verwerk" /\ rsgb' = Toegepast
        /\ h \in Bericht /\ ObjectRef[h] \in Object
    BY <2>2, <2>t, HandleBezet, ObjectVanBericht DEF HandleCommit, TypeOK
  <2>4. /\ handle.plan = "TOEPASSEN" /\ rsgb'[ObjectRef[h]] = h
        /\ \A p \in Object : p # ObjectRef[h] => rsgb'[p] = rsgb[p]
    BY <2>1, <2>3, <2>t DEF Toegepast, TypeOK
  <2>5. o = ObjectRef[h] /\ rsgb'[o] = h
    BY <2>4, <2>t
  <2>6. h \in Nat /\ rsgb[o] > h
    BY <2>3, <2>5, <2>t, ObjectVanBericht
  <2>7. rsgb[o] \in Bericht /\ ObjectRef[rsgb[o]] = o
    BY <2>6, <2>t, ObjectVanBericht DEF DirectInv, EigenObject
  <2>8. rsgb[o] < h
    BY <2>3, <2>4, <2>5, <2>7 DEF DirectInv, PlanKlopt
  <2> HIDE DEF h
  <2> QED BY <2>6, <2>8, <2>t
<1> QED BY Invariant, DirectInvariant, <1>1, <1>2, PTL DEF Spec, NooitTerug

(***************************************************************************)
(* With a pipeline thread. A call of handle that outlived its run writes   *)
(* its status at any later moment, in the next run or in the one after it. *)
(* When it records a bericht as processed between the look-up of an older  *)
(* bericht of the object and the commit of that, the older data are put    *)
(* back: there are histories of three runs that do. Nothing else does.     *)
(***************************************************************************)
(* No call of handle that outlived its run records a newer bericht of the   *)
(* object in hand as processed after getOldBericht looked.                  *)
Tijdig ==
    \A a \in achterblijvers :
        /\ Achterblijver(a) /\ handle.pc = "verwerk"
        /\ ObjectRef[a.bericht] = ObjectRef[handle.bericht]
        /\ a.bericht > handle.bericht
        => (status'[a.bericht] = "RSGB_OK" => status[a.bericht] = "RSGB_OK")

(* No newer bericht of the object is recorded as processed.                 *)
PlanVers ==
    handle.pc = "verwerk" /\ handle.plan = "TOEPASSEN" =>
        \A c \in Bericht : /\ ObjectRef[c] = ObjectRef[handle.bericht]
                           /\ status[c] = "RSGB_OK"
                           => c <= handle.bericht

VersInv == PlanVers /\ EigenObject

(* A step that leaves the RSGB alone, and records nothing newer about the   *)
(* object in hand.                                                          *)
LEMMA VersGelijk ==
  ASSUME TypeOK, VersInv, rsgb' = rsgb,
         \/ handle'.pc # "verwerk"
         \/ /\ handle' = handle
            /\ \A c \in Bericht :
                  /\ ObjectRef[c] = ObjectRef[handle.bericht] /\ c > handle.bericht
                  /\ status'[c] = "RSGB_OK"
                  => status[c] = "RSGB_OK"
  PROVE  VersInv'
<1>1. EigenObject'
  BY DEF VersInv, EigenObject
<1>2. CASE handle'.pc # "verwerk"
  BY <1>1, <1>2 DEF VersInv, PlanVers
<1>3. CASE handle'.pc = "verwerk" /\ handle' = handle
  <2>1. handle.bericht \in Nat /\ Bericht \subseteq Nat
    BY <1>3, HandleBezet, ObjectVanBericht DEF TypeOK
  <2>2. ASSUME handle.plan = "TOEPASSEN", NEW c \in Bericht,
               ObjectRef[c] = ObjectRef[handle.bericht], status'[c] = "RSGB_OK"
        PROVE  c <= handle.bericht
    <3>1. CASE c > handle.bericht
      BY <1>3, <2>2, <3>1 DEF VersInv, PlanVers
    <3> QED BY <2>1, <3>1
  <2> QED BY <1>1, <1>3, <2>2 DEF VersInv, PlanVers
<1> QED BY <1>2, <1>3

(* What outlived its run writes the status of its own bericht.              *)
LEMMA AchterblijverSchrijft ==
  ASSUME TypeOK, NEW a \in achterblijvers, Achterblijver(a)
  PROVE  /\ \A c \in Bericht : status'[c] = status[c] \/ c = a.bericht
         /\ rsgb' = rsgb /\ handle' = handle
BY DEF TypeOK, Achterblijver, SchrijfStatus

(* Every step of which the statuses come in time keeps the plan right.      *)
LEMMA StapVers ==
  ASSUME Inv, VersInv, [Next]_vars, [Tijdig]_vars
  PROVE  VersInv'
<1>t. TypeOK /\ Rollen /\ PlanVers /\ EigenObject
  BY DEF Inv, VersInv
<1>1. ASSUME NEW b \in Bericht, Laad(b) PROVE VersInv'
  <2>1. \A c \in Bericht : status'[c] = "RSGB_OK" => status[c] = "RSGB_OK"
    BY <1>1, <1>t DEF Laad, TypeOK
  <2> QED BY <1>1, <2>1, <1>t, VersGelijk DEF Laad, handleVars
<1>2. ASSUME NEW modus \in Modi, StartRun(modus) \/ WeigerRun(modus) PROVE VersInv'
  <2>1. UNCHANGED <<status, rsgb, handle>>
    BY <1>2 DEF StartRun, WeigerRun, handleVars
  <2> QED BY <2>1, <1>t, VersGelijk
<1>3. CASE Query \/ EindeBatch \/ GetQueue \/ Put \/ RemoveJob \/ StopWhenQueueEmpty
           \/ Join \/ Afbreken \/ Poll
  <2>1. UNCHANGED <<status, rsgb, handle>>
    BY <1>3 DEF Query, EindeBatch, GetQueue, Put, RemoveJob, StopWhenQueueEmpty, Join,
                Afbreken, Poll, dbVars, handleVars
  <2> QED BY <2>1, <1>t, VersGelijk
<1>4. ASSUME NEW b \in Bericht, RijDirect(b) \/ RijGetransformeerd(b) PROVE VersInv'
  <2>1. (handle'.pc = "lees" \/ handle' = handle) /\ UNCHANGED <<status, rsgb>>
    BY <1>4 DEF RijDirect, RijGetransformeerd, dbVars, handleVars
  <2> QED BY <2>1, <1>t, VersGelijk
<1>5. ASSUME NEW b \in Bericht, RijOnleesbaar(b) PROVE VersInv'
  <2>1. /\ rsgb' = rsgb /\ handle' = handle
        /\ SchrijfStatus(b, "RSGB_NOK")
    BY <1>5 DEF RijOnleesbaar, handleVars
  <2>2. \A c \in Bericht : status'[c] = "RSGB_OK" => status[c] = "RSGB_OK"
    BY <2>1, <1>t, Geschreven DEF Status
  <2> QED BY <2>1, <2>2, <1>t, VersGelijk
<1>6. CASE Check
  <2>1. (handle'.pc = "lees" \/ handle' = handle) /\ UNCHANGED <<status, rsgb>>
    BY <1>6 DEF Check, dbVars
  <2> QED BY <2>1, <1>t, VersGelijk
<1>7. CASE Close \/ Crash \/ HandleFout \/ HandleStatus
  <2>1. CASE HandleFout
    <3>1. handle'.pc = "fout" /\ rsgb' = rsgb
      BY <2>1, <1>t, HandleVerder DEF HandleFout, TypeOK, dbVars
    <3> QED BY <3>1, <1>t, VersGelijk
  <2>2. CASE Close \/ Crash \/ HandleStatus
    <3>1. handle'.pc = "vrij" /\ rsgb' = rsgb
      BY <2>2 DEF Close, Crash, HandleStatus, Vrij, dbVars
    <3> QED BY <3>1, <1>t, VersGelijk
  <2> QED BY <1>7, <2>1, <2>2
<1>8. CASE HandleLees
  <2> DEFINE h == handle.bericht
  <2>1. handle \in [pc : {"lees", "verwerk", "commit", "fout"},
                    bericht : Bericht, plan : Plannen]
    BY <1>8, <1>t DEF HandleLees, TypeOK, Handles, Vrij
  <2>2. /\ handle'.bericht = h /\ rsgb' = rsgb /\ h \in Bericht
        /\ handle'.pc = "fout" \/ (handle'.pc = "verwerk" /\ handle'.plan = Plan(status', h))
    BY <1>8, <2>1 DEF HandleLees
  <2>3. CASE handle'.pc = "fout"
    BY <2>2, <2>3, <1>t, VersGelijk
  <2>4. CASE handle'.pc = "verwerk" /\ handle'.plan = Plan(status', h)
    <3> HIDE DEF h
    <3>1. h \in Nat /\ Bericht \subseteq Nat
      BY <2>2, ObjectVanBericht
    <3>2. ASSUME handle'.plan = "TOEPASSEN", NEW c \in Bericht,
                 ObjectRef[c] = ObjectRef[h], status'[c] = "RSGB_OK"
          PROVE  c <= h
      <4>1. c < h
        BY <2>2, <2>4, <3>2, PlanBetekenis
      <4> QED BY <3>1, <4>1
    <3>3. PlanVers'
      BY <2>2, <3>2 DEF PlanVers
    <3> QED BY <2>2, <3>3, <1>t DEF VersInv, EigenObject
  <2> QED BY <2>2, <2>3, <2>4
<1>9. CASE HandleCommit
  <2> DEFINE h == handle.bericht
  <2>1. /\ handle.pc = "verwerk" /\ handle'.pc = "commit" /\ rsgb' = Toegepast
    BY <1>9, <1>t, HandleVerder DEF HandleCommit, TypeOK
  <2>2. h \in Bericht /\ ObjectRef[h] \in Object
    BY <2>1, <1>t, HandleBezet, ObjectVanBericht DEF TypeOK
  <2>3. \A o \in Object : rsgb'[o] = rsgb[o] \/ (o = ObjectRef[h] /\ rsgb'[o] = h)
    BY <2>1, <2>2, <1>t DEF Toegepast, TypeOK
  <2>4. EigenObject'
    BY <2>3, <1>t DEF EigenObject
  <2> QED BY <2>1, <2>4 DEF VersInv, PlanVers
<1>10. ASSUME NEW a \in achterblijvers, Achterblijver(a) PROVE VersInv'
  <2>1. /\ \A c \in Bericht : status'[c] = status[c] \/ c = a.bericht
        /\ rsgb' = rsgb /\ handle' = handle
    BY <1>10, <1>t, AchterblijverSchrijft
  <2>2. CASE handle.pc # "verwerk"
    BY <2>1, <2>2, <1>t, VersGelijk
  <2>3. CASE handle.pc = "verwerk" /\ Tijdig
    <3>1. ASSUME NEW c \in Bericht, ObjectRef[c] = ObjectRef[handle.bericht],
                 c > handle.bericht, status'[c] = "RSGB_OK"
          PROVE  status[c] = "RSGB_OK"
      BY <1>10, <2>1, <2>3, <3>1 DEF Tijdig
    <3> QED BY <2>1, <3>1, <1>t, VersGelijk
  <2>4. CASE UNCHANGED vars
    <3>1. status' = status
      BY <2>4 DEF vars, dbVars
    <3> QED BY <2>1, <3>1, <1>t, VersGelijk
  <2> QED BY <2>2, <2>3, <2>4
<1>11. CASE UNCHANGED vars
  BY <1>11, <1>t, VersGelijk DEF vars, dbVars, handleVars
<1> QED BY <1>1, <1>2, <1>3, <1>4, <1>5, <1>6, <1>7, <1>8, <1>9, <1>10, <1>11
        DEF Next, RunStap, ThreadStap, HandleStap

(* With a pipeline thread or without, whatever runs are started, whatever   *)
(* breaks off and whatever is read out of order: an object goes back to     *)
(* older data only when a call of handle that outlived its run records the  *)
(* newer bericht between the look-up and the commit of the older one        *)
(* (RsgbProxy.run, close and handle).                                       *)
THEOREM NooitTerugTijdig == Spec /\ [][Tijdig]_vars => NooitTerug
<1> DEFINE Terug == \A o \in Object : rsgb'[o] < rsgb[o] => status[rsgb[o]] # "RSGB_OK"
<1>1. Init => VersInv
  BY DEF Init, VersInv, PlanVers, EigenObject, Vrij
<1>2. Inv /\ VersInv /\ [Next]_vars /\ [Tijdig]_vars => VersInv'
  BY StapVers
<1>3. Inv /\ VersInv /\ [Next]_vars => [Terug]_vars
  <2> SUFFICES ASSUME Inv, VersInv, [Next]_vars, NEW o \in Object,
                      rsgb'[o] < rsgb[o], status[rsgb[o]] = "RSGB_OK"
               PROVE  FALSE
    OBVIOUS
  <2>t. TypeOK /\ rsgb[o] \in Nat /\ rsgb[o] \in Bericht \union {Geen}
    BY Standen DEF Inv, TypeOK
  <2>1. rsgb' # rsgb
    BY <2>t
  <2>2. HandleCommit
    BY <2>1 DEF Next, RunStap, ThreadStap, HandleStap, Laad, StartRun, WeigerRun, Query,
       RijDirect, RijGetransformeerd, RijOnleesbaar, EindeBatch, GetQueue, Put,
       RemoveJob, StopWhenQueueEmpty, Join, Afbreken, Close, Poll, Check, HandleLees,
       HandleFout, HandleStatus, Achterblijver, Crash, vars, dbVars
  <2> DEFINE h == handle.bericht
  <2>3. /\ handle.pc = "verwerk" /\ rsgb' = Toegepast
        /\ h \in Bericht /\ ObjectRef[h] \in Object
    BY <2>2, <2>t, HandleBezet, ObjectVanBericht DEF HandleCommit, TypeOK
  <2>4. /\ handle.plan = "TOEPASSEN" /\ rsgb'[ObjectRef[h]] = h
        /\ \A p \in Object : p # ObjectRef[h] => rsgb'[p] = rsgb[p]
    BY <2>1, <2>3, <2>t DEF Toegepast, TypeOK
  <2>5. o = ObjectRef[h] /\ rsgb'[o] = h
    BY <2>4, <2>t
  <2>6. h \in Nat /\ rsgb[o] > h
    BY <2>3, <2>5, <2>t, ObjectVanBericht
  <2>7. rsgb[o] \in Bericht /\ ObjectRef[rsgb[o]] = o
    BY <2>6, <2>t, ObjectVanBericht DEF VersInv, EigenObject
  <2>8. rsgb[o] <= h
    BY <2>3, <2>4, <2>5, <2>7 DEF VersInv, PlanVers
  <2> HIDE DEF h
  <2> QED BY <2>6, <2>8, <2>t
<1> QED BY Invariant, <1>1, <1>2, <1>3, PTL DEF Spec, NooitTerug
=============================================================================
