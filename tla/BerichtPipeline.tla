-------------------------- MODULE BerichtPipeline --------------------------
(***************************************************************************)
(* The transformation of staging berichten into the RSGB: the thread       *)
(* RsgbProxy.run, which fills the job table and reads it page by page      *)
(* (StagingProxy.handleBerichtenByJob), the pipeline thread                *)
(* (BerichtPipelineThread) that takes transformed berichten from a bounded *)
(* queue, and RsgbProxy.handle, which stores one bericht in the RSGB and   *)
(* then records its status in another database, staging.                   *)
(*                                                                         *)
(* A bericht is its place in the processing order (datum, volgordenummer), *)
(* which is also the order of the rows (jid) of the job table.             *)
(***************************************************************************)
EXTENDS Naturals, Sequences, FiniteSets

CONSTANTS N,             \* number of berichten
          Batch,         \* batchCapacity: rows of one page of the job table
          Capaciteit,    \* capacity of the pipeline queue
          ObjectRef,     \* the object each bericht is about
          Instellingen,  \* the settings a history may have
          Modi,          \* the ways a run may select its berichten
          MaxRuns,       \* bound: runs that are started
          MaxCrashes     \* bound: times the process dies

Bericht == 1..N
Object == {ObjectRef[b] : b \in Bericht}
Geen == 0

ASSUME PipelineAannames ==
    /\ N \in Nat
    /\ Batch \in Nat \ {0}
    /\ Capaciteit \in Nat \ {0}
    /\ DOMAIN ObjectRef = Bericht
    /\ Instellingen \subseteq [pipeline : BOOLEAN, stop : BOOLEAN,
                               stagingFout : BOOLEAN]
    /\ Modi \subseteq {"BY_STATUS", "BY_IDS", "RETRY_WAITING"}

(* AFWEZIG: not loaded yet. The other values are those of Bericht.STATUS.   *)
Status == {"AFWEZIG", "STAGING_OK", "RSGB_OK", "RSGB_NOK", "RSGB_OUTDATED"}

VARIABLES
    inst,            \* enablePipeline; does an error stop the run
                     \* (orderBerichten, errorState # "ignore"); can writing a
                     \* status fail
    onleesbaar,      \* the berichten whose XML cannot be transformed
    (*********************** what the databases hold ***********************)
    status,          \* staging: bericht.status
    job,             \* staging: the rows of the job table
    rsgb,            \* RSGB: the bericht an object's data came from, or Geen
    (************************ the thread RsgbProxy.run **********************)
    pc,              \* where it is; "klaar" when no run is active
    rs,              \* rows of the result set that are still to be read
    rij,             \* the row being processed
    lastJid, processed, offset,
    uitkomst,        \* how the last run ended
    (******************** the thread BerichtPipelineThread ******************)
    queue, stopWhenQueueEmpty, abort, qe,
    wpc,             \* where it is; "uit" when it is not running
    unit,            \* the work unit poll() returned
    (********************* RsgbProxy.handle, one call at a time *************)
    handle,
    achterblijvers,  \* calls of handle that outlived their run
    (************************ history, only for properties ******************)
    taak,            \* the rows this run started with
    gedaan,          \* those it stored or rejected
    mislukt,         \* those it rejected
    runs, crashes

dbVars == <<status, job, rsgb>>
runVars == <<pc, rs, rij, lastJid, processed, offset, uitkomst>>
threadVars == <<queue, stopWhenQueueEmpty, abort, qe, wpc, unit>>
handleVars == <<handle, achterblijvers>>
histVars == <<taak, gedaan, mislukt>>
begrensd == <<inst, onleesbaar, runs, crashes>>
vars == <<dbVars, runVars, threadVars, handleVars, histVars, begrensd>>

Vrij == [pc |-> "vrij", bericht |-> Geen, plan |-> "GEEN"]
Plannen == {"GEEN", "TOEPASSEN", "ONGEWIJZIGD", "VEROUDERD"}
Handles == [pc : {"lees", "verwerk", "commit", "fout"}, bericht : Bericht,
            plan : Plannen] \union {Vrij}

TypeOK ==
    /\ inst \in Instellingen
    /\ onleesbaar \subseteq Bericht
    /\ status \in [Bericht -> Status]
    /\ job \subseteq Bericht
    /\ rsgb \in [Object -> Bericht \union {Geen}]
    /\ pc \in {"klaar", "query", "rij", "handle", "getQueue", "put",
               "opruimen", "stop", "join", "fout", "sluiten"}
    /\ rs \subseteq Bericht
    /\ rij \in Bericht \union {Geen}
    /\ pc \in {"handle", "getQueue", "put"} => rij \in Bericht
    /\ lastJid \in Bericht \union {Geen}
    /\ processed \in Nat
    /\ offset \in Nat
    /\ uitkomst \in {"geen", "ok", "fout", "crash"}
    /\ queue \in Seq(Bericht)
    /\ Len(queue) <= Capaciteit
    /\ stopWhenQueueEmpty \in BOOLEAN
    /\ abort \in BOOLEAN
    /\ qe \in BOOLEAN
    /\ wpc \in {"uit", "poll", "gepold", "werk"}
    /\ unit \in Bericht \union {Geen}
    /\ handle \in Handles
    /\ achterblijvers \subseteq Handles
    /\ taak \subseteq Bericht
    /\ gedaan \subseteq Bericht
    /\ mislukt \subseteq Bericht
    /\ runs \in Nat
    /\ crashes \in Nat

(* Fields at rest: a run thread and a pipeline thread that do not exist.    *)
RunInRust == /\ rs' = {}
             /\ rij' = Geen
             /\ lastJid' = Geen
             /\ processed' = 0
             /\ offset' = 0
ThreadInRust == /\ queue' = <<>>
                /\ stopWhenQueueEmpty' = FALSE
                /\ abort' = FALSE
                /\ qe' = FALSE
                /\ wpc' = "uit"
                /\ unit' = Geen

Init ==
    /\ inst \in Instellingen
    /\ onleesbaar \in SUBSET Bericht
    /\ status \in [Bericht -> {"AFWEZIG", "STAGING_OK"}]
    /\ job = {}
    /\ rsgb = [o \in Object |-> Geen]
    /\ pc = "klaar" /\ rs = {} /\ rij = Geen /\ lastJid = Geen
    /\ processed = 0 /\ offset = 0 /\ uitkomst = "geen"
    /\ queue = <<>> /\ stopWhenQueueEmpty = FALSE /\ abort = FALSE
    /\ qe = FALSE /\ wpc = "uit" /\ unit = Geen
    /\ handle = Vrij /\ achterblijvers = {}
    /\ taak = {} /\ gedaan = {} /\ mislukt = {}
    /\ runs = 0 /\ crashes = 0

(* updateProcessingResult: an SQLException is logged and forgotten.         *)
SchrijfStatus(b, s) == \/ status' = [status EXCEPT ![b] = s]
                       \/ inst.stagingFout /\ UNCHANGED status

(* A bericht arrives in staging while nothing or anything runs.             *)
Laad(b) ==
    /\ status[b] = "AFWEZIG"
    /\ status' = [status EXCEPT ![b] = "STAGING_OK"]
    /\ UNCHANGED <<job, rsgb, runVars, threadVars, handleVars, histVars,
                   begrensd>>

(***************************************************************************)
(* RsgbProxy.run: cleanJob, the check for rows of an interrupted run, and  *)
(* the selection of the rows of this one.                                  *)
(***************************************************************************)
Opgeschoond == {b \in job : status[b] = "STAGING_OK"}

Selectie(modus) ==
    CASE modus = "BY_STATUS" -> {{b \in Bericht : status[b] = "STAGING_OK"}}
      [] modus = "BY_IDS" -> SUBSET {b \in Bericht : status[b] # "AFWEZIG"}
      [] modus = "RETRY_WAITING" -> {Opgeschoond}

Geweigerd(modus) == Opgeschoond # {} /\ modus # "RETRY_WAITING"

(* "Vorige transformatie is afgebroken, verwerk eerst die berichten".       *)
WeigerRun(modus) ==
    /\ pc = "klaar" /\ runs < MaxRuns
    /\ Geweigerd(modus)
    /\ job' = Opgeschoond
    /\ uitkomst' = "fout"
    /\ taak' = {} /\ gedaan' = {} /\ mislukt' = {}
    /\ runs' = runs + 1
    /\ UNCHANGED <<status, rsgb, pc, rs, rij, lastJid, processed, offset,
                   threadVars, handleVars, inst, onleesbaar, crashes>>

StartRun(modus) ==
    /\ pc = "klaar" /\ runs < MaxRuns
    /\ ~Geweigerd(modus)
    /\ \E selectie \in Selectie(modus) :
          /\ job' = selectie
          /\ taak' = selectie
          /\ pc' = IF selectie = {} THEN "klaar" ELSE "query"
          /\ uitkomst' = IF selectie = {} THEN "ok" ELSE "geen"
          /\ wpc' = IF selectie # {} /\ inst.pipeline THEN "poll" ELSE "uit"
    /\ gedaan' = {} /\ mislukt' = {}
    /\ runs' = runs + 1
    /\ UNCHANGED <<status, rsgb, rs, rij, lastJid, processed, offset, queue,
                   stopWhenQueueEmpty, abort, qe, unit, handleVars, inst,
                   onleesbaar, crashes>>

(***************************************************************************)
(* StagingProxy.handleBerichtenByJob.                                      *)
(***************************************************************************)
(* Mutant: the page is read without "order by jid".                         *)
PaginaOngesorteerd(R, rijen) ==
    Cardinality(R) = IF Cardinality(rijen) < Batch
                     THEN Cardinality(rijen) ELSE Batch

(* The next page: the first Batch rows of the job table after lastJid.      *)
Pagina(R, rijen) ==
    /\ \A b \in R, c \in rijen \ R : b < c
    /\ Cardinality(R) = IF Cardinality(rijen) < Batch
                          THEN Cardinality(rijen) ELSE Batch

Query ==
    /\ pc = "query"
    /\ LET rijen == {b \in job : b > lastJid}
       IN \E R \in SUBSET rijen : Pagina(R, rijen) /\ rs' = R
    /\ processed' = 0
    /\ pc' = "rij"
    /\ UNCHANGED <<dbVars, rij, lastJid, offset, uitkomst, threadVars,
                   handleVars, histVars, begrensd>>

Eerste(b) == b \in rs /\ \A c \in rs : b <= c

(* rs.next() without a pipeline: the row is handled by this thread.         *)
RijDirect(b) ==
    /\ pc = "rij" /\ Eerste(b) /\ ~inst.pipeline
    /\ rs' = rs \ {b}
    /\ rij' = b
    /\ handle' = [pc |-> "lees", bericht |-> b, plan |-> "GEEN"]
    /\ pc' = "handle"
    /\ UNCHANGED <<dbVars, lastJid, processed, offset, uitkomst, threadVars,
                   achterblijvers, histVars, begrensd>>

(* With a pipeline this thread transforms; the other one stores.            *)
RijGetransformeerd(b) ==
    /\ pc = "rij" /\ Eerste(b) /\ inst.pipeline /\ b \notin onleesbaar
    /\ rs' = rs \ {b}
    /\ rij' = b
    /\ pc' = "getQueue"
    /\ UNCHANGED <<dbVars, lastJid, processed, offset, uitkomst, threadVars,
                   handleVars, histVars, begrensd>>

(* transformToTableData records RSGB_NOK; it then throws, or returns null   *)
(* and the loop continues without moving lastJid or counting the row.       *)
RijOnleesbaar(b) ==
    /\ pc = "rij" /\ Eerste(b) /\ inst.pipeline /\ b \in onleesbaar
    /\ rs' = rs \ {b}
    /\ SchrijfStatus(b, "RSGB_NOK")
    /\ gedaan' = gedaan \union {b}
    /\ mislukt' = mislukt \union {b}
    /\ pc' = IF inst.stop THEN "fout" ELSE "rij"
    /\ UNCHANGED <<job, rsgb, rij, lastJid, processed, offset, uitkomst,
                   threadVars, handleVars, taak, begrensd>>

(* Mutant: off by one in the comparison with the total.                     *)
EindeBatchTeVroeg ==
    /\ pc = "rij" /\ rs = {}
    /\ offset' = offset + processed
    /\ pc' = IF processed > 0 /\ offset' + 1 < Cardinality(taak)
             THEN "query" ELSE "opruimen"
    /\ UNCHANGED <<dbVars, rs, rij, lastJid, processed, uitkomst, threadVars,
                   handleVars, histVars, begrensd>>

EindeBatch ==
    /\ pc = "rij" /\ rs = {}
    /\ offset' = offset + processed
    /\ pc' = IF processed > 0 /\ offset' < Cardinality(taak)
             THEN "query" ELSE "opruimen"
    /\ UNCHANGED <<dbVars, rs, rij, lastJid, processed, uitkomst, threadVars,
                   handleVars, histVars, begrensd>>

(* getQueue() rethrows what the pipeline thread caught, if it did by now.   *)
GetQueue ==
    /\ pc = "getQueue"
    /\ pc' = IF qe THEN "fout" ELSE "put"
    /\ UNCHANGED <<dbVars, rs, rij, lastJid, processed, offset, uitkomst,
                   threadVars, handleVars, histVars, begrensd>>

(* Mutants: a queue without its bound; offer() instead of put().            *)
PutOnbegrensd ==
    /\ pc = "put"
    /\ queue' = Append(queue, rij)
    /\ lastJid' = rij
    /\ processed' = processed + 1
    /\ rij' = Geen
    /\ pc' = "rij"
    /\ UNCHANGED <<dbVars, rs, offset, uitkomst, stopWhenQueueEmpty, abort, qe,
                   wpc, unit, handleVars, histVars, begrensd>>

PutMetOffer ==
    /\ pc = "put"
    /\ queue' = IF Len(queue) < Capaciteit THEN Append(queue, rij) ELSE queue
    /\ lastJid' = rij
    /\ processed' = processed + 1
    /\ rij' = Geen
    /\ pc' = "rij"
    /\ UNCHANGED <<dbVars, rs, offset, uitkomst, stopWhenQueueEmpty, abort, qe,
                   wpc, unit, handleVars, histVars, begrensd>>

(* put() blocks while the queue is full.                                    *)
Put ==
    /\ pc = "put" /\ Len(queue) < Capaciteit
    /\ queue' = Append(queue, rij)
    /\ lastJid' = rij
    /\ processed' = processed + 1
    /\ rij' = Geen
    /\ pc' = "rij"
    /\ UNCHANGED <<dbVars, rs, offset, uitkomst, stopWhenQueueEmpty, abort, qe,
                   wpc, unit, handleVars, histVars, begrensd>>

(* removeJob(), before the pipeline thread is told to finish.               *)
RemoveJob ==
    /\ pc = "opruimen"
    /\ job' = {}
    /\ uitkomst' = "ok"
    /\ pc' = IF inst.pipeline THEN "stop" ELSE "sluiten"
    /\ UNCHANGED <<status, rsgb, rs, rij, lastJid, processed, offset, threadVars,
                   handleVars, histVars, begrensd>>

StopWhenQueueEmpty ==
    /\ pc = "stop"
    /\ stopWhenQueueEmpty' = TRUE
    /\ pc' = "join"
    /\ UNCHANGED <<dbVars, rs, rij, lastJid, processed, offset, uitkomst, queue,
                   abort, qe, wpc, unit, handleVars, histVars, begrensd>>

Join ==
    /\ pc = "join" /\ wpc = "uit"
    /\ pc' = "sluiten"
    /\ UNCHANGED <<dbVars, rs, rij, lastJid, processed, offset, uitkomst,
                   threadVars, handleVars, histVars, begrensd>>

(* Mutant: the job table is emptied in the finally block.                   *)
AfbrekenRuimtOp ==
    /\ pc = "fout"
    /\ uitkomst' = "fout"
    /\ abort' = inst.pipeline
    /\ job' = {}
    /\ pc' = "sluiten"
    /\ UNCHANGED <<status, rsgb, rs, rij, lastJid, processed, offset, queue,
                   stopWhenQueueEmpty, qe, wpc, unit, handleVars, histVars,
                   begrensd>>

(* The exception is on its way out: the job stays, the pipeline thread is   *)
(* told to stop and is not waited for.                                      *)
Afbreken ==
    /\ pc = "fout"
    /\ uitkomst' = "fout"
    /\ abort' = inst.pipeline
    /\ pc' = "sluiten"
    /\ UNCHANGED <<dbVars, rs, rij, lastJid, processed, offset, queue,
                   stopWhenQueueEmpty, qe, wpc, unit, handleVars, histVars,
                   begrensd>>

(* RsgbProxy.close() at the end of run(): the RSGB connections are closed,  *)
(* also under a pipeline thread that is still inside handle().              *)
Close ==
    /\ pc = "sluiten"
    /\ pc' = "klaar"
    /\ achterblijvers' = IF wpc = "werk" THEN achterblijvers \union {handle}
                                         ELSE achterblijvers
    /\ handle' = Vrij
    /\ RunInRust /\ ThreadInRust
    /\ UNCHANGED <<dbVars, uitkomst, histVars, begrensd>>

(***************************************************************************)
(* BerichtPipelineThread.run.                                              *)
(***************************************************************************)
(* Mutant: the loop looks at abort before it polls.                         *)
PollTenzijAbort ==
    /\ wpc = "poll"
    /\ \/ /\ abort
          /\ wpc' = "uit"
          /\ UNCHANGED <<queue, unit>>
       \/ /\ ~abort /\ queue # <<>>
          /\ unit' = Head(queue)
          /\ queue' = Tail(queue)
          /\ wpc' = "gepold"
       \/ /\ ~abort /\ queue = <<>>
          /\ unit' = Geen
          /\ queue' = queue
          /\ wpc' = "gepold"
    /\ UNCHANGED <<dbVars, runVars, stopWhenQueueEmpty, abort, qe, handleVars,
                   histVars, begrensd>>

(* poll(1, SECONDS): the head of the queue, or null when it stayed empty.   *)
Poll ==
    /\ wpc = "poll"
    /\ \/ /\ queue # <<>>
          /\ unit' = Head(queue)
          /\ queue' = Tail(queue)
       \/ /\ queue = <<>>
          /\ unit' = Geen
          /\ queue' = queue
    /\ wpc' = "gepold"
    /\ UNCHANGED <<dbVars, runVars, stopWhenQueueEmpty, abort, qe, handleVars,
                   histVars, begrensd>>

(* Mutant: after an abort the queue is still worked off.                    *)
StoppenAlsLeeg == (abort \/ stopWhenQueueEmpty) /\ unit = Geen

(* abort is looked at before the unit: the unit is dropped.                 *)
Stoppen == abort \/ (stopWhenQueueEmpty /\ unit = Geen)

Check ==
    /\ wpc = "gepold"
    /\ \/ Stoppen /\ wpc' = "uit" /\ handle' = handle
       \/ ~Stoppen /\ unit = Geen /\ wpc' = "poll" /\ handle' = handle
       \/ /\ ~Stoppen /\ unit # Geen
          /\ wpc' = "werk"
          /\ handle' = [pc |-> "lees", bericht |-> unit, plan |-> "GEEN"]
    /\ unit' = Geen
    /\ UNCHANGED <<dbVars, runVars, queue, stopWhenQueueEmpty, abort, qe,
                   achterblijvers, histVars, begrensd>>

(***************************************************************************)
(* RsgbProxy.handle.                                                       *)
(***************************************************************************)
(* getOldBericht: the newest bericht of the object that staging says is in  *)
(* the RSGB.                                                                *)
OudBericht(st, o) ==
    LET verwerkt == {b \in Bericht : ObjectRef[b] = o /\ st[b] = "RSGB_OK"}
    IN IF verwerkt = {} THEN Geen
       ELSE CHOOSE b \in verwerkt : \A c \in verwerkt : c <= b

(* Mutant: the dates of the two berichten are not compared.                 *)
PlanZonderDatum(st, b) ==
    IF OudBericht(st, ObjectRef[b]) = b THEN "ONGEWIJZIGD" ELSE "TOEPASSEN"

Plan(st, b) == LET oud == OudBericht(st, ObjectRef[b])
               IN IF oud = b THEN "ONGEWIJZIGD"
                  ELSE IF oud > b THEN "VEROUDERD" ELSE "TOEPASSEN"

(* Without a pipeline handle() transforms first. An unreadable bericht is   *)
(* recorded as RSGB_NOK, and then: it throws, or there is no data and only  *)
(* a bericht that needs none goes on.                                       *)
Onleesbaar == ~inst.pipeline /\ handle.bericht \in onleesbaar

HandleLees ==
    /\ handle.pc = "lees"
    /\ IF Onleesbaar THEN SchrijfStatus(handle.bericht, "RSGB_NOK")
                     ELSE UNCHANGED status
    /\ LET plan == Plan(status', handle.bericht)
           faalt == Onleesbaar /\ (inst.stop \/ plan = "TOEPASSEN")
       IN handle' = [handle EXCEPT !.pc = IF faalt THEN "fout" ELSE "verwerk",
                                   !.plan = IF faalt THEN "GEEN" ELSE plan]
    /\ UNCHANGED <<job, rsgb, runVars, threadVars, achterblijvers, histVars,
                   begrensd>>

(* What parseNewData and parseOldData make of the tables: the data of the   *)
(* object are those of the bericht, older rows are archived or removed.     *)
Toegepast == IF handle.plan = "TOEPASSEN"
             THEN [rsgb EXCEPT ![ObjectRef[handle.bericht]] = handle.bericht]
             ELSE rsgb

(* commit()                                                                 *)
HandleCommit ==
    /\ handle.pc = "verwerk"
    /\ rsgb' = Toegepast
    /\ handle' = [handle EXCEPT !.pc = "commit"]
    /\ gedaan' = gedaan \union {handle.bericht}
    /\ UNCHANGED <<status, job, runVars, threadVars, achterblijvers, taak,
                   mislukt, begrensd>>

(* The data cannot be stored: rollback().                                   *)
HandleFout ==
    /\ handle.pc = "verwerk"
    /\ handle' = [handle EXCEPT !.pc = "fout"]
    /\ UNCHANGED <<dbVars, runVars, threadVars, achterblijvers, histVars,
                   begrensd>>

(* Mutant: the new status is set before the commit.                         *)
NieuweStatusVooraf == IF handle.plan = "VEROUDERD" THEN "RSGB_OUTDATED"
                                                   ELSE "RSGB_OK"

(* The status that updateProcessingResult writes at the end.                *)
NieuweStatus == CASE handle.pc = "fout" -> "RSGB_NOK"
                  [] handle.plan = "VEROUDERD" -> "RSGB_OUTDATED"
                  [] OTHER -> "RSGB_OK"

(* Mutant: errorState is read the wrong way round.                          *)
ExceptieAlsNegeren == handle.pc = "fout" /\ ~inst.stop

(* "Mutatieverwerking en foutief bericht, dus stoppen!"                     *)
Exceptie == handle.pc = "fout" /\ inst.stop

(* The finally block, and what the caller does with the outcome: the run    *)
(* thread counts the row or leaves its loop, the pipeline thread keeps the  *)
(* exception for getQueue() and raises its own abort flag.                  *)
HandleStatus ==
    /\ handle.pc \in {"commit", "fout"}
    /\ SchrijfStatus(handle.bericht, NieuweStatus)
    /\ gedaan' = gedaan \union {handle.bericht}
    /\ mislukt' = IF handle.pc = "fout" THEN mislukt \union {handle.bericht}
                                       ELSE mislukt
    /\ handle' = Vrij
    /\ IF inst.pipeline
       THEN /\ wpc' = "poll"
            /\ qe' = (qe \/ Exceptie)
            /\ abort' = (abort \/ Exceptie)
            /\ UNCHANGED <<pc, rij, lastJid, processed>>
       ELSE /\ pc' = IF Exceptie THEN "fout" ELSE "rij"
            /\ lastJid' = IF Exceptie THEN lastJid ELSE rij
            /\ processed' = IF Exceptie THEN processed ELSE processed + 1
            /\ rij' = Geen
            /\ UNCHANGED <<wpc, qe, abort>>
    /\ UNCHANGED <<job, rsgb, rs, offset, uitkomst, queue, stopWhenQueueEmpty,
                   unit, achterblijvers, taak, begrensd>>

(* A call of handle whose connections close() closed: what it still does to *)
(* the RSGB fails, its status is written through the staging connection, or *)
(* not at all when it already finds no connection to work with.             *)
Achterblijver(a) ==
    /\ a \in achterblijvers
    /\ \/ a.pc = "commit" /\ SchrijfStatus(a.bericht,
               IF a.plan = "VEROUDERD" THEN "RSGB_OUTDATED" ELSE "RSGB_OK")
       \/ a.pc # "commit" /\ SchrijfStatus(a.bericht, "RSGB_NOK")
       \/ a.pc = "lees" /\ UNCHANGED status
    /\ achterblijvers' = achterblijvers \ {a}
    /\ UNCHANGED <<job, rsgb, runVars, threadVars, handle, histVars, begrensd>>

(***************************************************************************)
(* The process dies; the databases keep what was committed.                *)
(***************************************************************************)
Crash ==
    /\ crashes < MaxCrashes
    /\ pc # "klaar" \/ achterblijvers # {}
    /\ pc' = "klaar"
    /\ uitkomst' = "crash"
    /\ RunInRust /\ ThreadInRust
    /\ handle' = Vrij /\ achterblijvers' = {}
    /\ crashes' = crashes + 1
    /\ UNCHANGED <<dbVars, histVars, inst, onleesbaar, runs>>

RunStap == \/ Query
           \/ \E b \in Bericht : \/ RijDirect(b)
                                 \/ RijGetransformeerd(b)
                                 \/ RijOnleesbaar(b)
           \/ EindeBatch \/ GetQueue \/ Put \/ RemoveJob
           \/ StopWhenQueueEmpty \/ Join \/ Afbreken \/ Close
ThreadStap == Poll \/ Check
HandleStap == HandleLees \/ HandleCommit \/ HandleFout \/ HandleStatus

Next == \/ \E b \in Bericht : Laad(b)
        \/ \E modus \in Modi : StartRun(modus) \/ WeigerRun(modus)
        \/ RunStap \/ ThreadStap \/ HandleStap
        \/ \E a \in achterblijvers : Achterblijver(a)
        \/ Crash

Spec == Init /\ [][Next]_vars

(* The run thread and the pipeline thread are ordinary Java threads that    *)
(* the scheduler keeps running, poll() returns within a second, and a call  *)
(* of handle is made of database calls that return.                         *)
FairSpec == Spec /\ WF_vars(RunStap) /\ WF_vars(ThreadStap)
                 /\ WF_vars(HandleStap)

(***************************************************************************)
(* Properties.                                                             *)
(***************************************************************************)
(* Implements the abstract specification: berichten reach the RSGB oldest   *)
(* first, and when an error stops the run, none after one that failed       *)
(* (handleBerichtenByJob, the queue, getQueue and the abort flag).          *)
Belofte == INSTANCE Transformatie WITH wacht <- taak \ gedaan,
                                       fout <- mislukt,
                                       stop <- inst.stop,
                                       ronde <- runs
VolgtBelofte == Belofte!Spec

(* The job table is only emptied when every row of the run was tried, so    *)
(* that a run that broke off can be restarted (removeJob, "als succesvol    *)
(* beeindigd, dan verwijderen, anders herstart mogelijk maken").            *)
HerstartMogelijk ==
    [][(pc = "opruimen" /\ job' # job) => taak \subseteq gedaan]_vars

(* A run that stops on errors and reports success had no failing bericht    *)
(* (the listener's exception() is how the automatic process learns of one). *)
FoutGemeld == (pc = "klaar" /\ uitkomst = "ok" /\ inst.stop) => mislukt = {}

(* Between the two threads no bericht gets lost: a row that was counted and *)
(* not tried yet is in the queue or in the hands of the pipeline thread,    *)
(* as long as that thread has not been told to abort (put, poll, work).     *)
InVlucht ==
    (inst.pipeline /\ wpc # "uit" /\ ~abort)
        => \A b \in taak \ gedaan :
              b <= lastJid => \/ \E i \in 1..Len(queue) : queue[i] = b
                              \/ unit = b
                              \/ handle.bericht = b

(* When no run is active every bericht of the last run that is still        *)
(* STAGING_OK is in the job table, where a restart finds it (job table,     *)
(* status update and removeJob are separate commits).                       *)
NietsVergeten ==
    (pc = "klaar" /\ ~inst.stagingFout)
        => \A b \in taak : status[b] = "STAGING_OK" => b \in job

(* A bericht that staging records as processed is in the RSGB, or was       *)
(* followed there by a newer one of the same object (commit() in the RSGB   *)
(* and updateProcessingResult in staging are separate transactions).        *)
StagingVolgtRsgb ==
    \A b \in Bericht : status[b] = "RSGB_OK" => rsgb[ObjectRef[b]] >= b

(* An object never goes back to data older than what staging records as     *)
(* processed (getOldBericht and the RSGB_OUTDATED branches of handle). Not  *)
(* so with a pipeline thread: a call of handle that outlived its run can    *)
(* record the newer bericht after getOldBericht looked (Achterblijver).     *)
NooitTerug ==
    [][\A o \in Object : rsgb'[o] < rsgb[o] => status[rsgb[o]] # "RSGB_OK"]_vars

(* Every run ends: the reader is never left waiting on a full queue, or for *)
(* a pipeline thread that does not stop, and never rereads a page for ever. *)
RunEindigt == pc # "klaar" ~> pc = "klaar"
=============================================================================
