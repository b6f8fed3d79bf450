----------------------- MODULE BerichtPipelineProofs -----------------------
(***************************************************************************)
(* What holds of BerichtPipeline for every number of berichten, page size, *)
(* queue capacity, assignment of berichten to objects, number of runs and  *)
(* number of crashes.                                                      *)
(***************************************************************************)
EXTENDS BerichtPipeline, SequenceTheorems, TLAPS

(***************************************************************************)
(* The inductive invariant.                                                *)
(***************************************************************************)
(* The run thread is still reading the job table.                           *)
Leest == pc \in {"query", "rij", "handle", "getQueue", "put"}
Bezig == handle.pc \in {"lees", "verwerk", "fout"}

(* Who owns the call of handle, and what a run without a pipeline lacks.    *)
Rollen ==
    /\ pc = "klaar" => /\ wpc = "uit" /\ handle = Vrij /\ queue = <<>>
                       /\ unit = Geen /\ lastJid = Geen /\ rij = Geen
                       /\ ~abort
    /\ inst.pipeline => pc # "handle"
    /\ ~inst.pipeline => /\ wpc = "uit" /\ queue = <<>> /\ unit = Geen
                         /\ ~abort /\ pc \notin {"getQueue", "put"}
    /\ inst.pipeline => (handle.pc # "vrij" <=> wpc = "werk")
    /\ ~inst.pipeline => (handle.pc # "vrij" <=> pc = "handle")
    /\ handle.pc = "vrij" => handle.bericht = Geen
    /\ unit # Geen => wpc = "gepold"

(* The run thread: what it has read from the job table, and what it has     *)
(* not.                                                                     *)
Lezer ==
    /\ Leest => job = taak
    /\ Leest /\ pc # "query" =>
          /\ \A r \in rs : r \in taak /\ r > lastJid /\ r > rij
          /\ \A c \in taak \ gedaan, r \in rs \union {rij} :
                c > lastJid /\ c < r => c \in rs \/ c = rij
    /\ Leest => \A c \in gedaan : c > lastJid =>
          \/ inst.pipeline /\ c \in onleesbaar /\ c \in mislukt
          \/ pc = "handle" /\ c = rij
    /\ Leest /\ ~inst.pipeline => \A c \in taak \ gedaan : c > lastJid
    /\ pc \in {"query", "rij"} => rij = Geen
    /\ pc \in {"handle", "getQueue", "put"} => rij \in taak /\ rij > lastJid
    /\ pc \in {"getQueue", "put"} => rij \notin gedaan
    /\ pc = "handle" => handle.bericht = rij

(* What is in flight: not tried yet, in order, and nothing is missing.      *)
Vlucht ==
    /\ \A i \in 1..Len(queue) : queue[i] \in taak \ gedaan /\ queue[i] <= lastJid
    /\ \A i, j \in 1..Len(queue) : i < j => queue[i] < queue[j]
    /\ unit # Geen => /\ unit \in taak \ gedaan /\ unit <= lastJid
                      /\ \A i \in 1..Len(queue) : unit < queue[i]
    /\ Bezig => handle.bericht \in taak \ gedaan
    /\ handle.pc = "commit" => handle.bericht \in gedaan
    /\ inst.pipeline /\ handle.pc # "vrij" =>
          /\ handle.bericht <= lastJid
          /\ \A i \in 1..Len(queue) : handle.bericht < queue[i]
    /\ wpc # "uit" => \A c \in taak \ gedaan : c <= lastJid =>
          \/ c = unit \/ c = handle.bericht
          \/ \E i \in 1..Len(queue) : c = queue[i]

(* A failure that ends the run: nothing in flight comes after it, unless    *)
(* the pipeline thread has been told to abort.                              *)
Fouten ==
    inst.stop =>
      /\ mislukt # {} => abort \/ pc \in {"fout", "sluiten", "klaar"}
      /\ ~abort => \A m \in mislukt :
            unit < m /\ \A i \in 1..Len(queue) : queue[i] < m
      /\ Bezig => \A m \in mislukt : handle.bericht < m

Inv == TypeOK /\ Rollen /\ Lezer /\ Vlucht /\ Fouten

(***************************************************************************)
(* Type correctness.                                                       *)
(***************************************************************************)
(* Berichten are positive numbers, each is about an object, and Geen is no  *)
(* bericht.                                                                 *)
LEMMA ObjectVanBericht ==
    /\ \A b \in Bericht : ObjectRef[b] \in Object
    /\ Bericht \subseteq Nat \ {0}
    /\ Geen \notin Bericht /\ Geen = 0
  BY PipelineAannames DEF Object, Bericht, Geen

(* The empty queue is a queue that fits.                                    *)
LEMMA LegeQueue == <<>> \in Seq(Bericht) /\ Len(<<>>) <= Capaciteit
  BY EmptySeq, PipelineAannames

(* No call in progress is one of the values of handle.                      *)
LEMMA VrijType == Vrij \in Handles
  BY DEF Vrij, Handles, Plannen

(* Only the place in the procedure changes.                                 *)
LEMMA HandleVerder ==
  ASSUME NEW h \in Handles, h.pc # "vrij", NEW p \in {"lees", "verwerk", "commit", "fout"}
  PROVE  /\ [h EXCEPT !.pc = p] \in Handles
         /\ [h EXCEPT !.pc = p].bericht = h.bericht
         /\ [h EXCEPT !.pc = p].plan = h.plan
         /\ [h EXCEPT !.pc = p].pc = p
  BY DEF Handles, Vrij

(* A call in progress is about a bericht.                                   *)
LEMMA HandleBezet ==
  ASSUME NEW h \in Handles, h.pc # "vrij"
  PROVE  h.bericht \in Bericht
  BY DEF Handles, Vrij

(* Init is type correct.                                                    *)
LEMMA InitType == Init => TypeOK
<1> SUFFICES ASSUME Init PROVE TypeOK
  OBVIOUS
<1>1. status \in [Bericht -> Status]
  <2>1. status \in [Bericht -> {"AFWEZIG", "STAGING_OK"}]
    BY DEF Init
  <2> QED BY <2>1 DEF Status
<1>2. rsgb \in [Object -> Bericht \union {Geen}]
  BY DEF Init
<1>3. queue \in Seq(Bericht) /\ Len(queue) <= Capaciteit /\ handle \in Handles
  BY LegeQueue, VrijType DEF Init
<1> QED BY <1>1, <1>2, <1>3 DEF Init, TypeOK

(* Every step keeps the types.                                              *)
LEMMA StapType == TypeOK /\ [Next]_vars => TypeOK'
<1> SUFFICES ASSUME TypeOK, [Next]_vars PROVE TypeOK'
  OBVIOUS
<1> USE ObjectVanBericht, PipelineAannames
<1>1. ASSUME NEW b \in Bericht, Laad(b) PROVE TypeOK'
  BY <1>1 DEF TypeOK, Laad, Status, runVars, threadVars, handleVars, histVars,
              begrensd
<1>2. ASSUME NEW modus \in Modi, StartRun(modus) PROVE TypeOK'
  <2>1. PICK selectie \in Selectie(modus) : job' = selectie /\ taak' = selectie
    BY <1>2 DEF StartRun
  <2>2. selectie \subseteq Bericht
    BY <1>2 DEF Selectie, Opgeschoond, TypeOK
  <2>3. /\ pc' \in {"klaar", "query"} /\ uitkomst' \in {"ok", "geen"}
        /\ wpc' \in {"poll", "uit"}
    BY <1>2 DEF StartRun
  <2> QED BY <1>2, <2>1, <2>2, <2>3 DEF TypeOK, StartRun, handleVars
<1>3. ASSUME NEW modus \in Modi, WeigerRun(modus) PROVE TypeOK'
  <2>1. job' \subseteq job
    BY <1>3 DEF WeigerRun, Opgeschoond
  <2> QED BY <1>3, <2>1 DEF TypeOK, WeigerRun, threadVars, handleVars
<1>4. CASE Query
  BY <1>4 DEF TypeOK, Query, dbVars, threadVars, handleVars, histVars, begrensd
<1>5. ASSUME NEW b \in Bericht, RijDirect(b) PROVE TypeOK'
  BY <1>5 DEF TypeOK, RijDirect, dbVars, threadVars, histVars, begrensd, Handles,
              Plannen
<1>6. ASSUME NEW b \in Bericht, RijGetransformeerd(b) PROVE TypeOK'
  BY <1>6 DEF TypeOK, RijGetransformeerd, dbVars, threadVars, handleVars,
              histVars, begrensd
<1>7. ASSUME NEW b \in Bericht, RijOnleesbaar(b) PROVE TypeOK'
  BY <1>7 DEF TypeOK, RijOnleesbaar, SchrijfStatus, Status, threadVars,
              handleVars, begrensd
<1>8. CASE EindeBatch
  BY <1>8 DEF TypeOK, EindeBatch, dbVars, threadVars, handleVars, histVars,
              begrensd
<1>9. CASE GetQueue
  BY <1>9 DEF TypeOK, GetQueue, dbVars, threadVars, handleVars, histVars, begrensd
<1>10. CASE Put
  <2>1. rij \in Bericht
    BY <1>10 DEF TypeOK, Put
  <2>2. queue' \in Seq(Bericht) /\ Len(queue') = Len(queue) + 1
    BY <1>10, <2>1, AppendProperties DEF TypeOK, Put
  <2>3. Len(queue') <= Capaciteit
    BY <1>10, <2>2, LenProperties DEF TypeOK, Put
  <2> QED BY <1>10, <2>1, <2>2, <2>3 DEF TypeOK, Put, dbVars, handleVars, histVars,
                                        begrensd
<1>11. CASE RemoveJob
  BY <1>11 DEF TypeOK, RemoveJob, threadVars, handleVars, histVars, begrensd
<1>12. CASE StopWhenQueueEmpty
  BY <1>12 DEF TypeOK, StopWhenQueueEmpty, dbVars, handleVars, histVars, begrensd
<1>13. CASE Join
  BY <1>13 DEF TypeOK, Join, dbVars, threadVars, handleVars, histVars, begrensd
<1>14. CASE Afbreken
  BY <1>14 DEF TypeOK, Afbreken, dbVars, handleVars, histVars, begrensd
<1>15. CASE Close
  <2>1. achterblijvers' \subseteq Handles
    BY <1>15 DEF TypeOK, Close
  <2> QED BY <1>15, <2>1, LegeQueue, VrijType
          DEF TypeOK, Close, RunInRust, ThreadInRust, dbVars, histVars, begrensd
<1>16. CASE Poll
  <2>1. /\ queue' \in Seq(Bericht) /\ Len(queue') <= Capaciteit
        /\ unit' \in Bericht \union {Geen}
    BY <1>16, HeadTailProperties, LenProperties DEF TypeOK, Poll
  <2> QED BY <1>16, <2>1 DEF TypeOK, Poll, dbVars, runVars, handleVars, histVars,
                             begrensd
<1>17. CASE Check
  BY <1>17 DEF TypeOK, Check, Stoppen, dbVars, runVars, histVars, begrensd, Handles,
               Plannen
<1>18. CASE HandleLees
  <2>1. Plan(status', handle.bericht) \in Plannen
    BY DEF Plan, Plannen
  <2>2. handle' \in Handles
    <3>1. handle \in [pc : {"lees", "verwerk", "commit", "fout"},
                      bericht : Bericht, plan : Plannen]
      BY <1>18 DEF TypeOK, HandleLees, Handles, Vrij
    <3> QED BY <1>18, <2>1, <3>1 DEF HandleLees, Handles, Plannen
  <2>3. status' \in [Bericht -> Status]
    BY <1>18 DEF TypeOK, HandleLees, SchrijfStatus, Status
  <2> QED BY <1>18, <2>2, <2>3 DEF TypeOK, HandleLees, runVars, threadVars,
                                  histVars, begrensd
<1>19. CASE HandleCommit
  <2>1. handle' \in Handles
    BY <1>19, HandleVerder DEF TypeOK, HandleCommit
  <2>2. handle.bericht \in Bericht
    BY <1>19, HandleBezet DEF TypeOK, HandleCommit
  <2>3. rsgb' \in [Object -> Bericht \union {Geen}] /\ gedaan' \subseteq Bericht
    BY <1>19, <2>2 DEF TypeOK, HandleCommit, Toegepast
  <2> QED BY <1>19, <2>1, <2>3 DEF TypeOK, HandleCommit, runVars, threadVars,
                                  begrensd
<1>20. CASE HandleFout
  <2>1. handle' \in Handles
    BY <1>20, HandleVerder DEF TypeOK, HandleFout
  <2> QED BY <1>20, <2>1 DEF TypeOK, HandleFout, dbVars, runVars, threadVars,
                             histVars, begrensd
<1>21. CASE HandleStatus
  <2>1. NieuweStatus \in Status
    BY DEF NieuweStatus, Status
  <2>2. status' \in [Bericht -> Status]
    BY <1>21, <2>1 DEF TypeOK, HandleStatus, SchrijfStatus
  <2>3. handle' \in Handles
    BY <1>21, VrijType DEF HandleStatus
  <2>4. handle.bericht \in Bericht
    BY <1>21, HandleBezet DEF TypeOK, HandleStatus
  <2>5. gedaan' \subseteq Bericht /\ mislukt' \subseteq Bericht
    BY <1>21, <2>4 DEF TypeOK, HandleStatus
  <2>6. Exceptie \in BOOLEAN
    BY DEF Exceptie
  <2>7. abort' \in BOOLEAN /\ qe' \in BOOLEAN
    BY <1>21, <2>6 DEF TypeOK, HandleStatus
  <2>8. /\ pc' \in {"fout", "rij", pc} /\ rij' \in {Geen, rij}
        /\ lastJid' \in {lastJid, rij} /\ processed' \in Nat
        /\ wpc' \in {wpc, "poll"} /\ (pc' = pc => rij' = rij \/ pc' \in {"fout", "rij"})
    BY <1>21 DEF TypeOK, HandleStatus
  <2> QED BY <1>21, <2>2, <2>3, <2>5, <2>7, <2>8 DEF TypeOK, HandleStatus, begrensd
<1>22. ASSUME NEW a \in achterblijvers, Achterblijver(a) PROVE TypeOK'
  BY <1>22 DEF TypeOK, Achterblijver, SchrijfStatus, Status, runVars, threadVars,
               histVars, begrensd
<1>23. CASE Crash
  <2>1. /\ queue' = <<>> /\ unit' = Geen /\ wpc' = "uit" /\ rs' = {} /\ rij' = Geen
        /\ lastJid' = Geen /\ processed' = 0 /\ offset' = 0 /\ pc' = "klaar"
        /\ uitkomst' = "crash" /\ handle' = Vrij /\ achterblijvers' = {}
        /\ stopWhenQueueEmpty' = FALSE /\ abort' = FALSE /\ qe' = FALSE
        /\ crashes' = crashes + 1
    BY <1>23 DEF Crash, RunInRust, ThreadInRust
  <2>2. UNCHANGED <<status, job, rsgb, taak, gedaan, mislukt, inst, onleesbaar, runs>>
    BY <1>23 DEF Crash, dbVars, histVars
  <2>3. queue' \in Seq(Bericht) /\ Len(queue') <= Capaciteit
    BY <2>1, LegeQueue
  <2>4. handle' \in Handles /\ achterblijvers' \subseteq Handles
    BY <2>1, VrijType
  <2>5. /\ inst' \in Instellingen /\ onleesbaar' \subseteq Bericht
        /\ status' \in [Bericht -> Status] /\ job' \subseteq Bericht
        /\ rsgb' \in [Object -> Bericht \union {Geen}] /\ taak' \subseteq Bericht
        /\ gedaan' \subseteq Bericht /\ mislukt' \subseteq Bericht /\ runs' \in Nat
    BY <2>2 DEF TypeOK
  <2>6. crashes' \in Nat
    BY <2>1 DEF TypeOK
  <2>7. /\ pc' \in {"klaar"} /\ rs' \subseteq Bericht /\ rij' \in Bericht \union {Geen}
        /\ lastJid' \in Bericht \union {Geen} /\ processed' \in Nat /\ offset' \in Nat
        /\ uitkomst' \in {"crash"} /\ wpc' \in {"uit"} /\ unit' \in Bericht \union {Geen}
        /\ stopWhenQueueEmpty' \in BOOLEAN /\ abort' \in BOOLEAN /\ qe' \in BOOLEAN
    BY <2>1
  <2> QED BY <2>3, <2>4, <2>5, <2>6, <2>7 DEF TypeOK
<1>24. CASE UNCHANGED vars
  BY <1>24 DEF TypeOK, vars, dbVars, runVars, threadVars, handleVars, histVars,
               begrensd
<1> QED
  BY <1>1, <1>2, <1>3, <1>4, <1>5, <1>6, <1>7, <1>8, <1>9, <1>10, <1>11, <1>12,
     <1>13, <1>14, <1>15, <1>16, <1>17, <1>18, <1>19, <1>20, <1>21, <1>22, <1>23,
     <1>24 DEF Next, RunStap, ThreadStap, HandleStap

(* Every variable keeps its type, and the queue its capacity.               *)
THEOREM Types == Spec => []TypeOK
  BY InitType, StapType, PTL DEF Spec

(***************************************************************************)
(* The invariant is inductive.                                             *)
(***************************************************************************)
invVars == <<inst, onleesbaar, job, pc, rs, rij, lastJid, queue, abort, wpc, unit,
             handle, taak, gedaan, mislukt>>

(* The invariant holds before anything has started.                         *)
LEMMA InitInv == Init => Inv
<1> SUFFICES ASSUME Init PROVE Inv
  OBVIOUS
<1> USE ObjectVanBericht
<1>1. TypeOK
  BY InitType
<1>2. Len(queue) = 0 /\ handle.pc = "vrij" /\ handle.bericht = Geen
  BY EmptySeq DEF Init, Vrij
<1>3. Rollen
  BY <1>2 DEF Init, Rollen
<1>4. Lezer
  BY DEF Init, Lezer, Leest
<1>5. Vlucht
  BY <1>2 DEF Init, Vlucht, Bezig
<1>6. Fouten
  BY <1>2 DEF Init, Fouten, Bezig
<1> QED BY <1>1, <1>3, <1>4, <1>5, <1>6 DEF Inv

(* What the step proofs need of the types.                                  *)
LEMMA Getallen ==
  ASSUME TypeOK
  PROVE  /\ lastJid \in Nat /\ rij \in Nat /\ unit \in Nat
         /\ handle.bericht \in Nat
         /\ taak \subseteq Nat /\ gedaan \subseteq Nat /\ mislukt \subseteq Nat
         /\ rs \subseteq Nat /\ job \subseteq Nat
         /\ queue \in Seq(Bericht) /\ Len(queue) \in Nat
         /\ \A i \in 1..Len(queue) : queue[i] \in Nat
         /\ inst.pipeline \in BOOLEAN /\ inst.stop \in BOOLEAN
<1>1. handle.bericht \in Nat
  <2>1. CASE handle = Vrij
    BY <2>1, ObjectVanBericht DEF Vrij
  <2>2. CASE handle.pc # "vrij"
    BY <2>2, HandleBezet, ObjectVanBericht DEF TypeOK
  <2> QED BY <2>1, <2>2 DEF TypeOK, Handles
<1>2. queue \in Seq(Bericht) /\ Len(queue) \in Nat
       /\ \A i \in 1..Len(queue) : queue[i] \in Nat
  BY ObjectVanBericht, LenProperties, ElementOfSeq DEF TypeOK
<1>3. inst.pipeline \in BOOLEAN /\ inst.stop \in BOOLEAN
  BY PipelineAannames DEF TypeOK
<1> QED BY <1>1, <1>2, <1>3, ObjectVanBericht DEF TypeOK

(* Nothing that the invariant is about changes.                             *)
LEMMA Stilstand ==
  ASSUME Rollen, Lezer, Vlucht, Fouten, UNCHANGED invVars
  PROVE  Rollen' /\ Lezer' /\ Vlucht' /\ Fouten'
<1> USE DEF invVars
<1>1. Rollen'
  BY DEF Rollen
<1>2. Lezer'
  BY DEF Lezer, Leest
<1>3. Vlucht'
  BY DEF Vlucht, Bezig
<1>4. Fouten'
  BY DEF Fouten, Bezig
<1> QED BY <1>1, <1>2, <1>3, <1>4

(* Both threads are gone and handle is free.                                *)
LEMMA Rust ==
  ASSUME TypeOK', pc' = "klaar", RunInRust, ThreadInRust, handle' = Vrij
  PROVE  Rollen' /\ Lezer' /\ Vlucht' /\ Fouten'
<1>1. handle'.pc = "vrij" /\ handle'.bericht = 0 /\ Len(queue') = 0
  BY EmptySeq DEF Vrij, ThreadInRust, Geen
<1>2. Rollen'
  BY <1>1 DEF Rollen, RunInRust, ThreadInRust, Geen
<1>3. Lezer'
  BY DEF Lezer, Leest
<1>4. Vlucht'
  BY <1>1 DEF Vlucht, Bezig, ThreadInRust
<1>5. Fouten'
  <2>1. \A m \in mislukt' : unit' < m
    BY ObjectVanBericht DEF ThreadInRust, TypeOK
  <2> QED BY <1>1, <2>1 DEF Fouten, Bezig, ThreadInRust, Geen
<1> QED BY <1>2, <1>3, <1>4, <1>5

(* Every step keeps the invariant.                                          *)
LEMMA StapInv ==
  ASSUME Inv, TypeOK', [Next]_vars
  PROVE  Rollen' /\ Lezer' /\ Vlucht' /\ Fouten'
<1> USE ObjectVanBericht DEF Inv
<1>t. /\ lastJid \in Nat /\ rij \in Nat /\ unit \in Nat
      /\ handle.bericht \in Nat
      /\ taak \subseteq Nat /\ gedaan \subseteq Nat /\ mislukt \subseteq Nat
      /\ rs \subseteq Nat /\ job \subseteq Nat
      /\ queue \in Seq(Bericht) /\ Len(queue) \in Nat
      /\ \A i \in 1..Len(queue) : queue[i] \in Nat
      /\ inst.pipeline \in BOOLEAN /\ inst.stop \in BOOLEAN
  BY Getallen
<1>1. ASSUME NEW b \in Bericht, Laad(b) PROVE Rollen' /\ Lezer' /\ Vlucht' /\ Fouten'
  BY <1>1, Stilstand DEF Laad, invVars, runVars, threadVars, handleVars, histVars,
                         begrensd
<1>2. ASSUME NEW modus \in Modi, StartRun(modus)
      PROVE  Rollen' /\ Lezer' /\ Vlucht' /\ Fouten'
  <2>1. /\ pc = "klaar" /\ wpc = "uit" /\ handle = Vrij /\ queue = <<>>
        /\ unit = Geen /\ lastJid = Geen /\ rij = Geen /\ ~abort
    BY <1>2 DEF StartRun, Rollen
  <2>2. /\ UNCHANGED <<inst, rij, lastJid, queue, abort, unit, handle>>
        /\ job' = taak' /\ gedaan' = {} /\ mislukt' = {}
        /\ (pc' = "klaar" /\ wpc' = "uit") \/ pc' = "query"
        /\ wpc' = "uit" \/ (wpc' = "poll" /\ inst.pipeline)
    <3>1. PICK selectie \in Selectie(modus) :
            /\ job' = selectie /\ taak' = selectie
            /\ pc' = (IF selectie = {} THEN "klaar" ELSE "query")
            /\ wpc' = (IF selectie # {} /\ inst.pipeline THEN "poll" ELSE "uit")
      BY <1>2 DEF StartRun
    <3>2. /\ UNCHANGED <<inst, rij, lastJid, queue, abort, unit, handle>>
          /\ gedaan' = {} /\ mislukt' = {}
      BY <1>2 DEF StartRun, handleVars
    <3>3. /\ (pc' = "klaar" /\ wpc' = "uit") \/ pc' = "query"
          /\ wpc' = "uit" \/ (wpc' = "poll" /\ inst.pipeline)
      BY <3>1
    <3> QED BY <3>1, <3>2, <3>3
  <2>3. handle.pc = "vrij" /\ handle.bericht = Geen /\ Len(queue) = 0
    BY <2>1, EmptySeq DEF Vrij
  <2>4. Rollen'
    BY <2>1, <2>2, <2>3 DEF Rollen
  <2>5. Lezer'
    BY <2>1, <2>2 DEF Lezer, Leest, TypeOK
  <2>6. Vlucht'
    BY <2>1, <2>2, <2>3 DEF Vlucht, Bezig, TypeOK
  <2>7. Fouten'
    BY <2>2, <2>3 DEF Fouten, Bezig
  <2> QED BY <2>4, <2>5, <2>6, <2>7
<1>3. ASSUME NEW modus \in Modi, WeigerRun(modus)
      PROVE  Rollen' /\ Lezer' /\ Vlucht' /\ Fouten'
  <2>1. /\ pc = "klaar" /\ wpc = "uit" /\ handle = Vrij /\ queue = <<>>
        /\ unit = Geen
    BY <1>3 DEF WeigerRun, Rollen
  <2>2. /\ UNCHANGED <<inst, pc, wpc, rij, lastJid, queue, abort, unit, handle>>
        /\ taak' = {} /\ gedaan' = {} /\ mislukt' = {}
    BY <1>3 DEF WeigerRun, threadVars, handleVars
  <2>3. handle.pc = "vrij" /\ Len(queue) = 0
    BY <2>1, EmptySeq DEF Vrij
  <2>4. Rollen'
    BY <2>2 DEF Rollen
  <2>5. Lezer'
    BY <2>1, <2>2 DEF Lezer, Leest
  <2>6. Vlucht'
    BY <2>1, <2>2, <2>3 DEF Vlucht, Bezig
  <2>7. Fouten'
    BY <2>2, <2>3 DEF Fouten, Bezig
  <2> QED BY <2>4, <2>5, <2>6, <2>7
<1>4. CASE Query
  <2>1. /\ pc = "query" /\ pc' = "rij"
        /\ UNCHANGED <<inst, onleesbaar, job, rij, lastJid, queue, abort, wpc, unit,
                       handle, taak, gedaan, mislukt>>
    BY <1>4 DEF Query, dbVars, threadVars, handleVars, histVars, begrensd
  <2>2. /\ \A r \in rs' : r \in job /\ r > lastJid
        /\ \A r \in rs', c \in job : c > lastJid /\ c < r => c \in rs'
    BY <1>4, <1>t DEF Query, Pagina
  <2>3. Rollen'
    BY <2>1 DEF Rollen
  <2>4. Lezer'
    <3>1. job = taak /\ rij = 0
      BY <2>1 DEF Lezer, Leest, Geen
    <3>2. \A r \in rs' : r \in taak' /\ r > lastJid' /\ r > rij'
      <4> TAKE r \in rs'
      <4>1. r \in job /\ r > lastJid /\ r \in Nat
        BY <2>2, <1>t
      <4> QED BY <2>1, <3>1, <4>1, <1>t
    <3>3. \A c \in taak' \ gedaan', r \in rs' \union {rij'} :
             c > lastJid' /\ c < r => c \in rs' \/ c = rij'
      BY <2>1, <2>2, <3>1, <1>t
    <3> QED BY <2>1, <3>1, <3>2, <3>3 DEF Lezer, Leest
  <2>5. Vlucht'
    BY <2>1 DEF Vlucht, Bezig
  <2>6. Fouten'
    BY <2>1 DEF Fouten, Bezig
  <2> QED BY <2>3, <2>4, <2>5, <2>6
<1>5. ASSUME NEW b \in Bericht, RijDirect(b)
      PROVE  Rollen' /\ Lezer' /\ Vlucht' /\ Fouten'
  <2>1. /\ pc = "rij" /\ pc' = "handle" /\ ~inst.pipeline
        /\ b \in rs /\ (\A c \in rs : b <= c) /\ rs' = rs \ {b} /\ rij' = b
        /\ handle' = [pc |-> "lees", bericht |-> b, plan |-> "GEEN"]
        /\ UNCHANGED <<inst, onleesbaar, job, lastJid, queue, abort, wpc, unit,
                       taak, gedaan, mislukt>>
    BY <1>5 DEF RijDirect, Eerste, dbVars, threadVars, histVars, begrensd
  <2>2. handle'.pc = "lees" /\ handle'.bericht = b
    BY <2>1
  <2>3. b \in taak /\ b > lastJid /\ b \notin gedaan
    BY <2>1, <1>t DEF Lezer, Leest
  <2>4. Rollen'
    BY <2>1, <2>2 DEF Rollen
  <2>5. Lezer'
    BY <2>1, <2>2, <2>3, <1>t DEF Lezer, Leest, Geen
  <2>6. Vlucht'
    BY <2>1, <2>2, <2>3 DEF Vlucht, Bezig, Rollen
  <2>7. Fouten'
    BY <2>1, <2>2 DEF Fouten, Bezig, Rollen
  <2> QED BY <2>4, <2>5, <2>6, <2>7
<1>6. ASSUME NEW b \in Bericht, RijGetransformeerd(b)
      PROVE  Rollen' /\ Lezer' /\ Vlucht' /\ Fouten'
  <2>1. /\ pc = "rij" /\ pc' = "getQueue" /\ inst.pipeline /\ b \notin onleesbaar
        /\ b \in rs /\ (\A c \in rs : b <= c) /\ rs' = rs \ {b} /\ rij' = b
        /\ UNCHANGED <<inst, onleesbaar, job, lastJid, queue, abort, wpc, unit,
                       handle, taak, gedaan, mislukt>>
    BY <1>6 DEF RijGetransformeerd, Eerste, dbVars, threadVars, handleVars, histVars,
                begrensd
  <2>2. b \in taak /\ b > lastJid /\ b \notin gedaan
    BY <2>1, <1>t DEF Lezer, Leest
  <2>3. Rollen'
    BY <2>1 DEF Rollen
  <2>4. Lezer'
    BY <2>1, <2>2, <1>t DEF Lezer, Leest, Geen
  <2>5. Vlucht'
    BY <2>1 DEF Vlucht, Bezig
  <2>6. Fouten'
    BY <2>1 DEF Fouten, Bezig
  <2> QED BY <2>3, <2>4, <2>5, <2>6
<1>7. ASSUME NEW b \in Bericht, RijOnleesbaar(b)
      PROVE  Rollen' /\ Lezer' /\ Vlucht' /\ Fouten'
  <2>1. /\ pc = "rij" /\ inst.pipeline /\ b \in onleesbaar
        /\ b \in rs /\ (\A c \in rs : b <= c) /\ rs' = rs \ {b}
        /\ gedaan' = gedaan \union {b} /\ mislukt' = mislukt \union {b}
        /\ pc' = (IF inst.stop THEN "fout" ELSE "rij")
        /\ UNCHANGED <<inst, onleesbaar, job, rij, lastJid, queue, abort, wpc, unit,
                       handle, taak>>
    BY <1>7 DEF RijOnleesbaar, Eerste, runVars, threadVars, handleVars, begrensd
  <2>2. b \in taak /\ b > lastJid
    BY <2>1, <1>t DEF Lezer, Leest
  <2>3. Rollen'
    BY <2>1 DEF Rollen
  <2>4. Lezer'
    BY <2>1, <2>2, <1>t DEF Lezer, Leest, Geen
  <2>5. Vlucht'
    BY <2>1, <2>2, <1>t DEF Vlucht, Bezig, Rollen
  <2>6. Fouten'
    BY <2>1, <2>2, <1>t DEF Fouten, Bezig, Vlucht, Rollen, Geen
  <2> QED BY <2>3, <2>4, <2>5, <2>6
<1>8. CASE EindeBatch
  <2>1. /\ pc = "rij" /\ rs = {} /\ pc' \in {"query", "opruimen"}
        /\ UNCHANGED <<inst, onleesbaar, job, rs, rij, lastJid, queue, abort, wpc,
                       unit, handle, taak, gedaan, mislukt>>
    BY <1>8 DEF EindeBatch, dbVars, threadVars, handleVars, histVars, begrensd
  <2>2. Rollen'
    BY <2>1 DEF Rollen
  <2>3. Lezer'
    BY <2>1 DEF Lezer, Leest
  <2>4. Vlucht'
    BY <2>1 DEF Vlucht, Bezig
  <2>5. Fouten'
    BY <2>1 DEF Fouten, Bezig
  <2> QED BY <2>2, <2>3, <2>4, <2>5
<1>9. CASE GetQueue
  <2>1. /\ pc = "getQueue" /\ pc' \in {"fout", "put"}
        /\ UNCHANGED <<inst, onleesbaar, job, rs, rij, lastJid, queue, abort, wpc,
                       unit, handle, taak, gedaan, mislukt>>
    BY <1>9 DEF GetQueue, dbVars, threadVars, handleVars, histVars, begrensd
  <2>2. Rollen'
    BY <2>1 DEF Rollen
  <2>3. Lezer'
    BY <2>1 DEF Lezer, Leest
  <2>4. Vlucht'
    BY <2>1 DEF Vlucht, Bezig
  <2>5. Fouten'
    BY <2>1 DEF Fouten, Bezig
  <2> QED BY <2>2, <2>3, <2>4, <2>5
<1>10. CASE Put
  <2>1. /\ pc = "put" /\ pc' = "rij" /\ lastJid' = rij /\ rij' = Geen
        /\ queue' = Append(queue, rij)
        /\ UNCHANGED <<inst, onleesbaar, job, rs, abort, wpc, unit, handle, taak,
                       gedaan, mislukt>>
    BY <1>10 DEF Put, dbVars, handleVars, histVars, begrensd
  <2>2. rij \in taak \ gedaan /\ rij > lastJid /\ rij \in Bericht /\ inst.pipeline
    BY <2>1 DEF Lezer, Rollen, TypeOK
  <2>3. /\ Len(queue') = Len(queue) + 1
        /\ \A i \in 1..Len(queue) : queue'[i] = queue[i]
        /\ queue'[Len(queue) + 1] = rij
    BY <2>1, <2>2, <1>t, AppendProperties
  <2>4. \A c \in taak \ gedaan : c <= rij => c <= lastJid \/ c = rij
    BY <2>1, <2>2, <1>t DEF Lezer, Leest
  <2>5. Rollen'
    BY <2>1, <2>2, <1>t DEF Rollen, Geen
  <2>6. Lezer'
    BY <2>1, <2>2, <1>t DEF Lezer, Leest, Geen
  <2>7. Vlucht'
    <3>1. \A i \in 1..Len(queue') : queue'[i] \in taak' \ gedaan' /\ queue'[i] <= lastJid'
      BY <2>1, <2>2, <2>3, <1>t DEF Vlucht
    <3>2. \A i, j \in 1..Len(queue') : i < j => queue'[i] < queue'[j]
      BY <2>1, <2>2, <2>3, <1>t DEF Vlucht
    <3>3. unit' # Geen => /\ unit' \in taak' \ gedaan' /\ unit' <= lastJid'
                          /\ \A i \in 1..Len(queue') : unit' < queue'[i]
      BY <2>1, <2>2, <2>3, <1>t DEF Vlucht
    <3>4. inst'.pipeline /\ handle'.pc # "vrij" =>
            /\ handle'.bericht <= lastJid'
            /\ \A i \in 1..Len(queue') : handle'.bericht < queue'[i]
      BY <2>1, <2>2, <2>3, <1>t DEF Vlucht
    <3>5. wpc' # "uit" => \A c \in taak' \ gedaan' : c <= lastJid' =>
            \/ c = unit' \/ c = handle'.bericht
            \/ \E i \in 1..Len(queue') : c = queue'[i]
      <4> SUFFICES ASSUME wpc # "uit", NEW c \in taak \ gedaan, c <= rij
                   PROVE  \/ c = unit \/ c = handle.bericht
                          \/ \E i \in 1..Len(queue') : c = queue'[i]
        BY <2>1
      <4>1. CASE c = rij
        BY <4>1, <2>3, <1>t
      <4>2. CASE c <= lastJid
        BY <4>2, <2>3, <1>t DEF Vlucht
      <4> QED BY <4>1, <4>2, <2>4
    <3> QED BY <2>1, <3>1, <3>2, <3>3, <3>4, <3>5 DEF Vlucht, Bezig
  <2>8. Fouten'
    <3>1. inst.stop /\ mislukt # {} => abort
      BY <2>1 DEF Fouten
    <3> QED BY <2>1, <3>1 DEF Fouten, Bezig
  <2> QED BY <2>5, <2>6, <2>7, <2>8
<1>11. CASE RemoveJob
  <2>1. /\ pc = "opruimen" /\ pc' \in {"stop", "sluiten"}
        /\ UNCHANGED <<inst, onleesbaar, rs, rij, lastJid, queue, abort, wpc, unit,
                       handle, taak, gedaan, mislukt>>
    BY <1>11 DEF RemoveJob, threadVars, handleVars, histVars, begrensd
  <2>2. Rollen'
    BY <2>1 DEF Rollen
  <2>3. Lezer'
    BY <2>1 DEF Lezer, Leest
  <2>4. Vlucht'
    BY <2>1 DEF Vlucht, Bezig
  <2>5. Fouten'
    BY <2>1 DEF Fouten, Bezig
  <2> QED BY <2>2, <2>3, <2>4, <2>5
<1>12. CASE StopWhenQueueEmpty
  <2>1. /\ pc = "stop" /\ pc' = "join"
        /\ UNCHANGED <<inst, onleesbaar, job, rs, rij, lastJid, queue, abort, wpc,
                       unit, handle, taak, gedaan, mislukt>>
    BY <1>12 DEF StopWhenQueueEmpty, dbVars, handleVars, histVars, begrensd
  <2>2. Rollen'
    BY <2>1 DEF Rollen
  <2>3. Lezer'
    BY <2>1 DEF Lezer, Leest
  <2>4. Vlucht'
    BY <2>1 DEF Vlucht, Bezig
  <2>5. Fouten'
    BY <2>1 DEF Fouten, Bezig
  <2> QED BY <2>2, <2>3, <2>4, <2>5
<1>13. CASE Join
  <2>1. /\ pc = "join" /\ pc' = "sluiten"
        /\ UNCHANGED <<inst, onleesbaar, job, rs, rij, lastJid, queue, abort, wpc,
                       unit, handle, taak, gedaan, mislukt>>
    BY <1>13 DEF Join, dbVars, threadVars, handleVars, histVars, begrensd
  <2>2. Rollen'
    BY <2>1 DEF Rollen
  <2>3. Lezer'
    BY <2>1 DEF Lezer, Leest
  <2>4. Vlucht'
    BY <2>1 DEF Vlucht, Bezig
  <2>5. Fouten'
    BY <2>1 DEF Fouten, Bezig
  <2> QED BY <2>2, <2>3, <2>4, <2>5
<1>14. CASE Afbreken
  <2>1. /\ pc = "fout" /\ pc' = "sluiten" /\ abort' = inst.pipeline
        /\ UNCHANGED <<inst, onleesbaar, job, rs, rij, lastJid, queue, wpc, unit,
                       handle, taak, gedaan, mislukt>>
    BY <1>14 DEF Afbreken, dbVars, handleVars, histVars, begrensd
  <2>2. Rollen'
    BY <2>1, <1>t DEF Rollen
  <2>3. Lezer'
    BY <2>1 DEF Lezer, Leest
  <2>4. Vlucht'
    BY <2>1 DEF Vlucht, Bezig
  <2>5. Fouten'
    BY <2>1, <1>t DEF Fouten, Bezig, Rollen
  <2> QED BY <2>2, <2>3, <2>4, <2>5
<1>15. CASE Close
  BY <1>15, Rust DEF Close
<1>16. CASE Poll
  <2>1. /\ wpc = "poll" /\ wpc' = "gepold"
        /\ UNCHANGED <<inst, onleesbaar, job, pc, rs, rij, lastJid, abort, handle,
                       taak, gedaan, mislukt>>
    BY <1>16 DEF Poll, dbVars, runVars, handleVars, histVars, begrensd
  <2>2. inst.pipeline /\ handle.pc = "vrij" /\ handle.bericht = Geen /\ unit = Geen
    BY <2>1 DEF Rollen
  <2>3. Rollen'
    BY <2>1, <2>2 DEF Rollen
  <2>4. Lezer'
    BY <2>1 DEF Lezer, Leest
  <2>5. CASE queue = <<>>
    <3>1. queue' = queue /\ unit' = unit
      BY <1>16, <2>2, <2>5 DEF Poll
    <3>2. Vlucht'
      BY <2>1, <3>1 DEF Vlucht, Bezig
    <3>3. Fouten'
      BY <2>1, <3>1 DEF Fouten, Bezig
    <3> QED BY <2>3, <2>4, <3>2, <3>3
  <2>6. CASE queue # <<>>
    <3>1. unit' = queue[1] /\ queue' = Tail(queue)
      BY <1>16, <2>6, <1>t DEF Poll
    <3>2. /\ Len(queue') = Len(queue) - 1 /\ Len(queue) >= 1
          /\ \A i \in 1..Len(queue') : queue'[i] = queue[i + 1]
      BY <3>1, <2>6, <1>t, HeadTailProperties, EmptySeq
    <3>3. \A i \in 1..Len(queue') : i + 1 \in 1..Len(queue)
      BY <3>2, <1>t
    <3>4. 1 \in 1..Len(queue) /\ unit' \in Nat
      BY <3>1, <3>2, <1>t
    <3>5. Vlucht'
      <4>1. \A i \in 1..Len(queue') : queue'[i] \in taak' \ gedaan' /\ queue'[i] <= lastJid'
        BY <2>1, <3>2, <3>3 DEF Vlucht
      <4>2. \A i, j \in 1..Len(queue') : i < j => queue'[i] < queue'[j]
        <5> TAKE i, j \in 1..Len(queue')
        <5>1. /\ i + 1 \in 1..Len(queue) /\ j + 1 \in 1..Len(queue)
              /\ i < j => i + 1 < j + 1
          BY <3>2, <3>3, <1>t
        <5> QED BY <3>2, <5>1 DEF Vlucht
      <4>3. /\ unit' \in taak' \ gedaan' /\ unit' <= lastJid'
            /\ \A i \in 1..Len(queue') : unit' < queue'[i]
        BY <2>1, <3>1, <3>2, <3>3, <3>4, <1>t DEF Vlucht
      <4>4. \A c \in taak \ gedaan : c <= lastJid =>
               c = unit' \/ \E i \in 1..Len(queue') : c = queue'[i]
        <5> SUFFICES ASSUME NEW c \in taak \ gedaan, c <= lastJid
                     PROVE  c = unit' \/ \E i \in 1..Len(queue') : c = queue'[i]
          OBVIOUS
        <5>1. PICK i \in 1..Len(queue) : c = queue[i]
          BY <2>1, <2>2, ObjectVanBericht DEF Vlucht, TypeOK
        <5>2. CASE i = 1
          BY <5>1, <5>2, <3>1
        <5>3. CASE i # 1
          <6>1. i - 1 \in 1..Len(queue') /\ (i - 1) + 1 = i
            BY <5>3, <3>2, <1>t
          <6> QED BY <5>1, <6>1, <3>2
        <5> QED BY <5>2, <5>3
      <4> QED BY <2>1, <2>2, <4>1, <4>2, <4>3, <4>4 DEF Vlucht, Bezig
    <3>6. Fouten'
      BY <2>1, <3>1, <3>2, <3>3, <3>4 DEF Fouten, Bezig
    <3> QED BY <2>3, <2>4, <3>5, <3>6
  <2> QED BY <2>5, <2>6
<1>17. CASE Check
  <2>1. /\ wpc = "gepold" /\ unit' = Geen
        /\ UNCHANGED <<inst, onleesbaar, job, pc, rs, rij, lastJid, queue, abort,
                       taak, gedaan, mislukt>>
    BY <1>17 DEF Check, dbVars, runVars, histVars, begrensd
  <2>2. inst.pipeline /\ handle.pc = "vrij" /\ handle.bericht = Geen
    BY <2>1 DEF Rollen
  <2>3. CASE wpc' \in {"uit", "poll"} /\ handle' = handle
    <3>1. unit = Geen \/ wpc' = "uit"
      BY <1>17, <2>1, <2>2, <2>3 DEF Check
    <3>2. Rollen'
      BY <2>1, <2>2, <2>3 DEF Rollen
    <3>3. Lezer'
      BY <2>1, <2>3 DEF Lezer, Leest
    <3>4. Vlucht'
      BY <2>1, <2>2, <2>3, <3>1 DEF Vlucht, Bezig
    <3>5. Fouten'
      BY <2>1, <2>2, <2>3, <1>t DEF Fouten, Bezig, TypeOK
    <3> QED BY <3>2, <3>3, <3>4, <3>5
  <2>4. CASE /\ wpc' = "werk" /\ unit # Geen /\ ~abort
             /\ handle' = [pc |-> "lees", bericht |-> unit, plan |-> "GEEN"]
    <3>1. handle'.pc = "lees" /\ handle'.bericht = unit
      BY <2>4
    <3>2. Rollen'
      BY <2>1, <2>2, <2>4, <3>1 DEF Rollen
    <3>3. Lezer'
      BY <2>1, <2>2, <3>1 DEF Lezer, Leest, Rollen
    <3>4. Vlucht'
      BY <2>1, <2>2, <2>4, <3>1 DEF Vlucht, Bezig
    <3>5. Fouten'
      BY <2>1, <2>2, <2>4, <3>1, <1>t DEF Fouten, Bezig, TypeOK
    <3> QED BY <3>2, <3>3, <3>4, <3>5
  <2> QED BY <1>17, <2>3, <2>4 DEF Check, Stoppen
<1>18. CASE HandleLees \/ HandleFout
  <2>1. /\ Bezig /\ handle'.bericht = handle.bericht /\ handle'.pc \in {"verwerk", "fout"}
        /\ UNCHANGED <<inst, onleesbaar, job, pc, rs, rij, lastJid, queue, abort, wpc,
                       unit, taak, gedaan, mislukt>>
    <3>1. CASE HandleFout
      BY <3>1, HandleVerder DEF HandleFout, Bezig, TypeOK, dbVars, runVars,
                                threadVars, histVars, begrensd
    <3>2. CASE HandleLees
      <4>1. handle \in [pc : {"lees", "verwerk", "commit", "fout"},
                        bericht : Bericht, plan : Plannen]
        BY <3>2 DEF HandleLees, TypeOK, Handles, Vrij
      <4>2. handle'.bericht = handle.bericht /\ handle'.pc \in {"verwerk", "fout"}
        BY <3>2, <4>1 DEF HandleLees
      <4> QED BY <3>2, <4>2 DEF HandleLees, Bezig, runVars, threadVars, histVars,
                                begrensd
    <3> QED BY <1>18, <3>1, <3>2
  <2>2. Bezig' /\ handle'.pc # "vrij" /\ handle.pc # "vrij" /\ handle' # Vrij
    BY <2>1 DEF Bezig, Vrij
  <2>3. Rollen'
    BY <2>1, <2>2 DEF Rollen, Vrij
  <2>4. Lezer'
    BY <2>1 DEF Lezer, Leest
  <2>5. Vlucht'
    BY <2>1, <2>2 DEF Vlucht, Bezig
  <2>6. Fouten'
    BY <2>1, <2>2 DEF Fouten
  <2> QED BY <2>3, <2>4, <2>5, <2>6
<1>19. CASE HandleCommit
  <2> DEFINE b == handle.bericht
  <2>1. /\ handle.pc = "verwerk" /\ handle'.pc = "commit" /\ handle'.bericht = b
        /\ gedaan' = gedaan \union {b}
        /\ UNCHANGED <<inst, onleesbaar, job, pc, rs, rij, lastJid, queue, abort, wpc,
                       unit, taak, mislukt>>
    BY <1>19, HandleVerder DEF HandleCommit, TypeOK, runVars, threadVars, begrensd
  <2>2. handle # Vrij /\ b \in taak \ gedaan /\ b \in Nat
    BY <2>1, <1>t DEF Vrij, Vlucht, Bezig
  <2>3. Rollen'
    BY <2>1, <2>2 DEF Rollen, Vrij
  <2>4. inst.pipeline => b <= lastJid /\ unit = Geen
    BY <2>1 DEF Vlucht, Rollen
  <2>5. ~inst.pipeline => pc = "handle" /\ b = rij
    BY <2>1 DEF Lezer, Rollen
  <2>6. Lezer'
    <3>1. CASE inst.pipeline
      BY <2>1, <2>2, <2>4, <3>1, <1>t DEF Lezer, Leest, Rollen
    <3>2. CASE ~inst.pipeline
      BY <2>1, <2>2, <2>5, <3>2, <1>t DEF Lezer, Leest
    <3> QED BY <3>1, <3>2, <1>t
  <2>7. Vlucht'
    <3>1. \A i \in 1..Len(queue) : queue[i] # b
      BY <2>1, <2>2, <1>t DEF Vlucht, Rollen
    <3>2. unit # Geen => unit # b
      BY <2>1, <2>4, <1>t DEF Rollen
    <3> QED BY <2>1, <2>2, <3>1, <3>2 DEF Vlucht, Bezig
  <2>8. Fouten'
    BY <2>1 DEF Fouten, Bezig
  <2> QED BY <2>3, <2>6, <2>7, <2>8
<1>20. CASE HandleStatus
  <2> DEFINE b == handle.bericht
  <2>1. /\ handle.pc \in {"commit", "fout"} /\ handle' = Vrij
        /\ gedaan' = gedaan \union {b}
        /\ mislukt' = (IF handle.pc = "fout" THEN mislukt \union {b} ELSE mislukt)
        /\ UNCHANGED <<inst, onleesbaar, job, rs, queue, unit, taak>>
    BY <1>20 DEF HandleStatus, begrensd
  <2>2. handle'.pc = "vrij" /\ handle'.bericht = Geen /\ handle # Vrij
        /\ handle.pc # "vrij" /\ b \in Nat
    BY <2>1, <1>t DEF Vrij
  <2>3. CASE inst.pipeline
    <3>1. /\ wpc = "werk" /\ wpc' = "poll" /\ abort' = (abort \/ Exceptie)
          /\ UNCHANGED <<pc, rij, lastJid>>
      BY <1>20, <2>2, <2>3 DEF HandleStatus, Rollen
    <3>2. b <= lastJid /\ unit = Geen /\ \A i \in 1..Len(queue) : b < queue[i]
      BY <2>2, <2>3, <3>1 DEF Vlucht, Rollen
    <3>3. pc # "klaar"
      BY <3>1 DEF Rollen
    <3>4. Rollen'
      BY <2>1, <2>2, <2>3, <3>1, <3>2, <3>3 DEF Rollen
    <3>5. Lezer'
      BY <2>1, <2>2, <2>3, <3>1, <3>2, <1>t DEF Lezer, Leest, Rollen
    <3>6. Vlucht'
      BY <2>1, <2>2, <2>3, <3>1, <3>2, <1>t DEF Vlucht, Bezig
    <3>7. Fouten'
      <4>1. CASE handle.pc = "fout" /\ inst.stop
        BY <2>1, <2>2, <3>1, <4>1 DEF Fouten, Bezig, Exceptie
      <4>2. CASE ~(handle.pc = "fout" /\ inst.stop)
        <5>1. ~Exceptie
          BY <4>2 DEF Exceptie
        <5>2. abort' <=> abort
          BY <3>1, <5>1
        <5> QED BY <2>1, <2>2, <3>1, <4>2, <5>2 DEF Fouten, Bezig
      <4> QED BY <4>1, <4>2
    <3> QED BY <3>4, <3>5, <3>6, <3>7
  <2>4. CASE ~inst.pipeline
    <3>1. /\ pc = "handle" /\ b = rij /\ wpc = "uit" /\ queue = <<>> /\ unit = Geen
          /\ ~abort
      BY <2>2, <2>4 DEF Rollen, Lezer
    <3>2. /\ pc' = (IF Exceptie THEN "fout" ELSE "rij")
          /\ lastJid' = (IF Exceptie THEN lastJid ELSE rij)
          /\ rij' = Geen /\ UNCHANGED <<wpc, abort>>
      BY <1>20, <2>4 DEF HandleStatus
    <3>3. Len(queue) = 0 /\ rij > lastJid /\ rij \in taak
      BY <3>1, EmptySeq DEF Lezer
    <3>4. Rollen'
      BY <2>1, <2>2, <2>4, <3>1, <3>2 DEF Rollen
    <3>5. Lezer'
      <4>1. CASE Exceptie
        BY <3>2, <4>1 DEF Lezer, Leest
      <4>2. CASE ~Exceptie
        <5>1. \A r \in rs : r \in taak /\ r > rij /\ r > 0
          BY <3>1, <3>3, <1>t DEF Lezer, Leest
        <5>2. \A c \in taak \ gedaan' : c > rij
          BY <2>1, <2>4, <3>1, <3>3, <1>t DEF Lezer, Leest
        <5>3. \A c \in taak \ gedaan', r \in rs : c > rij /\ c < r => c \in rs
          BY <2>1, <3>1, <3>3, <1>t DEF Lezer, Leest
        <5>4. \A c \in gedaan' : ~(c > rij)
          BY <2>1, <2>4, <3>1, <3>3, <1>t DEF Lezer, Leest
        <5> QED BY <2>1, <3>1, <3>2, <4>2, <5>1, <5>2, <5>3, <5>4, <1>t
                DEF Lezer, Leest, Geen
      <4> QED BY <4>1, <4>2
    <3>6. Vlucht'
      BY <2>1, <2>2, <2>4, <3>1, <3>2, <3>3 DEF Vlucht, Bezig
    <3>7. Fouten'
      <4>1. inst.stop => mislukt = {}
        BY <3>1 DEF Fouten
      <4> QED BY <2>1, <2>2, <3>1, <3>2, <3>3, <4>1, <1>t
              DEF Fouten, Bezig, Exceptie, TypeOK
    <3> QED BY <3>4, <3>5, <3>6, <3>7
  <2> QED BY <2>3, <2>4, <1>t
<1>21. ASSUME NEW a \in achterblijvers, Achterblijver(a)
       PROVE  Rollen' /\ Lezer' /\ Vlucht' /\ Fouten'
  BY <1>21, Stilstand DEF Achterblijver, invVars, runVars, threadVars, histVars,
                          begrensd
<1>22. CASE Crash
  BY <1>22, Rust DEF Crash
<1>23. CASE UNCHANGED vars
  BY <1>23, Stilstand DEF vars, invVars, dbVars, runVars, threadVars, handleVars,
                          histVars, begrensd
<1> HIDE DEF Inv
<1> QED
  BY <1>1, <1>2, <1>3, <1>4, <1>5, <1>6, <1>7, <1>8, <1>9, <1>10, <1>11, <1>12,
     <1>13, <1>14, <1>15, <1>16, <1>17, <1>18, <1>19, <1>20, <1>21, <1>22, <1>23
  DEF Next, RunStap, ThreadStap, HandleStap

(* The invariant of the two threads: who owns the call of handle, what the  *)
(* reader has read of the job table, which berichten are in flight and that *)
(* none of them comes after a failure that ends the run.                    *)
THEOREM Invariant == Spec => []Inv
<1>1. Inv /\ [Next]_vars => Inv'
  BY StapType, StapInv DEF Inv
<1> QED BY InitInv, <1>1, PTL DEF Spec

(* No bericht is lost between the reader and the pipeline thread (put,      *)
(* poll, work): InVlucht for every queue capacity and number of berichten.  *)
THEOREM NietsVerloren == Spec => []InVlucht
<1>1. Inv => InVlucht
  BY DEF Inv, Vlucht, InVlucht
<1> QED BY Invariant, <1>1, PTL

(***************************************************************************)
(* The part of RunEindigt that is about states: a reader that waits on a   *)
(* full queue has a thread that will take from it, also when that thread   *)
(* was just told to stop. It then polls once more before it looks at       *)
(* abort, and of a reader that did not see the exception yet at most one   *)
(* row is on its way: the next one goes through getQueue().                *)
(***************************************************************************)
Wachten ==
    /\ stopWhenQueueEmpty => pc \in {"join", "sluiten"}
    /\ pc = "join" => stopWhenQueueEmpty
    /\ Leest /\ abort => qe
    /\ Leest /\ inst.pipeline /\ wpc = "uit" => abort
    /\ pc = "put" /\ abort /\ wpc \in {"gepold", "uit"} => Len(queue) < Capaciteit

LEMMA WachtenGelijk ==
  ASSUME Wachten, UNCHANGED <<inst, pc, threadVars>>
  PROVE  Wachten'
BY DEF Wachten, threadVars, Leest

LEMMA StapWachten ==
  ASSUME Inv, Wachten, [Next]_vars
  PROVE  Wachten'
<1>t. /\ stopWhenQueueEmpty \in BOOLEAN /\ abort \in BOOLEAN /\ qe \in BOOLEAN
      /\ inst.pipeline \in BOOLEAN /\ queue \in Seq(Bericht) /\ Len(queue) <= Capaciteit
      /\ Len(queue) \in Nat /\ Capaciteit \in Nat \ {0}
  BY PipelineAannames, LenProperties DEF Inv, TypeOK
<1>r. Rollen
  BY DEF Inv
<1>1. ASSUME NEW modus \in Modi, StartRun(modus) PROVE Wachten'
  <2>1. /\ pc = "klaar" /\ pc' \in {"klaar", "query"}
        /\ UNCHANGED <<stopWhenQueueEmpty, abort, qe, inst>>
        /\ pc' = "query" /\ inst.pipeline => wpc' = "poll"
    BY <1>1 DEF StartRun
  <2> QED BY <2>1, <1>r DEF Wachten, Leest, Rollen
<1>2. CASE Query \/ EindeBatch \/ GetQueue \/ \E b \in Bericht : RijDirect(b)
              \/ RijGetransformeerd(b) \/ RijOnleesbaar(b)
  <2>1. /\ UNCHANGED <<inst, queue, stopWhenQueueEmpty, abort, qe, wpc>> /\ Leest
        /\ pc' \in {"rij", "handle", "getQueue", "put", "fout", "query", "opruimen"}
        /\ pc' = "put" => ~qe
    BY <1>2 DEF Query, EindeBatch, GetQueue, RijDirect, RijGetransformeerd, RijOnleesbaar,
                threadVars, begrensd, Leest
  <2> QED BY <2>1 DEF Wachten, Leest
<1>3. CASE Put
  <2>1. /\ UNCHANGED <<inst, stopWhenQueueEmpty, abort, qe, wpc>>
        /\ pc = "put" /\ pc' = "rij"
    BY <1>3 DEF Put, begrensd
  <2> QED BY <2>1 DEF Wachten, Leest
<1>4. CASE RemoveJob \/ StopWhenQueueEmpty \/ Join \/ Afbreken
  <2>1. /\ pc' \in {"stop", "sluiten", "join"}
        /\ pc' = "join" => stopWhenQueueEmpty'
        /\ pc' = "stop" => pc = "opruimen" /\ stopWhenQueueEmpty' = stopWhenQueueEmpty
    BY <1>4 DEF RemoveJob, StopWhenQueueEmpty, Join, Afbreken, threadVars
  <2> QED BY <2>1 DEF Wachten, Leest
<1>5. CASE Close \/ Crash
  <2>1. pc' = "klaar" /\ stopWhenQueueEmpty' = FALSE
    BY <1>5 DEF Close, Crash, ThreadInRust
  <2> QED BY <2>1 DEF Wachten, Leest
<1>6. CASE Poll
  <2>1. /\ UNCHANGED <<inst, pc, stopWhenQueueEmpty, abort, qe>>
        /\ wpc' = "gepold"
        /\ (queue # <<>> /\ queue' = Tail(queue)) \/ (queue = <<>> /\ queue' = queue)
    BY <1>6 DEF Poll, runVars, begrensd
  <2>2. Len(queue') < Capaciteit
    <3>1. CASE queue # <<>>
      <4>1. Len(queue') = Len(queue) - 1
        BY <1>t, <2>1, <3>1, HeadTailProperties
      <4> QED BY <1>t, <4>1
    <3>2. CASE queue = <<>>
      BY <1>t, <2>1, <3>2, EmptySeq
    <3> QED BY <3>1, <3>2
  <2> QED BY <2>1, <2>2 DEF Wachten, Leest
<1>7. CASE Check
  <2>1. /\ UNCHANGED <<inst, pc, queue, stopWhenQueueEmpty, abort, qe>>
        /\ wpc = "gepold"
        /\ \/ wpc' \in {"poll", "werk"}
           \/ wpc' = "uit" /\ (abort \/ stopWhenQueueEmpty)
    BY <1>7 DEF Check, Stoppen, runVars, begrensd
  <2> QED BY <2>1 DEF Wachten, Leest
<1>8. CASE HandleStatus
  <2>1. /\ UNCHANGED <<inst, queue, stopWhenQueueEmpty>>
        /\ inst.pipeline => /\ wpc' = "poll" /\ pc' = pc
                            /\ qe' = (qe \/ Exceptie) /\ abort' = (abort \/ Exceptie)
        /\ ~inst.pipeline => pc' \in {"fout", "rij"} /\ UNCHANGED <<qe, abort, wpc>>
    BY <1>8 DEF HandleStatus, begrensd
  <2>2. CASE inst.pipeline
    BY <1>t, <2>1, <2>2 DEF Wachten, Leest
  <2>3. CASE ~inst.pipeline
    <3>1. pc = "handle" /\ ~abort
      BY <1>8, <1>r, <2>3 DEF HandleStatus, Rollen
    <3> QED BY <2>1, <2>3, <3>1 DEF Wachten, Leest
  <2> QED BY <2>2, <2>3
<1>9. CASE \/ \E b \in Bericht : Laad(b)
           \/ \E modus \in Modi : WeigerRun(modus)
           \/ \E a \in achterblijvers : Achterblijver(a)
           \/ HandleLees \/ HandleCommit \/ HandleFout
           \/ UNCHANGED vars
  <2>1. UNCHANGED <<inst, pc, threadVars>>
    BY <1>9 DEF Laad, WeigerRun, Achterblijver, HandleLees, HandleCommit, HandleFout, vars,
                runVars, begrensd
  <2> QED BY <2>1, WachtenGelijk
<1> QED BY <1>1, <1>2, <1>3, <1>4, <1>5, <1>6, <1>7, <1>8, <1>9
        DEF Next, RunStap, ThreadStap, HandleStap

(* A reader that waits on a full queue waits for a thread that will poll    *)
(* it, and one that joins the thread has told it to stop: the two never     *)
(* wait for each other (put, getQueue, poll, stopWhenQueueEmpty).           *)
NietVergeefs ==
    /\ pc = "put" /\ Len(queue) = Capaciteit
          => wpc \in {"poll", "werk"} \/ (wpc = "gepold" /\ ~Stoppen)
    /\ pc = "join" => stopWhenQueueEmpty

THEOREM LezerKanVerder == Spec => []NietVergeefs
<1>1. Init => Inv /\ Wachten
  <2>1. Init => Wachten
    BY DEF Init, Wachten, Leest
  <2> QED BY <2>1, InitInv
<1>2. Inv /\ Wachten /\ [Next]_vars => (Inv /\ Wachten)'
  <2>1. Inv /\ [Next]_vars => Inv'
    BY StapType, StapInv DEF Inv
  <2> QED BY <2>1, StapWachten
<1>3. Inv /\ Wachten => NietVergeefs
  <2> SUFFICES ASSUME Inv, Wachten, pc = "put", Len(queue) = Capaciteit
               PROVE  wpc \in {"poll", "werk"} \/ (wpc = "gepold" /\ ~Stoppen)
    BY DEF NietVergeefs, Wachten
  <2>1. wpc \in {"uit", "poll", "gepold", "werk"}
    BY DEF Inv, TypeOK
  <2>2. inst.pipeline
    BY PipelineAannames DEF Inv, TypeOK, Rollen
  <2>3. ~(Len(queue) < Capaciteit)
    BY PipelineAannames
  <2>4. ~stopWhenQueueEmpty /\ Leest
    BY DEF Wachten, Leest
  <2>5. wpc \in {"gepold", "uit"} => ~abort
    BY <2>3 DEF Wachten
  <2>6. wpc # "uit"
    BY <2>2, <2>4, <2>5 DEF Wachten
  <2> QED BY <2>1, <2>4, <2>5, <2>6 DEF Stoppen
<1> QED BY <1>1, <1>2, <1>3, PTL DEF Spec

(***************************************************************************)
(* The abstract specification is implemented.                              *)
(***************************************************************************)
(* Nothing is selected before the first run.                                *)
LEMMA BelofteInit == Init => Belofte!Init
<1> SUFFICES ASSUME Init PROVE Belofte!Init
  OBVIOUS
<1>1. inst.stop \in BOOLEAN
  BY PipelineAannames DEF Init
<1> QED BY <1>1 DEF Init, Belofte!Init

(* A call of handle works on the oldest bericht of the run that is left,    *)
(* and when errors stop the run nothing older failed.                       *)
LEMMA OudsteEerst ==
  ASSUME Inv, Bezig
  PROVE  /\ handle.bericht \in taak \ gedaan
         /\ \A c \in taak \ gedaan : handle.bericht <= c
         /\ inst.stop => \A m \in mislukt : handle.bericht < m
<1> USE DEF Inv
<1>1. handle.bericht \in taak \ gedaan
  BY DEF Vlucht
<1>2. handle.pc # "vrij"
  BY DEF Bezig
<1>t. /\ lastJid \in Nat /\ rij \in Nat /\ unit \in Nat
      /\ handle.bericht \in Nat /\ taak \subseteq Nat
      /\ \A i \in 1..Len(queue) : queue[i] \in Nat
      /\ inst.pipeline \in BOOLEAN
  BY Getallen
<1>3. ASSUME NEW c \in taak \ gedaan PROVE handle.bericht <= c
  <2>1. CASE inst.pipeline
    <3>1. wpc = "werk" /\ unit = Geen /\ handle.bericht <= lastJid
      BY <1>2, <2>1 DEF Rollen, Vlucht
    <3>2. CASE c <= lastJid
      <4>1. c = handle.bericht \/ \E i \in 1..Len(queue) : c = queue[i]
        BY <3>1, <3>2, <1>3, ObjectVanBericht DEF Vlucht, TypeOK
      <4> QED BY <4>1, <1>2, <2>1, <1>t DEF Vlucht
    <3> QED BY <3>1, <3>2, <1>t
  <2>2. CASE ~inst.pipeline
    <3>1. pc = "handle" /\ handle.bericht = rij
      BY <1>2, <2>2 DEF Rollen, Lezer
    <3>2. c > lastJid
      BY <3>1, <2>2, <1>3 DEF Lezer, Leest
    <3>3. c < rij => c \in rs \/ c = rij
      BY <3>1, <3>2, <1>3 DEF Lezer, Leest
    <3>4. \A r \in rs : r > rij
      BY <3>1 DEF Lezer, Leest
    <3> QED BY <3>1, <3>3, <3>4, <1>t
  <2> QED BY <2>1, <2>2, <1>t
<1> QED BY <1>1, <1>3 DEF Fouten

(* Every step starts a run, tries the oldest bericht, rejects one, or is a  *)
(* stutter of the abstract specification.                                   *)
LEMMA BelofteStap ==
  ASSUME Inv, [Next]_vars
  PROVE  [Belofte!Next]_(Belofte!vars)
<1> DEFINE Stil == UNCHANGED <<taak, gedaan, mislukt, inst, runs>>
<1>0. Stil => UNCHANGED Belofte!vars
  BY DEF Belofte!vars
<1>t. taak \subseteq Bericht /\ handle \in Handles /\ runs \in Nat
  BY DEF Inv, TypeOK
<1>1. ASSUME NEW b \in Bericht, Laad(b) PROVE Stil
  BY <1>1 DEF Laad, histVars, begrensd
<1>2. ASSUME NEW modus \in Modi, StartRun(modus) \/ WeigerRun(modus)
      PROVE  Belofte!Next
  <2>1. gedaan' = {} /\ mislukt' = {} /\ runs' = runs + 1 /\ inst' = inst
    BY <1>2 DEF StartRun, WeigerRun
  <2>2. taak' \subseteq Bericht
    BY StapType DEF Inv, TypeOK
  <2> QED BY <2>1, <2>2 DEF Belofte!Next, Belofte!Kies
<1>3. ASSUME \/ Query \/ EindeBatch \/ GetQueue \/ Put \/ Join \/ Afbreken
             \/ Close \/ StopWhenQueueEmpty \/ RemoveJob
      PROVE  Stil
  BY <1>3 DEF Query, EindeBatch, GetQueue, Put, Join, Afbreken, Close,
     StopWhenQueueEmpty, RemoveJob, histVars, begrensd
<1>4. ASSUME NEW b \in Bericht, RijDirect(b) \/ RijGetransformeerd(b) PROVE Stil
  BY <1>4 DEF RijDirect, RijGetransformeerd, histVars, begrensd
<1>5. ASSUME NEW b \in Bericht, RijOnleesbaar(b)
      PROVE  Belofte!Next \/ UNCHANGED Belofte!vars
  <2>1. /\ pc = "rij" /\ b \in rs /\ gedaan' = gedaan \union {b}
        /\ mislukt' = mislukt \union {b} /\ UNCHANGED <<taak, inst, runs>>
    BY <1>5 DEF RijOnleesbaar, Eerste, begrensd
  <2>2. b \in taak /\ b > lastJid /\ (b \in gedaan => b \in mislukt)
    BY <2>1 DEF Inv, Lezer, Leest
  <2>3. CASE b \in gedaan
    <3>1. gedaan' = gedaan /\ mislukt' = mislukt
      BY <2>1, <2>2, <2>3
    <3> QED BY <2>1, <3>1 DEF Belofte!vars
  <2>4. CASE b \notin gedaan
    <3>1. taak' \ gedaan' = (taak \ gedaan) \ {b}
      BY <2>1
    <3> QED BY <2>1, <2>2, <2>4, <3>1 DEF Belofte!Next, Belofte!Keur_af
  <2> QED BY <2>3, <2>4
<1>6. ASSUME Poll \/ Check \/ HandleLees \/ HandleFout \/ Crash PROVE Stil
  BY <1>6 DEF Poll, Check, HandleLees, HandleFout, Crash, histVars, begrensd
<1>7. CASE HandleCommit
  <2> DEFINE b == handle.bericht
  <2>1. /\ Bezig /\ gedaan' = gedaan \union {b}
        /\ UNCHANGED <<taak, mislukt, inst, runs>>
    BY <1>7 DEF HandleCommit, Bezig, begrensd
  <2>2. taak' \ gedaan' = (taak \ gedaan) \ {b}
    BY <2>1
  <2>3. Belofte!Verwerk(b)
    BY <2>1, <2>2, OudsteEerst DEF Belofte!Verwerk
  <2>4. b \in Bericht
    BY <2>1, <1>t, OudsteEerst
  <2> QED BY <2>3, <2>4 DEF Belofte!Next
<1>8. CASE HandleStatus
  <2> DEFINE b == handle.bericht
  <2>1. /\ handle.pc \in {"commit", "fout"} /\ gedaan' = gedaan \union {b}
        /\ mislukt' = (IF handle.pc = "fout" THEN mislukt \union {b} ELSE mislukt)
        /\ UNCHANGED <<taak, inst, runs>>
    BY <1>8 DEF HandleStatus, begrensd
  <2>2. CASE handle.pc = "commit"
    <3>1. gedaan' = gedaan /\ mislukt' = mislukt
      BY <2>1, <2>2 DEF Inv, Vlucht
    <3> QED BY <2>1, <3>1 DEF Belofte!vars
  <2>3. CASE handle.pc = "fout"
    <3>1. b \in taak \ gedaan /\ taak' \ gedaan' = (taak \ gedaan) \ {b}
      BY <2>1, <2>3, OudsteEerst DEF Bezig
    <3>2. Belofte!Keur_af(b)
      BY <2>1, <2>3, <3>1 DEF Belofte!Keur_af
    <3> QED BY <3>1, <3>2, <1>t DEF Belofte!Next
  <2> QED BY <2>1, <2>2, <2>3
<1>9. ASSUME NEW a \in achterblijvers, Achterblijver(a) PROVE Stil
  BY <1>9 DEF Achterblijver, histVars, begrensd
<1>10. ASSUME UNCHANGED vars PROVE Stil
  BY <1>10 DEF vars, histVars, begrensd
<1> QED
  BY <1>0, <1>1, <1>2, <1>3, <1>4, <1>5, <1>6, <1>7, <1>8, <1>9, <1>10
  DEF Next, RunStap, ThreadStap, HandleStap

(* Two threads, a queue and a job table implement a run that works off its  *)
(* berichten oldest first and never goes past a failure that stops it.      *)
THEOREM ImplementeertBelofte == Spec => VolgtBelofte
<1>1. Inv /\ [Next]_vars => [Belofte!Next]_(Belofte!vars)
  BY BelofteStap
<1> QED BY BelofteInit, Invariant, <1>1, PTL DEF Spec, VolgtBelofte, Belofte!Spec
=============================================================================
