----------------------------- MODULE StagingLoad -----------------------------
(***************************************************************************)
(* Loading files of a basisregistratie into the staging database           *)
(* (StagingProxy.loadBr), by several uploads, services and scanners at     *)
(* once, while the transformation works on a copy of the berichten it      *)
(* selected and an administrator deletes laadprocessen.                    *)
(*                                                                         *)
(* loadBr works in autocommit: every statement is a step that others see,  *)
(* and the process may die between any two of them. The transformation is  *)
(* the subject of BerichtPipeline; here a run takes copies in the job      *)
(* table, reads them one by one or ahead of the pipeline thread, stores    *)
(* them and writes their status. Its order and failures are any, but no    *)
(* call of handle outlives its run.                                        *)
(***************************************************************************)
EXTENDS Naturals, Sequences, FiniteSets

CONSTANTS Bestand,      \* the files, each with its own name and date
          Inhoud,       \* their berichten: a natural key (object_ref, datum,
                        \* volgordenummer), GeenRef or Kapot
          Lader,        \* threads that may call loadBr
          GeenRef,      \* a bericht without an object_ref
          Kapot,        \* a bericht the reader cannot read
          MaxLaden,     \* bound: laadprocessen that are written
          MaxRuns,      \* bound: runs of the transformation
          MaxVerwijderd,\* bound: laadprocessen that are deleted
          MaxCrashes    \* bound: times the process dies

Sleutel == (UNION {{Inhoud[f][i] : i \in DOMAIN Inhoud[f]} : f \in Bestand})
             \ {GeenRef, Kapot}
Bericht == UNION {{<<f, i>> : i \in DOMAIN Inhoud[f]} : f \in Bestand}
Geen == <<>>

ASSUME StagingAannames ==
    /\ \A f \in Bestand : Inhoud[f] \in Seq(Sleutel \union {GeenRef, Kapot})
    /\ MaxLaden \in Nat /\ MaxRuns \in Nat /\ MaxVerwijderd \in Nat
    /\ MaxCrashes \in Nat

VARIABLES
    laadproces,   \* the table: per id the file and the status, or "WEG"
    bericht,      \* the table: per id the key, the br_xml, the status and the
                  \* laadproces, or status "WEG"
    lader,        \* the threads in loadBr
    job,          \* the job table: the copies of the berichten selected,
                  \* until removeJob or cleanJob
    run,          \* the run: "geen", "telt" (setWaitingStatus), "loopt",
                  \* or "wacht" for its pipeline thread
    gelezen,      \* the rows of the job table the run has read
    rij,          \* copies that were read and not handled yet
    bezig,        \* the copies whose status is still to be written
    rsgb,         \* per key the br_xml it was last transformed from
    verwijdert,   \* laadprocessen of which the berichten are deleted already
    (*********************** history, for properties ************************)
    ooit,         \* what was ever written in the table of berichten
    bekend,       \* what loadBr skipped: its key was transformed already
    gesloten,     \* the laadprocessen loadBr came to the end of
    kwijt,        \* keys of which a bericht was deleted
    overschreven, \* berichten of which an outdated copy was to be handled
    runs, verwijderd, crashes

stagingVars == <<laadproces, bericht>>
runVars == <<job, run, gelezen, rij, bezig>>
jobVars == <<runVars, rsgb>>
histVars == <<ooit, bekend, gesloten, kwijt, overschreven>>
grenzen == <<runs, verwijderd, crashes>>
vars == <<stagingVars, lader, jobVars, verwijdert, histVars, grenzen>>

LpStatus == {"STAGING_OK", "STAGING_NOK", "STAGING_DUPLICAAT", "WEG"}
BerichtStatus == {"STAGING_OK", "STAGING_NOK", "RSGB_OK", "RSGB_NOK", "WEG"}
Rust == [pc |-> "rust", bestand |-> "", lp |-> 0, i |-> 0, gevonden |-> 0,
         nieuw |-> FALSE, geschreven |-> FALSE, fouten |-> 0]

Lading == [pc : {"registreer", "lees", "schrijf"}, bestand : Bestand,
           lp : Nat, i : Nat \ {0}, gevonden : Nat, nieuw : BOOLEAN,
           geschreven : BOOLEAN, fouten : Nat]
Rij(lps) == [sleutel : Sleutel \union {GeenRef}, inhoud : Bericht,
             status : BerichtStatus, lp : lps]

TypeOK ==
    /\ laadproces \in Seq([bestand : Bestand, status : LpStatus])
    /\ bericht \in Seq(Rij(DOMAIN laadproces))
    /\ lader \in [Lader -> Lading \union {Rust}]
    /\ job \subseteq [id : DOMAIN bericht, inhoud : Bericht]
    /\ run \in {"geen", "telt", "loopt", "wacht"}
    /\ gelezen \subseteq job
    /\ rij \subseteq [id : DOMAIN bericht, inhoud : Bericht]
    /\ bezig \subseteq rij
    /\ rsgb \in [Sleutel -> Bericht \union {Geen}]
    /\ verwijdert \subseteq DOMAIN laadproces

Init ==
    /\ laadproces = <<>> /\ bericht = <<>>
    /\ lader = [l \in Lader |-> Rust]
    /\ job = {} /\ run = "geen" /\ gelezen = {} /\ rij = {} /\ bezig = {}
    /\ rsgb = [k \in Sleutel |-> Geen]
    /\ verwijdert = {}
    /\ ooit = {} /\ bekend = {} /\ gesloten = {} /\ kwijt = {}
    /\ overschreven = {}
    /\ runs = 0 /\ verwijderd = 0 /\ crashes = 0

Ga(l, velden) == lader' = [lader EXCEPT ![l] = velden]

(***************************************************************************)
(* loadBr up to the first bericht.                                         *)
(***************************************************************************)
LaadProcesExists(f) ==
    \E p \in DOMAIN laadproces : laadproces[p].bestand = f
                                 /\ laadproces[p].status # "WEG"

(* BrmoDuplicaatLaadprocesException changes nothing: no step.               *)
Begin(l, f) ==
    /\ lader[l].pc = "rust"
    /\ ~LaadProcesExists(f)
    /\ Ga(l, [Rust EXCEPT !.pc = "registreer", !.bestand = f, !.i = 1])
    /\ UNCHANGED <<stagingVars, jobVars, verwijdert, histVars, grenzen>>

(* writeLaadProces: STAGING_OK before anything was read. An empty file is   *)
(* BrmoLeegBestandException, its laadproces stays STAGING_OK.               *)
WriteLaadProces(l) ==
    /\ lader[l].pc = "registreer" /\ Len(laadproces) < MaxLaden
    /\ laadproces' = Append(laadproces, [bestand |-> lader[l].bestand,
                                         status |-> "STAGING_OK"])
    /\ IF Inhoud[lader[l].bestand] = <<>>
         THEN /\ Ga(l, Rust)
              /\ gesloten' = gesloten \union {Len(laadproces')}
         ELSE /\ Ga(l, [lader[l] EXCEPT !.pc = "lees",
                                        !.lp = Len(laadproces')])
              /\ UNCHANGED gesloten
    /\ UNCHANGED <<bericht, jobVars, verwijdert, ooit, bekend, kwijt,
                   overschreven, grenzen>>

(***************************************************************************)
(* The loop over the berichten: read one, look for one with its key, and   *)
(* write it.                                                               *)
(***************************************************************************)
Huidige(l) == Inhoud[lader[l].bestand][lader[l].i]
MeerBerichten(l) == lader[l].i <= Len(Inhoud[lader[l].bestand])
MetSleutel(k) == {b \in DOMAIN bericht : bericht[b].sleutel = k
                                         /\ bericht[b].status # "WEG"}

(* Mutant: an unreadable bericht is logged and not counted.                 *)
LeesKapotOngeteld(l) ==
    /\ lader[l].pc = "lees" /\ MeerBerichten(l) /\ Huidige(l) = Kapot
    /\ Ga(l, [lader[l] EXCEPT !.i = @ + 1])
    /\ UNCHANGED <<stagingVars, jobVars, verwijdert, histVars, grenzen>>

LeesKapot(l) ==
    /\ lader[l].pc = "lees" /\ MeerBerichten(l) /\ Huidige(l) = Kapot
    /\ Ga(l, [lader[l] EXCEPT !.i = @ + 1, !.fouten = @ + 1])
    /\ UNCHANGED <<stagingVars, jobVars, verwijdert, histVars, grenzen>>

(* getExistingBericht: without an object_ref nothing is equal to NULL.      *)
Lees(l) ==
    /\ lader[l].pc = "lees" /\ MeerBerichten(l) /\ Huidige(l) # Kapot
    /\ LET bestaand == IF Huidige(l) = GeenRef THEN {}
                         ELSE MetSleutel(Huidige(l))
       IN IF bestaand = {}
            THEN Ga(l, [lader[l] EXCEPT !.pc = "schrijf", !.gevonden = 0])
            ELSE \E b \in bestaand :
                   Ga(l, [lader[l] EXCEPT !.pc = "schrijf", !.gevonden = b,
                            !.nieuw = bericht[b].status = "STAGING_OK"])
    /\ UNCHANGED <<stagingVars, jobVars, verwijdert, histVars, grenzen>>

Verder(l, velden) == Ga(l, [velden EXCEPT !.pc = "lees", !.i = @ + 1,
                                         !.gevonden = 0, !.nieuw = FALSE])

(* What the database refuses: a second bericht with the key (unique index   *)
(* idx_bericht_refiddatumnr) or one of a deleted laadproces (foreign key).  *)
Geweigerd(l) ==
    \/ Huidige(l) # GeenRef /\ MetSleutel(Huidige(l)) # {}
    \/ laadproces[lader[l].lp].status = "WEG"

WriteBerichtMislukt(l) ==
    /\ lader[l].pc = "schrijf" /\ lader[l].gevonden = 0 /\ Geweigerd(l)
    /\ Verder(l, [lader[l] EXCEPT !.fouten = @ + 1])
    /\ UNCHANGED <<stagingVars, jobVars, verwijdert, histVars, grenzen>>

(* Mutant: isBerichtGeschreven is not set.                                  *)
WriteBerichtOngemerkt(l) ==
    /\ lader[l].pc = "schrijf" /\ lader[l].gevonden = 0 /\ ~Geweigerd(l)
    /\ bericht' = Append(bericht,
         [sleutel |-> Huidige(l), inhoud |-> <<lader[l].bestand, lader[l].i>>,
          status |-> IF Huidige(l) = GeenRef THEN "STAGING_NOK"
                                             ELSE "STAGING_OK",
          lp |-> lader[l].lp])
    /\ ooit' = ooit \union {<<lader[l].bestand, lader[l].i>>}
    /\ Verder(l, lader[l])
    /\ UNCHANGED <<laadproces, jobVars, verwijdert, bekend, gesloten, kwijt,
                   overschreven, grenzen>>

WriteBericht(l) ==
    /\ lader[l].pc = "schrijf" /\ lader[l].gevonden = 0 /\ ~Geweigerd(l)
    /\ bericht' = Append(bericht,
         [sleutel |-> Huidige(l), inhoud |-> <<lader[l].bestand, lader[l].i>>,
          status |-> IF Huidige(l) = GeenRef THEN "STAGING_NOK"
                                             ELSE "STAGING_OK",
          lp |-> lader[l].lp])
    /\ ooit' = ooit \union {<<lader[l].bestand, lader[l].i>>}
    /\ Verder(l, [lader[l] EXCEPT !.geschreven = TRUE])
    /\ UNCHANGED <<laadproces, jobVars, verwijdert, bekend, gesloten, kwijt,
                   overschreven, grenzen>>

(* The copies that the run, or the next one, will still handle.             *)
Openstaand == (job \ gelezen) \union rij
Ids(kopieen) == {j.id : j \in kopieen}

(* Mutant: the new br_xml is written, the status is left as it is.          *)
UpdateBerichtZonderStatus(l) ==
    /\ lader[l].pc = "schrijf" /\ lader[l].gevonden # 0 /\ lader[l].nieuw
    /\ LET b == lader[l].gevonden
           nieuw == <<lader[l].bestand, lader[l].i>>
       IN /\ bericht[b].status # "WEG"
          /\ bericht' = [bericht EXCEPT ![b].inhoud = nieuw]
          /\ ooit' = ooit \union {nieuw}
          /\ overschreven' = overschreven \union (Ids(Openstaand) \cap {b})
    /\ Verder(l, lader[l])
    /\ UNCHANGED <<laadproces, jobVars, verwijdert, bekend, gesloten, kwijt,
                   grenzen>>

(* "als bericht nog niet getransformeerd is, dan overschrijven": the row    *)
(* keeps its laadproces, and the status is that of the earlier query. When  *)
(* the row is gone the update changes nothing and does not fail.            *)
UpdateBericht(l) ==
    /\ lader[l].pc = "schrijf" /\ lader[l].gevonden # 0 /\ lader[l].nieuw
    /\ LET b == lader[l].gevonden
           nieuw == <<lader[l].bestand, lader[l].i>>
       IN IF bericht[b].status = "WEG"
            THEN UNCHANGED <<bericht, ooit, overschreven>>
            ELSE /\ bericht' = [bericht EXCEPT ![b].inhoud = nieuw,
                                               ![b].status = "STAGING_OK"]
                 /\ ooit' = ooit \union {nieuw}
                 /\ overschreven' = overschreven
                                      \union (Ids(Openstaand) \cap {b})
    /\ Verder(l, lader[l])
    /\ UNCHANGED <<laadproces, jobVars, verwijdert, bekend, gesloten, kwijt,
                   grenzen>>

SlaOver(l) ==
    /\ lader[l].pc = "schrijf" /\ lader[l].gevonden # 0 /\ ~lader[l].nieuw
    /\ bekend' = bekend \union {<<lader[l].bestand, lader[l].i>>}
    /\ Verder(l, lader[l])
    /\ UNCHANGED <<stagingVars, jobVars, verwijdert, ooit, gesloten, kwijt,
                   overschreven, grenzen>>

(* The status of the laadproces, when all berichten were seen.              *)
Uitkomst(l, status) ==
    IF lader[l].fouten > 0 THEN "STAGING_NOK"
      ELSE IF lader[l].geschreven THEN status ELSE "STAGING_DUPLICAAT"

Sluit(l) ==
    /\ lader[l].pc = "lees" /\ ~MeerBerichten(l)
    /\ LET p == lader[l].lp
       IN /\ laadproces' = [laadproces EXCEPT ![p].status =
                               IF @ = "WEG" THEN @ ELSE Uitkomst(l, @)]
          /\ gesloten' = gesloten \union {p}
    /\ Ga(l, Rust)
    /\ UNCHANGED <<bericht, jobVars, verwijdert, ooit, bekend, kwijt,
                   overschreven, grenzen>>

(***************************************************************************)
(* deleteByLaadProcesId: two statements, each its own transaction.         *)
(***************************************************************************)
VerwijderBerichten(p) ==
    /\ laadproces[p].status # "WEG" /\ p \notin verwijdert
    /\ verwijderd < MaxVerwijderd
    /\ bericht' = [b \in DOMAIN bericht |->
                     IF bericht[b].lp = p
                       THEN [bericht[b] EXCEPT !.status = "WEG"]
                       ELSE bericht[b]]
    /\ kwijt' = kwijt \union {bericht[b].sleutel :
                                b \in {c \in DOMAIN bericht : bericht[c].lp = p}}
    /\ verwijdert' = verwijdert \union {p}
    /\ verwijderd' = verwijderd + 1
    /\ UNCHANGED <<laadproces, lader, jobVars, ooit, bekend, gesloten,
                   overschreven, runs, crashes>>

(* The foreign key refuses it when berichten were loaded in between.        *)
VerwijderLaadProces(p) ==
    /\ p \in verwijdert
    /\ verwijdert' = verwijdert \ {p}
    /\ LET over == {b \in DOMAIN bericht : bericht[b].lp = p
                                           /\ bericht[b].status # "WEG"}
       IN laadproces' = IF over = {} THEN [laadproces EXCEPT ![p].status = "WEG"]
                                     ELSE laadproces
    /\ UNCHANGED <<bericht, lader, jobVars, histVars, grenzen>>

(***************************************************************************)
(* The transformation: a run copies the br_xml of the berichten to the job *)
(* table; handle stores a copy and writes the status of the bericht        *)
(* afterwards (updateBerichtProcessing leaves br_xml). The rows stay in    *)
(* the job table until removeJob, or until a later run cleans it.          *)
(***************************************************************************)
TeVerwerken == {b \in DOMAIN bericht : bericht[b].status = "STAGING_OK"}

(* setWaitingStatus begins with cleanJob: of what an earlier run left only  *)
(* the rows go that have a bericht with another status. A run that finds    *)
(* both tables without work does nothing and is not counted.                *)
StartRun ==
    /\ run = "geen" /\ runs < MaxRuns
    /\ job # {} \/ TeVerwerken # {}
    /\ job' = {j \in job : bericht[j.id].status \in {"STAGING_OK", "WEG"}}
    /\ run' = "telt"
    /\ runs' = runs + 1
    /\ UNCHANGED <<stagingVars, lader, gelezen, rij, bezig, rsgb, verwijdert,
                   histVars, verwijderd, crashes>>

(* The job table is empty: BY_STATUS fills it.                              *)
VulJob ==
    /\ run = "telt" /\ job = {} /\ TeVerwerken # {}
    /\ job' = {[id |-> b, inhoud |-> bericht[b].inhoud] : b \in TeVerwerken}
    /\ run' = "loopt"
    /\ UNCHANGED <<stagingVars, lader, gelezen, rij, bezig, rsgb, verwijdert,
                   histVars, grenzen>>

(* It is not: RETRY_WAITING goes on with what is left.                      *)
Hervat ==
    /\ run = "telt" /\ job # {}
    /\ run' = "loopt"
    /\ UNCHANGED <<stagingVars, lader, job, gelezen, rij, bezig, rsgb,
                   verwijdert, histVars, grenzen>>

(* Nothing to do, or "verwerk eerst die berichten".                         *)
NietsTeDoen ==
    /\ run = "telt"
    /\ run' = "geen"
    /\ UNCHANGED <<stagingVars, lader, job, gelezen, rij, bezig, rsgb,
                   verwijdert, histVars, grenzen>>

LeesRij(j) ==
    /\ run = "loopt" /\ j \in job \ gelezen
    /\ gelezen' = gelezen \union {j} /\ rij' = rij \union {j}
    /\ UNCHANGED <<stagingVars, lader, job, run, bezig, rsgb, verwijdert,
                   histVars, grenzen>>

(* handle commits the RSGB first; one bericht at a time.                    *)
SlaOp(j) ==
    /\ j \in rij /\ bezig = {}
    /\ rsgb' = [rsgb EXCEPT ![bericht[j.id].sleutel] = j.inhoud]
    /\ bezig' = {j}
    /\ UNCHANGED <<stagingVars, lader, job, run, gelezen, rij, verwijdert,
                   histVars, grenzen>>

SchrijfStatus(b, s) ==
    bericht' = IF bericht[b].status = "WEG" THEN bericht
                 ELSE [bericht EXCEPT ![b].status = s]

UpdateStatus(j) ==
    /\ j \in bezig
    /\ SchrijfStatus(j.id, "RSGB_OK")
    /\ bezig' = {} /\ rij' = rij \ {j}
    /\ UNCHANGED <<laadproces, lader, job, run, gelezen, rsgb, verwijdert,
                   histVars, grenzen>>

(* Mutant: a bericht fails after its data were committed.                   *)
MisluktNaCommit(j) ==
    /\ j \in rij
    /\ SchrijfStatus(j.id, "RSGB_NOK")
    /\ rij' = rij \ {j}
    /\ UNCHANGED <<laadproces, lader, job, run, gelezen, bezig, rsgb,
                   verwijdert, histVars, grenzen>>

(* A copy that cannot be transformed (by the reader) or stored.             *)
Mislukt(j) ==
    /\ j \in rij \ bezig
    /\ SchrijfStatus(j.id, "RSGB_NOK")
    /\ rij' = rij \ {j}
    /\ UNCHANGED <<laadproces, lader, job, run, gelezen, bezig, rsgb,
                   verwijdert, histVars, grenzen>>

(* "Kan status niet updaten" is only logged, whether it was stored or not.  *)
StatusNietGeschreven(j) ==
    /\ j \in rij
    /\ rij' = rij \ {j} /\ bezig' = bezig \ {j}
    /\ UNCHANGED <<stagingVars, lader, job, run, gelezen, rsgb, verwijdert,
                   histVars, grenzen>>

(* The last row was read: its copy, and more, may still be in the queue.    *)
RemoveJob ==
    /\ run = "loopt" /\ gelezen = job
    /\ job' = {} /\ gelezen' = {}
    /\ run' = "wacht"
    /\ UNCHANGED <<stagingVars, lader, rij, bezig, rsgb, verwijdert, histVars,
                   grenzen>>

(* join returns, maybe with work in the queue (BerichtPipeline).            *)
RunKlaar ==
    /\ run = "wacht" /\ bezig = {}
    /\ rij' = {}
    /\ run' = "geen"
    /\ UNCHANGED <<stagingVars, lader, job, gelezen, bezig, rsgb, verwijdert,
                   histVars, grenzen>>

(* Of what is left in the job table, a copy that is not that of the bericht *)
(* any more will be handled, again maybe, by the next run.                  *)
Verouderd == {j \in job : bericht[j.id].inhoud # j.inhoud}

(* An exception ends the run before removeJob ("anders herstart mogelijk    *)
(* maken"): a failure when the order matters, or of a connection.           *)
RunAfgebroken ==
    /\ run = "loopt" /\ bezig = {}
    /\ gelezen' = {} /\ rij' = {}
    /\ run' = "geen"
    /\ overschreven' = overschreven \union Ids(Verouderd)
    /\ UNCHANGED <<stagingVars, lader, job, bezig, rsgb, verwijdert, ooit,
                   bekend, gesloten, kwijt, grenzen>>

(* The process dies: the tables stay as they are.                           *)
Crash ==
    /\ crashes < MaxCrashes
    /\ lader' = [l \in Lader |-> Rust]
    /\ gelezen' = {} /\ rij' = {} /\ bezig' = {}
    /\ run' = "geen"
    /\ overschreven' = overschreven \union Ids(Verouderd)
    /\ verwijdert' = {}
    /\ crashes' = crashes + 1
    /\ UNCHANGED <<stagingVars, job, rsgb, ooit, bekend, gesloten, kwijt, runs,
                   verwijderd>>

Next ==
    \/ \E l \in Lader, f \in Bestand : Begin(l, f)
    \/ \E l \in Lader : \/ WriteLaadProces(l) \/ LeesKapot(l) \/ Lees(l)
                        \/ WriteBericht(l) \/ WriteBerichtMislukt(l)
                        \/ UpdateBericht(l) \/ SlaOver(l) \/ Sluit(l)
    \/ \E p \in DOMAIN laadproces : VerwijderBerichten(p)
                                    \/ VerwijderLaadProces(p)
    \/ StartRun \/ VulJob \/ Hervat \/ NietsTeDoen
    \/ \E j \in job : LeesRij(j)
    \/ \E j \in rij : \/ SlaOp(j) \/ UpdateStatus(j) \/ Mislukt(j)
                      \/ StatusNietGeschreven(j)
    \/ RemoveJob \/ RunKlaar \/ RunAfgebroken
    \/ Crash

Spec == Init /\ [][Next]_vars

(***************************************************************************)
(* Properties.                                                             *)
(***************************************************************************)
(* A bericht with status RSGB_OK has its br_xml in the RSGB, except when it *)
(* was overwritten while a copy of it was still to be handled, or when it   *)
(* was overwritten after its copy was handled and the run broke off before  *)
(* removeJob: cleanJob keeps that copy, since the bericht is STAGING_OK     *)
(* again, and the next run handles it once more. The loaders, which look at *)
(* the status in an earlier statement than the one that writes, cannot      *)
(* break this in another way while no call of handle outlives its run.      *)
InRsgb(b) == bericht[b].status = "RSGB_OK"
               => rsgb[bericht[b].sleutel] = bericht[b].inhoud
VerwerktTenzijOverschreven ==
    \A b \in DOMAIN bericht \ overschreven : InRsgb(b)

(* The same without the exception. loadBr says "als bericht nog niet        *)
(* getransformeerd is, dan overschrijven": what it overwrote is still to be *)
(* transformed.                                                             *)
VerwerkteInhoud == \A b \in DOMAIN bericht : InRsgb(b)

(* What a laadproces without errors did not put in staging was known there, *)
(* with its key transformed already, or a bericht with its key was deleted. *)
NietsVerzwegen ==
    \A p \in gesloten : LET f == laadproces[p].bestand IN
        laadproces[p].status \in {"STAGING_OK", "STAGING_DUPLICAAT"}
          => \A i \in DOMAIN Inhoud[f] : \/ <<f, i>> \in ooit \union bekend
                                         \/ Inhoud[f][i] \in kwijt

(* A laadproces is only called STAGING_DUPLICAAT when no bericht in staging *)
(* is there because of it.                                                  *)
DuplicaatBekend ==
    \A p \in DOMAIN laadproces : laadproces[p].status = "STAGING_DUPLICAAT"
        => \A b \in DOMAIN bericht : bericht[b].lp # p
=============================================================================
