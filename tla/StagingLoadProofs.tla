-------------------------- MODULE StagingLoadProofs --------------------------
(***************************************************************************)
(* Theorems about StagingLoad: a bericht is called RSGB_OK only when its   *)
(* content is in the RSGB, or it was overwritten while an outdated copy of *)
(* it was still to be handled, for any files and any number of threads,    *)
(* runs, deletions and crashes.                                            *)
(***************************************************************************)
EXTENDS StagingLoad, SequenceTheorems, TLAPS

(* Rows that are there, and what the database guarantees of their keys.     *)
Aanwezig(b) == bericht[b].status # "WEG"

Uniek ==
    \A b, c \in DOMAIN bericht :
        Aanwezig(b) /\ Aanwezig(c) /\ bericht[b].sleutel = bericht[c].sleutel
          /\ bericht[b].sleutel # GeenRef => b = c

(* A bericht without object_ref is never selected for a job.                *)
Sleutelloos ==
    \A b \in DOMAIN bericht :
        bericht[b].sleutel = GeenRef => bericht[b].status \in {"STAGING_NOK", "WEG"}

(* A thread about to write knows a readable bericht; the row it found has   *)
(* the key of that bericht.                                                 *)
LaderOK(l) ==
    /\ lader[l].pc \in {"lees", "schrijf"} => lader[l].lp \in DOMAIN laadproces
    /\ lader[l].pc = "schrijf" => /\ MeerBerichten(l) /\ Huidige(l) # Kapot
                                  /\ lader[l].gevonden # 0 =>
                                       /\ lader[l].gevonden \in DOMAIN bericht
                                       /\ bericht[lader[l].gevonden].sleutel
                                            \in Sleutel
Laders == \A l \in Lader : LaderOK(l)

(* All copies of the run: those in the job table and those in its hands. A  *)
(* copy in its hands was read from the table; none outlives its run.        *)
Kopieen == job \union rij
RunVorm ==
    /\ run \in {"geen", "telt"} => gelezen = {} /\ rij = {}
    /\ run = "loopt" => rij \subseteq gelezen
    /\ run = "wacht" => job = {}

(* A copy has a key, and is the only one with that key. No other row with   *)
(* the key was handled since the copies were taken.                         *)
JobRijen == \A j \in Kopieen : bericht[j.id].sleutel \in Sleutel
JobUniek ==
    \A j, k \in Kopieen : bericht[j.id].sleutel = bericht[k.id].sleutel => j = k
JobActueel ==
    \A j \in Kopieen : \A b \in DOMAIN bericht :
        b # j.id /\ Aanwezig(b) /\ bericht[b].sleutel = bericht[j.id].sleutel
          => bericht[b].status = "STAGING_OK"

(* A copy that the run still handles is that of a row without an outcome;   *)
(* and, in a run or left by one, of its content or of an overwritten one.   *)
Open ==
    run # "geen" =>
        \A j \in Openstaand : bericht[j.id].status \in {"STAGING_OK", "WEG"}
Kopie ==
    \A j \in Openstaand :
        j.id \notin overschreven => bericht[j.id].inhoud = j.inhoud

(* What was committed in the RSGB and is still to be recorded in staging.   *)
Vastgelegd ==
    /\ \A j \in bezig : rsgb[bericht[j.id].sleutel] = j.inhoud
    /\ \A j, k \in bezig : j = k

Data == /\ Uniek /\ Sleutelloos
        /\ RunVorm /\ JobRijen /\ JobUniek /\ JobActueel /\ Open /\ Kopie
        /\ Vastgelegd /\ VerwerktTenzijOverschreven
Inv == TypeOK /\ Laders /\ Data

(***************************************************************************)
(* Sequences and files.                                                    *)
(***************************************************************************)
(* A sequence is a function of its positions, and the other way around.     *)
LEMMA Reeks ==
    ASSUME NEW S, NEW s \in Seq(S)
    PROVE  /\ Len(s) \in Nat /\ DOMAIN s = 1..Len(s)
           /\ \A i \in DOMAIN s : s[i] \in S
  OBVIOUS

(* A function of 1..n is a sequence.                                        *)
LEMMA ReeksVan ==
    ASSUME NEW S, NEW n \in Nat, NEW s \in [1..n -> S]
    PROVE  s \in Seq(S) /\ DOMAIN s = 1..n
  BY SeqDef

(* A row more.                                                              *)
LEMMA RijErbij ==
    ASSUME NEW S, NEW s \in Seq(S), NEW e \in S
    PROVE  /\ Append(s, e) \in Seq(S)
           /\ DOMAIN Append(s, e) = DOMAIN s \union {Len(s) + 1}
           /\ Len(s) + 1 \notin DOMAIN s
           /\ Append(s, e)[Len(s) + 1] = e
           /\ \A i \in DOMAIN s : Append(s, e)[i] = s[i]
  BY AppendProperties, LenProperties

(* Keys are neither GeenRef nor Kapot.                                      *)
LEMMA SleutelFeit == GeenRef \notin Sleutel /\ Kapot \notin Sleutel
  BY DEF Sleutel

(* A thread in loadBr has a file.                                           *)
LEMMA InLading ==
    ASSUME TypeOK, NEW l \in Lader, lader[l].pc # "rust"
    PROVE  lader[l] \in Lading
  <1>1. lader[l] \in Lading \union {Rust}
    BY DEF TypeOK
  <1>2. Rust.pc = "rust"
    BY DEF Rust
  <1> QED
    BY <1>1, <1>2

(* What a thread reads is a key, GeenRef or Kapot.                          *)
LEMMA HuidigeFeit ==
    ASSUME StagingAannames, TypeOK, NEW l \in Lader, lader[l].pc # "rust",
           MeerBerichten(l)
    PROVE  /\ Huidige(l) \in Sleutel \union {GeenRef, Kapot}
           /\ <<lader[l].bestand, lader[l].i>> \in Bericht
  <1>1. lader[l] \in Lading
    BY InLading
  <1>2. /\ lader[l].bestand \in Bestand
        /\ lader[l].i \in DOMAIN Inhoud[lader[l].bestand]
    BY <1>1 DEF Lading, MeerBerichten, StagingAannames
  <1> QED
    BY <1>2 DEF Huidige, StagingAannames, Bericht

(***************************************************************************)
(* What loadBr makes of the record of a thread.                            *)
(***************************************************************************)
LEMMA BeginRecord ==
    ASSUME NEW f \in Bestand
    PROVE  \A v : v = [Rust EXCEPT !.pc = "registreer", !.bestand = f, !.i = 1]
                    => v \in Lading /\ v.pc = "registreer"
  <1>1. SUFFICES ASSUME NEW v, v = [Rust EXCEPT !.pc = "registreer",
                                                !.bestand = f, !.i = 1]
                 PROVE  v \in Lading /\ v.pc = "registreer"
    OBVIOUS
  <1>2. v = [pc |-> "registreer", bestand |-> f, lp |-> 0, i |-> 1,
             gevonden |-> 0, nieuw |-> FALSE, geschreven |-> FALSE, fouten |-> 0]
    BY <1>1 DEF Rust
  <1> QED
    BY <1>2 DEF Lading

(* An unreadable bericht is counted and passed (LeesKapot).                 *)
LEMMA KapotRecord ==
    ASSUME NEW r \in Lading
    PROVE  \A v : v = [r EXCEPT !.i = @ + 1, !.fouten = @ + 1]
                    => v \in Lading /\ v.pc = r.pc /\ v.lp = r.lp
  <1>1. SUFFICES ASSUME NEW v, v = [r EXCEPT !.i = @ + 1, !.fouten = @ + 1]
                 PROVE  v \in Lading /\ v.pc = r.pc /\ v.lp = r.lp
    OBVIOUS
  <1>2. /\ v = [r EXCEPT !.i = v.i, !.fouten = v.fouten]
        /\ v.i \in Nat \ {0} /\ v.fouten \in Nat
    BY <1>1 DEF Lading
  <1> QED
    BY <1>2 DEF Lading

(* On to the next bericht.                                                  *)
LEMMA PlusRecord ==
    ASSUME NEW r \in Lading
    PROVE  \A v : v = [r EXCEPT !.i = @ + 1] => v \in Lading /\ v.lp = r.lp
  <1>1. SUFFICES ASSUME NEW v, v = [r EXCEPT !.i = @ + 1]
                 PROVE  v \in Lading /\ v.lp = r.lp
    OBVIOUS
  <1>2. v = [r EXCEPT !.i = v.i] /\ v.i \in Nat \ {0}
    BY <1>1 DEF Lading
  <1> QED
    BY <1>2 DEF Lading

(* On to the next bericht, with nothing found (Verder).                     *)
LEMMA VerderRecord ==
    ASSUME NEW r \in Lading
    PROVE  \A v : v = [r EXCEPT !.pc = "lees", !.i = @ + 1, !.gevonden = 0,
                                !.nieuw = FALSE]
                    => v \in Lading /\ v.pc = "lees" /\ v.lp = r.lp
  <1>1. SUFFICES ASSUME NEW v, v = [r EXCEPT !.pc = "lees", !.i = @ + 1,
                                             !.gevonden = 0, !.nieuw = FALSE]
                 PROVE  v \in Lading /\ v.pc = "lees" /\ v.lp = r.lp
    OBVIOUS
  <1>2. PICK x : x = [r EXCEPT !.i = @ + 1]
    OBVIOUS
  <1>3. x \in Lading /\ x.lp = r.lp
    BY <1>2, PlusRecord
  <1>4. v = [x EXCEPT !.pc = "lees", !.gevonden = 0, !.nieuw = FALSE]
    BY <1>1, <1>2 DEF Lading
  <1> QED
    BY <1>3, <1>4 DEF Lading

(* A bericht that was refused is counted (WriteBerichtMislukt).             *)
LEMMA FoutRecord ==
    ASSUME NEW r \in Lading
    PROVE  \A v : v = [r EXCEPT !.fouten = @ + 1] => v \in Lading /\ v.lp = r.lp
  <1>1. SUFFICES ASSUME NEW v, v = [r EXCEPT !.fouten = @ + 1]
                 PROVE  v \in Lading /\ v.lp = r.lp
    OBVIOUS
  <1>2. v = [r EXCEPT !.fouten = v.fouten] /\ v.fouten \in Nat
    BY <1>1 DEF Lading
  <1> QED
    BY <1>2 DEF Lading

(* isBerichtGeschreven is set (WriteBericht).                               *)
LEMMA GeschrevenRecord ==
    ASSUME NEW r \in Lading, NEW v, v = [r EXCEPT !.geschreven = TRUE]
    PROVE  v \in Lading /\ v.lp = r.lp
  BY DEF Lading

(***************************************************************************)
(* What is left alone.                                                     *)
(***************************************************************************)
(* Rows, copies and RSGB untouched: so is what is said of them.             *)
LEMMA DataBlijft ==
    ASSUME Data, UNCHANGED <<bericht, runVars, rsgb, overschreven>>
    PROVE  Data'
  <1>1. UNCHANGED <<bericht, job, run, gelezen, rij, bezig, rsgb, overschreven>>
    BY DEF runVars
  <1>2. (Uniek /\ Sleutelloos /\ VerwerktTenzijOverschreven /\ Vastgelegd)'
    BY <1>1 DEF Data, Uniek, Sleutelloos, Vastgelegd, VerwerktTenzijOverschreven,
               InRsgb, Aanwezig
  <1>3. (RunVorm /\ JobRijen /\ JobUniek /\ JobActueel)'
    BY <1>1 DEF Data, RunVorm, Kopieen, JobRijen, JobUniek, JobActueel, Aanwezig
  <1>4. (Open /\ Kopie)'
    BY <1>1 DEF Data, Open, Kopie, Openstaand
  <1> QED
    BY <1>2, <1>3, <1>4 DEF Data

(* Rows are added and keep their key: threads that do not step keep what    *)
(* they know.                                                               *)
LEMMA LaderBlijft ==
    ASSUME NEW l \in Lader, LaderOK(l), lader'[l] = lader[l],
           DOMAIN laadproces \subseteq DOMAIN laadproces',
           DOMAIN bericht \subseteq DOMAIN bericht',
           \A b \in DOMAIN bericht : bericht'[b].sleutel = bericht[b].sleutel
    PROVE  LaderOK(l)'
  BY DEF LaderOK, MeerBerichten, Huidige

(* The new state of the thread that does.                                   *)
LEMMA Ververst ==
    ASSUME TypeOK, Laders, NEW l \in Lader, NEW v \in Lading \union {Rust},
           Ga(l, v), LaderOK(l)',
           DOMAIN laadproces \subseteq DOMAIN laadproces',
           DOMAIN bericht \subseteq DOMAIN bericht',
           \A b \in DOMAIN bericht : bericht'[b].sleutel = bericht[b].sleutel
    PROVE  /\ lader' \in [Lader -> Lading \union {Rust}]
           /\ Laders'
  <1>1. lader \in [Lader -> Lading \union {Rust}]
    BY DEF TypeOK
  <1>2. lader' = [lader EXCEPT ![l] = v]
    BY DEF Ga
  <1>3. lader' \in [Lader -> Lading \union {Rust}]
    BY <1>1, <1>2
  <1>4. ASSUME NEW m \in Lader PROVE LaderOK(m)'
    <2>1. CASE m = l
      BY <2>1
    <2>2. CASE m # l
      <3>1. lader'[m] = lader[m]
        BY <1>1, <1>2, <2>2
      <3> QED
        BY <3>1, LaderBlijft DEF Laders
    <2> QED
      BY <2>1, <2>2
  <1> QED
    BY <1>3, <1>4 DEF Laders

(* A thread steps and no table changes.                                     *)
LEMMA AlleenLader ==
    ASSUME Inv, NEW l \in Lader, NEW v \in Lading \union {Rust}, Ga(l, v),
           LaderOK(l)', UNCHANGED <<stagingVars, jobVars, verwijdert,
                                    overschreven>>
    PROVE  Inv'
  <1>1. UNCHANGED <<laadproces, bericht, job, run, gelezen, rij, bezig, rsgb,
                    verwijdert, overschreven, runVars>>
    BY DEF stagingVars, jobVars, runVars
  <1>2. Data'
    BY <1>1, DataBlijft DEF Inv
  <1>3. lader' \in [Lader -> Lading \union {Rust}] /\ Laders'
    BY <1>1, Ververst DEF Inv
  <1>4. TypeOK'
    BY <1>1, <1>3 DEF Inv, TypeOK
  <1> QED
    BY <1>2, <1>3, <1>4 DEF Inv

(***************************************************************************)
(* One lemma per action.                                                   *)
(***************************************************************************)
LEMMA InitInv ==
    ASSUME Init
    PROVE  Inv
  <1>1. TypeOK
    BY DEF Init, TypeOK, Rij
  <1>2. Laders
    BY DEF Init, Laders, LaderOK, Rust
  <1>3. Data
    BY DEF Init, Data, Uniek, Sleutelloos, RunVorm, Kopieen, JobRijen, JobUniek,
           JobActueel, Openstaand, Open, Kopie, Vastgelegd,
           VerwerktTenzijOverschreven
  <1> QED
    BY <1>1, <1>2, <1>3 DEF Inv

(* loadBr starts: the thread has a file and nothing else.                   *)
LEMMA BeginInv ==
    ASSUME Inv, NEW l \in Lader, NEW f \in Bestand, Begin(l, f)
    PROVE  Inv'
  <1>1. PICK v : v = [Rust EXCEPT !.pc = "registreer", !.bestand = f, !.i = 1]
    OBVIOUS
  <1>2. v \in Lading /\ v.pc = "registreer"
    BY <1>1, BeginRecord
  <1>3. Ga(l, v)
    BY <1>1 DEF Begin
  <1>4. lader'[l] = v
    BY <1>3 DEF Ga, Inv, TypeOK
  <1>5. LaderOK(l)'
    BY <1>2, <1>4 DEF LaderOK
  <1> QED
    BY <1>2, <1>3, <1>5, AlleenLader DEF Begin, histVars

(* An unreadable bericht touches no table.                                  *)
LEMMA LeesKapotInv ==
    ASSUME Inv, NEW l \in Lader, LeesKapot(l)
    PROVE  Inv'
  <1>1. lader[l] \in Lading
    BY InLading DEF LeesKapot, Inv
  <1>2. PICK v : v = [lader[l] EXCEPT !.i = @ + 1, !.fouten = @ + 1]
    OBVIOUS
  <1>3. v \in Lading /\ v.pc = lader[l].pc /\ v.lp = lader[l].lp
    BY <1>1, <1>2, KapotRecord
  <1>4. Ga(l, v)
    BY <1>2 DEF LeesKapot
  <1>5. lader'[l] = v
    BY <1>4 DEF Ga, Inv, TypeOK
  <1>6. UNCHANGED laadproces
    BY DEF LeesKapot, stagingVars
  <1>7. LaderOK(l)'
    BY <1>3, <1>5, <1>6 DEF LaderOK, LeesKapot, Inv, Laders
  <1> QED
    BY <1>3, <1>4, <1>7, AlleenLader DEF LeesKapot, histVars

(* What getExistingBericht finds has the key of the bericht in hand.        *)
LEMMA LeesInv ==
    ASSUME StagingAannames, Inv, NEW l \in Lader, Lees(l)
    PROVE  Inv'
  <1>1. lader[l] \in Lading
    BY InLading DEF Lees, Inv
  <1>2. PICK v : \E b \in DOMAIN bericht \union {0}, n \in BOOLEAN :
           /\ Ga(l, v)
           /\ v = [lader[l] EXCEPT !.pc = "schrijf", !.gevonden = b,
                                   !.nieuw = n]
           /\ b # 0 => bericht[b].sleutel \in Sleutel
    <2> DEFINE bestaand == IF Huidige(l) = GeenRef THEN {}
                             ELSE MetSleutel(Huidige(l))
    <2>1. CASE bestaand = {}
      <3>1. PICK v : v = [lader[l] EXCEPT !.pc = "schrijf", !.gevonden = 0]
        OBVIOUS
      <3>2. Ga(l, v)
        BY <2>1, <3>1 DEF Lees
      <3>3. /\ lader[l].nieuw \in BOOLEAN
            /\ v = [lader[l] EXCEPT !.pc = "schrijf", !.gevonden = 0,
                                    !.nieuw = lader[l].nieuw]
        BY <1>1, <3>1 DEF Lading
      <3> QED
        BY <3>2, <3>3
    <2>2. CASE bestaand # {}
      <3>1. PICK b \in bestaand :
               Ga(l, [lader[l] EXCEPT !.pc = "schrijf", !.gevonden = b,
                         !.nieuw = bericht[b].status = "STAGING_OK"])
        BY <2>2 DEF Lees
      <3>2. /\ b \in DOMAIN bericht
            /\ bericht[b].sleutel = Huidige(l)
            /\ Huidige(l) # GeenRef
        BY <2>2 DEF MetSleutel
      <3>3. Huidige(l) \in Sleutel
        BY <3>2, HuidigeFeit DEF Lees, Inv
      <3> QED
        BY <3>1, <3>2, <3>3
    <2> QED
      BY <2>1, <2>2
  <1>0. PICK b \in DOMAIN bericht \union {0}, n \in BOOLEAN :
           /\ v = [lader[l] EXCEPT !.pc = "schrijf", !.gevonden = b,
                                   !.nieuw = n]
           /\ b # 0 => bericht[b].sleutel \in Sleutel
    BY <1>2
  <1>3. b \in Nat
    BY Reeks DEF Inv, TypeOK
  <1>4. /\ v \in Lading /\ v.pc = "schrijf" /\ v.lp = lader[l].lp
        /\ v.bestand = lader[l].bestand /\ v.i = lader[l].i /\ v.gevonden = b
    <2>1. PICK r \in Lading : r = lader[l]
      BY <1>1
    <2>2. v = [r EXCEPT !.pc = "schrijf", !.gevonden = b, !.nieuw = n]
      BY <1>0, <2>1
    <2>3. /\ v \in Lading /\ v.pc = "schrijf" /\ v.lp = r.lp
          /\ v.bestand = r.bestand /\ v.i = r.i /\ v.gevonden = b
      BY <1>3, <2>2 DEF Lading
    <2> QED
      BY <2>1, <2>3
  <1>5. lader'[l] = v
    BY <1>2 DEF Ga, Inv, TypeOK
  <1>6. UNCHANGED <<laadproces, bericht>>
    BY DEF Lees, stagingVars
  <1>7. LaderOK(l)'
    BY <1>0, <1>4, <1>5, <1>6 DEF LaderOK, Lees, Inv, Laders, MeerBerichten, Huidige
  <1> QED
    BY <1>2, <1>4, <1>7, AlleenLader DEF Lees, histVars

(* The thread goes on with the next bericht.                                *)
LEMMA Volgende ==
    ASSUME Inv, NEW l \in Lader, lader[l].pc = "schrijf",
           NEW w \in Lading, w.lp = lader[l].lp, Verder(l, w),
           DOMAIN laadproces \subseteq DOMAIN laadproces',
           DOMAIN bericht \subseteq DOMAIN bericht',
           \A b \in DOMAIN bericht : bericht'[b].sleutel = bericht[b].sleutel
    PROVE  /\ lader' \in [Lader -> Lading \union {Rust}]
           /\ Laders'
  <1>1. PICK v : v = [w EXCEPT !.pc = "lees", !.i = @ + 1, !.gevonden = 0,
                               !.nieuw = FALSE]
    OBVIOUS
  <1>2. v \in Lading /\ v.pc = "lees" /\ v.lp = lader[l].lp
    BY <1>1, VerderRecord
  <1>3. Ga(l, v)
    BY <1>1 DEF Verder
  <1>4. lader'[l] = v
    BY <1>3 DEF Ga, Inv, TypeOK
  <1>5. LaderOK(l)'
    BY <1>2, <1>4 DEF LaderOK, Inv, Laders
  <1> QED
    BY <1>2, <1>3, <1>5, Ververst DEF Inv

(* It does, and no table changes.                                           *)
LEMMA VolgendeAlleen ==
    ASSUME Inv, NEW l \in Lader, lader[l].pc = "schrijf",
           NEW w \in Lading, w.lp = lader[l].lp, Verder(l, w),
           UNCHANGED <<stagingVars, jobVars, verwijdert, overschreven>>
    PROVE  Inv'
  <1>1. UNCHANGED <<laadproces, bericht, job, run, gelezen, rij, bezig, rsgb,
                    verwijdert, overschreven, runVars>>
    BY DEF stagingVars, jobVars, runVars
  <1>2. lader' \in [Lader -> Lading \union {Rust}] /\ Laders'
    BY <1>1, Volgende
  <1>3. Data'
    BY <1>1, DataBlijft DEF Inv
  <1>4. TypeOK'
    BY <1>1, <1>2 DEF Inv, TypeOK
  <1> QED
    BY <1>2, <1>3, <1>4 DEF Inv

(* An insert that is refused touches no table.                              *)
LEMMA WriteBerichtMisluktInv ==
    ASSUME Inv, NEW l \in Lader, WriteBerichtMislukt(l)
    PROVE  Inv'
  <1>1. lader[l] \in Lading
    BY InLading DEF WriteBerichtMislukt, Inv
  <1>2. PICK w : w = [lader[l] EXCEPT !.fouten = @ + 1]
    OBVIOUS
  <1>3. w \in Lading /\ w.lp = lader[l].lp
    BY <1>1, <1>2, FoutRecord
  <1>4. Verder(l, w)
    BY <1>2 DEF WriteBerichtMislukt
  <1> QED
    BY <1>3, <1>4, VolgendeAlleen DEF WriteBerichtMislukt, histVars

(* A bericht that was transformed already is left alone.                    *)
LEMMA SlaOverInv ==
    ASSUME Inv, NEW l \in Lader, SlaOver(l)
    PROVE  Inv'
  <1>1. lader[l] \in Lading
    BY InLading DEF SlaOver, Inv
  <1> QED
    BY <1>1, VolgendeAlleen DEF SlaOver

(* More laadprocessen, and a bericht is still that of one of them.          *)
LEMMA RijRuimer ==
    ASSUME NEW D, NEW E, D \subseteq E, NEW s \in Seq(Rij(D))
    PROVE  s \in Seq(Rij(E))
  <1>1. Rij(D) \subseteq Rij(E)
    BY DEF Rij
  <1> QED
    BY <1>1

(* A row is replaced.                                                       *)
LEMMA RijAnders ==
    ASSUME NEW S, NEW s \in Seq(S), NEW i \in DOMAIN s, NEW e \in S,
           NEW t, t = [s EXCEPT ![i] = e]
    PROVE  /\ t \in Seq(S) /\ DOMAIN t = DOMAIN s
           /\ t[i] = e /\ \A k \in DOMAIN s : k # i => t[k] = s[k]
  BY ExceptSeq

(* A thread outside loadBr.                                                 *)
LEMMA RustFeit == Rust.pc = "rust"
  BY DEF Rust

(* A thread that is not in loadBr knows nothing.                            *)
LEMMA RustKlaar ==
    ASSUME NEW l \in Lader, lader'[l] = Rust
    PROVE  LaderOK(l)'
  <1>1. lader'[l].pc = "rust"
    BY RustFeit
  <1> QED
    BY <1>1 DEF LaderOK

(* A laadproces more; the thread knows its id, or is done with an empty file. *)
LEMMA WriteLaadProcesInv ==
    ASSUME Inv, NEW l \in Lader, WriteLaadProces(l)
    PROVE  Inv'
  <1>1. lader[l] \in Lading
    BY InLading DEF WriteLaadProces, Inv
  <1>2. UNCHANGED <<bericht, job, run, gelezen, rij, bezig, rsgb, verwijdert,
                    overschreven, runVars>>
    BY DEF WriteLaadProces, jobVars, runVars
  <1>3. /\ laadproces' \in Seq([bestand : Bestand, status : LpStatus])
        /\ DOMAIN laadproces \subseteq DOMAIN laadproces'
        /\ Len(laadproces') \in DOMAIN laadproces'
    <2> DEFINE e == [bestand |-> lader[l].bestand, status |-> "STAGING_OK"]
    <2>1. laadproces' = Append(laadproces, e)
      BY DEF WriteLaadProces
    <2>2. e \in [bestand : Bestand, status : LpStatus]
      BY <1>1 DEF Lading, LpStatus
    <2>3. laadproces \in Seq([bestand : Bestand, status : LpStatus])
      BY DEF Inv, TypeOK
    <2> HIDE DEF e
    <2>4. /\ laadproces' \in Seq([bestand : Bestand, status : LpStatus])
          /\ DOMAIN laadproces \subseteq DOMAIN laadproces'
      BY <2>1, <2>2, <2>3, RijErbij
    <2>5. Len(laadproces') \in 1..Len(laadproces')
      BY <2>1, <2>2, <2>3, AppendProperties, LenProperties
    <2> QED
      BY <2>4, <2>5, LenProperties
  <1>4. bericht' \in Seq(Rij(DOMAIN laadproces'))
    BY <1>2, <1>3, RijRuimer DEF Inv, TypeOK
  <1>5. lader' \in [Lader -> Lading \union {Rust}] /\ Laders'
    <2>1. CASE Inhoud[lader[l].bestand] = <<>>
      <3>1. Ga(l, Rust)
        BY <2>1 DEF WriteLaadProces
      <3>2. lader'[l] = Rust
        BY <3>1 DEF Ga, Inv, TypeOK
      <3>3. LaderOK(l)'
        BY <3>2, RustKlaar
      <3> QED
        BY <1>2, <1>3, <3>1, <3>3, Ververst DEF Inv
    <2>2. CASE Inhoud[lader[l].bestand] # <<>>
      <3>1. PICK v : v = [lader[l] EXCEPT !.pc = "lees",
                                          !.lp = Len(laadproces')]
        OBVIOUS
      <3>2. Len(laadproces') \in Nat
        BY <1>3, LenProperties
      <3>3. v \in Lading /\ v.pc = "lees" /\ v.lp = Len(laadproces')
        BY <1>1, <3>1, <3>2 DEF Lading
      <3>4. Ga(l, v)
        BY <2>2, <3>1 DEF WriteLaadProces
      <3>5. lader'[l] = v
        BY <3>4 DEF Ga, Inv, TypeOK
      <3>6. LaderOK(l)'
        BY <1>3, <3>3, <3>5 DEF LaderOK
      <3> QED
        BY <1>2, <1>3, <3>3, <3>4, <3>6, Ververst DEF Inv
    <2> QED
      BY <2>1, <2>2
  <1>6. TypeOK'
    BY <1>2, <1>3, <1>4, <1>5 DEF Inv, TypeOK
  <1> QED
    BY <1>2, <1>5, <1>6, DataBlijft DEF Inv

(* A laadproces gets another status.                                        *)
LpRij == [bestand : Bestand, status : LpStatus]

(* A laadproces has a status.                                               *)
LEMMA LpFeit ==
    ASSUME TypeOK, NEW p \in DOMAIN laadproces
    PROVE  laadproces[p] \in LpRij /\ laadproces[p].status \in LpStatus
  <1>1. laadproces \in Seq(LpRij)
    BY DEF TypeOK, LpRij
  <1>2. laadproces[p] \in LpRij
    BY <1>1, Reeks
  <1> QED
    BY <1>2 DEF LpRij

(* Only the status of one laadproces changes.                               *)
LEMMA StatusLaadproces ==
    ASSUME TypeOK, NEW p \in DOMAIN laadproces, NEW st \in LpStatus,
           NEW t, t = [laadproces EXCEPT ![p].status = st]
    PROVE  /\ t \in Seq([bestand : Bestand, status : LpStatus])
           /\ DOMAIN t = DOMAIN laadproces
  <1>1. laadproces \in Seq(LpRij)
    BY DEF TypeOK, LpRij
  <1>2. PICK e : e = [laadproces[p] EXCEPT !.status = st]
    OBVIOUS
  <1>3. e \in LpRij
    BY <1>2, LpFeit DEF LpRij
  <1>4. t = [laadproces EXCEPT ![p] = e]
    BY <1>2
  <1>5. t \in Seq(LpRij) /\ DOMAIN t = DOMAIN laadproces
    BY <1>1, <1>3, <1>4, RijAnders
  <1> QED
    BY <1>5 DEF LpRij

(* The status of the laadproces is written at the end of loadBr.            *)
LEMMA SluitInv ==
    ASSUME Inv, NEW l \in Lader, Sluit(l)
    PROVE  Inv'
  <1>1. lader[l].lp \in DOMAIN laadproces
    BY DEF Sluit, Inv, Laders, LaderOK
  <1>2. UNCHANGED <<bericht, job, run, gelezen, rij, bezig, rsgb, verwijdert,
                    overschreven, runVars>>
    BY DEF Sluit, jobVars, runVars
  <1>3. PICK st \in LpStatus :
          laadproces' = [laadproces EXCEPT ![lader[l].lp].status = st]
    <2>1. laadproces[lader[l].lp].status \in LpStatus
      BY <1>1, LpFeit DEF Inv
    <2>2. Uitkomst(l, laadproces[lader[l].lp].status) \in LpStatus
      BY <2>1 DEF Uitkomst, LpStatus
    <2> QED
      BY <2>1, <2>2 DEF Sluit
  <1>4. /\ laadproces' \in Seq([bestand : Bestand, status : LpStatus])
        /\ DOMAIN laadproces' = DOMAIN laadproces
    BY <1>1, <1>3, StatusLaadproces DEF Inv
  <1>5. lader' \in [Lader -> Lading \union {Rust}] /\ Laders'
    <2>1. Ga(l, Rust)
      BY DEF Sluit
    <2>2. lader'[l] = Rust
      BY <2>1 DEF Ga, Inv, TypeOK
    <2>3. LaderOK(l)'
      BY <2>2, RustKlaar
    <2> QED
      BY <1>2, <1>4, <2>1, <2>3, Ververst DEF Inv
  <1>6. TypeOK'
    BY <1>2, <1>4, <1>5 DEF Inv, TypeOK
  <1> QED
    BY <1>2, <1>5, <1>6, DataBlijft DEF Inv

(* A laadproces without berichten is deleted, or stays.                     *)
LEMMA VerwijderLaadProcesInv ==
    ASSUME Inv, NEW p \in DOMAIN laadproces, VerwijderLaadProces(p)
    PROVE  Inv'
  <1>1. UNCHANGED <<bericht, lader, job, run, gelezen, rij, bezig, rsgb,
                    overschreven, runVars>>
    BY DEF VerwijderLaadProces, jobVars, runVars, histVars
  <1>2. verwijdert' \subseteq DOMAIN laadproces
    BY DEF VerwijderLaadProces, Inv, TypeOK
  <1>3. /\ laadproces' \in Seq([bestand : Bestand, status : LpStatus])
        /\ DOMAIN laadproces' = DOMAIN laadproces
    <2>1. "WEG" \in LpStatus
      BY DEF LpStatus
    <2>2. CASE laadproces' = [laadproces EXCEPT ![p].status = "WEG"]
      BY <2>1, <2>2, StatusLaadproces DEF Inv
    <2>3. CASE laadproces' = laadproces
      BY <2>3 DEF Inv, TypeOK
    <2> QED
      BY <2>2, <2>3 DEF VerwijderLaadProces
  <1>4. TypeOK'
    BY <1>1, <1>2, <1>3 DEF Inv, TypeOK
  <1>5. Laders'
    <2>1. ASSUME NEW l \in Lader PROVE LaderOK(l)'
      BY <1>1, <1>3, LaderBlijft DEF Inv, Laders
    <2> QED
      BY <2>1 DEF Laders
  <1> QED
    BY <1>1, <1>4, <1>5, DataBlijft DEF Inv

(***************************************************************************)
(* What happens to the rows of the table of berichten.                     *)
(***************************************************************************)
(* A row, and what it says.                                                 *)
LEMMA RijFeit ==
    ASSUME TypeOK, NEW b \in DOMAIN bericht
    PROVE  /\ bericht[b] \in Rij(DOMAIN laadproces)
           /\ bericht[b].sleutel \in Sleutel \union {GeenRef}
           /\ bericht[b].inhoud \in Bericht
           /\ bericht[b].status \in BerichtStatus
  <1>1. bericht[b] \in Rij(DOMAIN laadproces)
    BY Reeks DEF TypeOK
  <1> QED
    BY <1>1 DEF Rij

(* A copy is that of a row.                                                 *)
LEMMA JobFeit ==
    ASSUME TypeOK
    PROVE  /\ \A j \in Kopieen : j.id \in DOMAIN bericht /\ j.inhoud \in Bericht
           /\ Openstaand \subseteq Kopieen /\ rij \subseteq Kopieen
           /\ bezig \subseteq rij
  BY DEF TypeOK, Kopieen, Openstaand

(* Deleting rows breaks nothing.                                            *)
LEMMA VerwijderBerichtenInv ==
    ASSUME Inv, NEW p \in DOMAIN laadproces, VerwijderBerichten(p)
    PROVE  Inv'
  <1>1. UNCHANGED <<laadproces, lader, job, run, gelezen, rij, bezig, rsgb,
                    overschreven>>
    BY DEF VerwijderBerichten, jobVars, runVars
  <1>2. verwijdert' \subseteq DOMAIN laadproces
    BY DEF VerwijderBerichten, Inv, TypeOK
  <1>3. /\ DOMAIN bericht' = DOMAIN bericht
        /\ \A b \in DOMAIN bericht :
             \/ bericht'[b] = bericht[b]
             \/ bericht'[b] = [bericht[b] EXCEPT !.status = "WEG"]
    BY DEF VerwijderBerichten
  <1>4. ASSUME NEW b \in DOMAIN bericht
        PROVE  /\ bericht'[b] \in Rij(DOMAIN laadproces)
               /\ bericht'[b].sleutel = bericht[b].sleutel
               /\ bericht'[b].inhoud = bericht[b].inhoud
               /\ bericht'[b].status \in {bericht[b].status, "WEG"}
    <2>1. bericht[b] \in Rij(DOMAIN laadproces)
      BY RijFeit DEF Inv
    <2> QED
      BY <1>3, <2>1 DEF Rij, BerichtStatus
  <1>5. bericht' \in Seq(Rij(DOMAIN laadproces'))
    <2>1. DOMAIN bericht = 1..Len(bericht) /\ Len(bericht) \in Nat
      BY Reeks DEF Inv, TypeOK
    <2>2. bericht' \in [1..Len(bericht) -> Rij(DOMAIN laadproces)]
      BY <1>4, <2>1 DEF VerwijderBerichten
    <2> QED
      BY <1>1, <2>1, <2>2, ReeksVan
  <1>6. TypeOK'
    BY <1>1, <1>2, <1>3, <1>5 DEF Inv, TypeOK
  <1>7. Laders'
    <2>1. ASSUME NEW l \in Lader PROVE LaderOK(l)'
      BY <1>1, <1>3, <1>4, LaderBlijft DEF Inv, Laders
    <2> QED
      BY <2>1 DEF Laders
  <1>8. /\ Kopieen' = Kopieen /\ Openstaand' = Openstaand
        /\ \A j \in Kopieen : j.id \in DOMAIN bericht
        /\ Openstaand \subseteq Kopieen /\ bezig \subseteq Kopieen
    BY <1>1, JobFeit DEF Inv, Kopieen, Openstaand
  <1>9. Data'
    <2>1. Uniek'
      BY <1>3, <1>4 DEF Inv, Data, Uniek, Aanwezig
    <2>2. Sleutelloos'
      BY <1>3, <1>4 DEF Inv, Data, Sleutelloos
    <2>3. JobRijen'
      BY <1>1, <1>4, <1>8 DEF Inv, Data, JobRijen
    <2>4. JobUniek'
      BY <1>1, <1>4, <1>8 DEF Inv, Data, JobUniek
    <2>5. JobActueel'
      BY <1>1, <1>3, <1>4, <1>8 DEF Inv, Data, JobActueel, Aanwezig
    <2>6. Open' /\ Kopie'
      BY <1>1, <1>4, <1>8 DEF Inv, Data, Open, Kopie
    <2>7. Vastgelegd'
      BY <1>1, <1>4, <1>8 DEF Inv, Data, Vastgelegd
    <2>8. VerwerktTenzijOverschreven'
      BY <1>1, <1>3, <1>4 DEF Inv, Data, VerwerktTenzijOverschreven, InRsgb
    <2>9. RunVorm'
      BY <1>1 DEF Inv, Data, RunVorm
    <2> QED
      BY <2>1, <2>2, <2>3, <2>4, <2>5, <2>6, <2>7, <2>8, <2>9 DEF Data
  <1> QED
    BY <1>6, <1>7, <1>9 DEF Inv

(***************************************************************************)
(* The transformation.                                                     *)
(***************************************************************************)
(* A step of the run that adds no copy and leaves the tables alone.         *)
LEMMA RunStap ==
    ASSUME Inv, UNCHANGED <<laadproces, bericht, rsgb>>,
           lader' \in [Lader -> Lading \union {Rust}],
           \A l \in Lader : lader'[l] \in {lader[l], Rust},
           verwijdert' \subseteq verwijdert,
           job' \subseteq job, gelezen' \subseteq job', rij' \subseteq Kopieen,
           bezig' \subseteq bezig, bezig' \subseteq rij',
           run' \in {"geen", "telt", "loopt", "wacht"},
           overschreven \subseteq overschreven',
           RunVorm', Open', Kopie'
    PROVE  Inv'
  <1>1. Kopieen' \subseteq Kopieen
    BY DEF Kopieen
  <1>2. TypeOK'
    <2>1. rij' \subseteq [id : DOMAIN bericht', inhoud : Bericht]
      BY DEF Inv, TypeOK, Kopieen
    <2>2. job' \subseteq [id : DOMAIN bericht', inhoud : Bericht]
      BY DEF Inv, TypeOK
    <2> QED
      BY <2>1, <2>2 DEF Inv, TypeOK
  <1>3. Laders'
    <2>1. ASSUME NEW l \in Lader PROVE LaderOK(l)'
      BY LaderBlijft, RustKlaar DEF Inv, Laders
    <2> QED
      BY <2>1 DEF Laders
  <1>4. (Uniek /\ Sleutelloos)'
    BY DEF Inv, Data, Uniek, Sleutelloos, Aanwezig
  <1>5. (JobRijen /\ JobUniek)'
    BY <1>1 DEF Inv, Data, JobRijen, JobUniek
  <1>6. JobActueel'
    BY <1>1 DEF Inv, Data, JobActueel, Aanwezig
  <1>7. (Vastgelegd /\ VerwerktTenzijOverschreven)'
    BY DEF Inv, Data, Vastgelegd, VerwerktTenzijOverschreven, InRsgb
  <1> QED
    BY <1>2, <1>3, <1>4, <1>5, <1>6, <1>7 DEF Inv, Data

(* cleanJob leaves the copies of which the bericht has no outcome.          *)
LEMMA StartRunInv ==
    ASSUME Inv, StartRun
    PROVE  Inv'
  <1>1. /\ UNCHANGED <<laadproces, bericht, lader, gelezen, rij, bezig, rsgb,
                       verwijdert, overschreven>>
        /\ run = "geen" /\ run' = "telt"
    BY DEF StartRun, stagingVars, histVars
  <1>2. gelezen = {} /\ rij = {} /\ bezig = {}
    BY <1>1 DEF Inv, Data, RunVorm, TypeOK
  <1>3. /\ job' \subseteq job
        /\ \A j \in job' : bericht[j.id].status \in {"STAGING_OK", "WEG"}
    BY DEF StartRun
  <1>4. Openstaand' = job' /\ Openstaand = job
    BY <1>1, <1>2 DEF Openstaand
  <1>5. RunVorm'
    BY <1>1, <1>2 DEF RunVorm
  <1>6. Open'
    BY <1>1, <1>3, <1>4 DEF Open
  <1>7. Kopie'
    BY <1>1, <1>3, <1>4 DEF Inv, Data, Kopie
  <1> QED
    BY <1>1, <1>2, <1>3, <1>5, <1>6, <1>7, RunStap DEF Inv, TypeOK

(* A run begins with what is left, or has nothing to do.                    *)
LEMMA HervatInv ==
    ASSUME Inv, Hervat \/ NietsTeDoen
    PROVE  Inv'
  <1>1. /\ UNCHANGED <<laadproces, bericht, lader, job, gelezen, rij, bezig, rsgb,
                       verwijdert, overschreven>>
        /\ run = "telt" /\ run' \in {"loopt", "geen"}
    BY DEF Hervat, NietsTeDoen, stagingVars, histVars
  <1>2. gelezen = {} /\ rij = {} /\ bezig = {}
    BY <1>1 DEF Inv, Data, RunVorm, TypeOK
  <1>3. RunVorm'
    BY <1>1, <1>2 DEF RunVorm
  <1>4. (Open /\ Kopie)'
    BY <1>1 DEF Inv, Data, Open, Kopie, Openstaand
  <1> QED
    BY <1>1, <1>2, <1>3, <1>4, RunStap DEF Inv, TypeOK

(* A copy goes from the job table to the hands of the run.                  *)
LEMMA LeesRijInv ==
    ASSUME Inv, NEW j \in job, LeesRij(j)
    PROVE  Inv'
  <1>1. /\ UNCHANGED <<laadproces, bericht, lader, job, run, bezig, rsgb,
                       verwijdert, overschreven>>
        /\ run = "loopt" /\ gelezen' = gelezen \union {j}
        /\ rij' = rij \union {j}
    BY DEF LeesRij, stagingVars, histVars
  <1>2. Openstaand' = Openstaand
    <2>1. j \notin gelezen
      BY DEF LeesRij
    <2> QED
      BY <1>1, <2>1 DEF Openstaand
  <1>3. RunVorm'
    BY <1>1 DEF Inv, Data, RunVorm
  <1>4. (Open /\ Kopie)'
    BY <1>1, <1>2 DEF Inv, Data, Open, Kopie
  <1>5. rij' \subseteq Kopieen /\ gelezen' \subseteq job'
    BY <1>1 DEF Inv, TypeOK, Kopieen
  <1>6. bezig' \subseteq bezig /\ bezig' \subseteq rij'
    BY <1>1 DEF Inv, TypeOK
  <1> QED
    BY <1>1, <1>3, <1>4, <1>5, <1>6, RunStap DEF Inv, TypeOK

(* The status is not written: the copy is out of the hands of the run.      *)
LEMMA StatusNietGeschrevenInv ==
    ASSUME Inv, NEW j \in rij, StatusNietGeschreven(j)
    PROVE  Inv'
  <1>1. /\ UNCHANGED <<laadproces, bericht, lader, job, run, gelezen, rsgb,
                       verwijdert, overschreven>>
        /\ rij' = rij \ {j} /\ bezig' = bezig \ {j}
    BY DEF StatusNietGeschreven, stagingVars, histVars
  <1>2. Openstaand' \subseteq Openstaand
    BY <1>1 DEF Openstaand
  <1>3. RunVorm'
    BY <1>1 DEF Inv, Data, RunVorm
  <1>4. (Open /\ Kopie)'
    BY <1>1, <1>2 DEF Inv, Data, Open, Kopie
  <1>5. rij' \subseteq Kopieen /\ bezig' \subseteq rij'
    BY <1>1 DEF Inv, TypeOK, Kopieen
  <1> QED
    BY <1>1, <1>3, <1>4, <1>5, RunStap DEF Inv, TypeOK

(* removeJob: all rows were read, the run has what it still handles.        *)
LEMMA RemoveJobInv ==
    ASSUME Inv, RemoveJob
    PROVE  Inv'
  <1>1. /\ UNCHANGED <<laadproces, bericht, lader, rij, bezig, rsgb, verwijdert,
                       overschreven>>
        /\ run = "loopt" /\ run' = "wacht"
        /\ gelezen = job /\ job' = {} /\ gelezen' = {}
    BY DEF RemoveJob, stagingVars, histVars
  <1>2. Openstaand' = Openstaand
    BY <1>1 DEF Openstaand
  <1>3. RunVorm'
    BY <1>1 DEF RunVorm
  <1>4. (Open /\ Kopie)'
    BY <1>1, <1>2 DEF Inv, Data, Open, Kopie
  <1>5. rij' \subseteq Kopieen /\ bezig' \subseteq rij'
    BY <1>1 DEF Inv, TypeOK, Kopieen
  <1> QED
    BY <1>1, <1>3, <1>4, <1>5, RunStap DEF Inv, TypeOK

(* A run ends, having done what it could, and its job table is empty.       *)
LEMMA RunKlaarInv ==
    ASSUME Inv, RunKlaar
    PROVE  Inv'
  <1>1. /\ UNCHANGED <<laadproces, bericht, lader, job, gelezen, bezig, rsgb,
                       verwijdert, overschreven>>
        /\ run = "wacht" /\ run' = "geen" /\ bezig = {} /\ rij' = {}
    BY DEF RunKlaar, stagingVars, histVars
  <1>2. job = {} /\ gelezen = {}
    BY <1>1 DEF Inv, Data, RunVorm, TypeOK
  <1>3. Openstaand' = {}
    BY <1>1, <1>2 DEF Openstaand
  <1>4. (RunVorm /\ Open /\ Kopie)'
    BY <1>1, <1>2, <1>3 DEF RunVorm, Open, Kopie
  <1> QED
    BY <1>1, <1>4, RunStap DEF Inv, TypeOK

(* A run breaks off, alone or with the process: its job table stays, with   *)
(* the copies it handled. Those that are outdated are known as overwritten. *)
LEMMA AfgebrokenInv ==
    ASSUME Inv, RunAfgebroken \/ Crash
    PROVE  Inv'
  <1>1. /\ UNCHANGED <<laadproces, bericht, job, rsgb>>
        /\ run' = "geen" /\ gelezen' = {} /\ rij' = {} /\ bezig' = {}
        /\ overschreven' = overschreven \union Ids(Verouderd)
        /\ verwijdert' \subseteq verwijdert
    BY DEF RunAfgebroken, Crash, stagingVars
  <1>2. /\ lader' \in [Lader -> Lading \union {Rust}]
        /\ \A l \in Lader : lader'[l] \in {lader[l], Rust}
    BY DEF RunAfgebroken, Crash, Inv, TypeOK
  <1>3. Openstaand' = job
    BY <1>1 DEF Openstaand
  <1>4. (RunVorm /\ Open)'
    BY <1>1 DEF RunVorm, Open
  <1>5. Kopie'
    BY <1>1, <1>3 DEF Kopie, Ids, Verouderd
  <1> QED
    BY <1>1, <1>2, <1>4, <1>5, RunStap

(* BY_STATUS fills the job table.                                           *)
LEMMA VulJobInv ==
    ASSUME Inv, VulJob
    PROVE  Inv'
  <1>1. /\ UNCHANGED <<laadproces, bericht, lader, gelezen, rij, bezig, rsgb,
                       verwijdert, overschreven>>
        /\ run = "telt" /\ run' = "loopt"
    BY DEF VulJob, stagingVars, histVars
  <1>2. gelezen = {} /\ rij = {} /\ bezig = {}
    BY <1>1 DEF Inv, Data, RunVorm, TypeOK
  <1>0. Kopieen' = job' /\ Openstaand' = job'
    BY <1>1, <1>2 DEF Kopieen, Openstaand
  <1>3. ASSUME NEW j \in job'
        PROVE  /\ j.id \in DOMAIN bericht
               /\ bericht[j.id].status = "STAGING_OK"
               /\ bericht[j.id].sleutel \in Sleutel
               /\ j = [id |-> j.id, inhoud |-> bericht[j.id].inhoud]
    <2>1. PICK b \in TeVerwerken :
             j = [id |-> b, inhoud |-> bericht[b].inhoud]
      BY DEF VulJob
    <2>2. b \in DOMAIN bericht /\ bericht[b].status = "STAGING_OK"
      BY DEF TeVerwerken
    <2>3. bericht[b].sleutel \in Sleutel
      BY <2>2, RijFeit DEF Inv, Data, Sleutelloos
    <2> QED
      BY <2>1, <2>2, <2>3
  <1>4. job' \subseteq [id : DOMAIN bericht, inhoud : Bericht]
    <2>1. ASSUME NEW j \in job' PROVE j \in [id : DOMAIN bericht, inhoud : Bericht]
      BY <1>3, RijFeit DEF Inv
    <2> QED
      BY <2>1
  <1>5. TypeOK'
    BY <1>1, <1>2, <1>4 DEF Inv, TypeOK
  <1>6. Laders'
    <2>1. ASSUME NEW l \in Lader PROVE LaderOK(l)'
      BY <1>1, LaderBlijft DEF Inv, Laders
    <2> QED
      BY <2>1 DEF Laders
  <1>7. Data'
    <2>1. Uniek' /\ Sleutelloos'
      BY <1>1 DEF Inv, Data, Uniek, Sleutelloos, Aanwezig
    <2>2. JobRijen'
      BY <1>0, <1>1, <1>3 DEF JobRijen
    <2>3. JobUniek'
      <3>1. ASSUME NEW j \in job', NEW k \in job',
                   bericht[j.id].sleutel = bericht[k.id].sleutel
            PROVE  j = k
        <4>1. j.id = k.id
          BY <1>3, <3>1, SleutelFeit DEF Inv, Data, Uniek, Aanwezig
        <4> QED
          BY <1>3, <4>1
      <3> QED
        BY <1>0, <1>1, <3>1 DEF JobUniek
    <2>4. JobActueel'
      <3>1. ASSUME NEW j \in job', NEW b \in DOMAIN bericht, b # j.id,
                   Aanwezig(b), bericht[b].sleutel = bericht[j.id].sleutel
            PROVE  FALSE
        BY <1>3, <3>1, SleutelFeit DEF Inv, Data, Uniek, Aanwezig
      <3> QED
        BY <1>0, <1>1, <3>1 DEF JobActueel, Aanwezig
    <2>5. Open' /\ Kopie'
      BY <1>0, <1>1, <1>3 DEF Open, Kopie
    <2>6. Vastgelegd' /\ RunVorm'
      BY <1>1, <1>2 DEF Vastgelegd, RunVorm
    <2>7. VerwerktTenzijOverschreven'
      BY <1>1 DEF Inv, Data, VerwerktTenzijOverschreven, InRsgb
    <2> QED
      BY <2>1, <2>2, <2>3, <2>4, <2>5, <2>6, <2>7 DEF Data
  <1> QED
    BY <1>5, <1>6, <1>7 DEF Inv

(* The row whose copy is stored has no outcome, and neither has another one *)
(* with its key: nothing that was called RSGB_OK is replaced in the RSGB.   *)
LEMMA SlaOpInv ==
    ASSUME Inv, NEW j \in rij, SlaOp(j)
    PROVE  Inv'
  <1> DEFINE k == bericht[j.id].sleutel
  <1>1. UNCHANGED <<laadproces, bericht, lader, job, run, gelezen, rij,
                    verwijdert, overschreven>>
    BY DEF SlaOp, stagingVars, histVars
  <1>2. k \in Sleutel /\ j.id \in DOMAIN bericht /\ j.inhoud \in Bericht
    BY JobFeit DEF Inv, Data, JobRijen
  <1>9. /\ Kopieen' = Kopieen /\ Openstaand' = Openstaand
        /\ j \in Kopieen /\ j \in Openstaand
    BY <1>1 DEF Kopieen, Openstaand
  <1>10. bericht[j.id].status \in {"STAGING_OK", "WEG"}
    BY <1>9 DEF Inv, Data, Open, RunVorm
  <1>3. bezig' = {j} /\ rsgb' = [rsgb EXCEPT ![k] = j.inhoud]
    BY DEF SlaOp
  <1>4. rsgb \in [Sleutel -> Bericht \union {Geen}]
    BY DEF Inv, TypeOK
  <1> HIDE DEF k
  <1>5. /\ rsgb' \in [Sleutel -> Bericht \union {Geen}]
        /\ rsgb'[k] = j.inhoud
        /\ \A s : s # k => rsgb'[s] = rsgb[s]
    BY <1>2, <1>3, <1>4
  <1> USE DEF k
  <1>6. TypeOK'
    BY <1>1, <1>3, <1>5 DEF Inv, TypeOK
  <1>7. Laders'
    <2>1. ASSUME NEW l \in Lader PROVE LaderOK(l)'
      BY <1>1, LaderBlijft DEF Inv, Laders
    <2> QED
      BY <2>1 DEF Laders
  <1>8. Data'
    <2>1. Uniek' /\ Sleutelloos' /\ RunVorm'
      BY <1>1 DEF Inv, Data, Uniek, Sleutelloos, RunVorm, Aanwezig
    <2>4. JobRijen' /\ JobUniek' /\ JobActueel' /\ Open' /\ Kopie'
      BY <1>1, <1>9 DEF Inv, Data, JobRijen, JobUniek, JobActueel, Open, Kopie,
                        Aanwezig
    <2>2. Vastgelegd'
      BY <1>1, <1>3, <1>5 DEF Vastgelegd
    <2>3. VerwerktTenzijOverschreven'
      <3>1. ASSUME NEW b \in DOMAIN bericht \ overschreven,
                   bericht[b].status = "RSGB_OK"
            PROVE  rsgb'[bericht[b].sleutel] = bericht[b].inhoud
        <4>1. bericht[b].sleutel # k
          BY <1>9, <1>10, <3>1 DEF Inv, Data, JobActueel, Aanwezig
        <4>2. rsgb[bericht[b].sleutel] = bericht[b].inhoud
          BY <3>1 DEF Inv, Data, VerwerktTenzijOverschreven, InRsgb
        <4> QED
          BY <1>5, <4>1, <4>2
      <3> QED
        BY <1>1, <3>1 DEF VerwerktTenzijOverschreven, InRsgb
    <2> QED
      BY <2>1, <2>2, <2>3, <2>4 DEF Data
  <1> QED
    BY <1>6, <1>7, <1>8 DEF Inv

(* A row keeps all but its status.                                          *)
LEMMA SchrijfStatusFeit ==
    ASSUME TypeOK, NEW c \in DOMAIN bericht, NEW s \in BerichtStatus,
           SchrijfStatus(c, s)
    PROVE  /\ bericht' \in Seq(Rij(DOMAIN laadproces))
           /\ DOMAIN bericht' = DOMAIN bericht
           /\ \A b \in DOMAIN bericht :
                /\ bericht'[b].sleutel = bericht[b].sleutel
                /\ bericht'[b].inhoud = bericht[b].inhoud
                /\ b # c => bericht'[b].status = bericht[b].status
           /\ bericht'[c].status = IF bericht[c].status = "WEG" THEN "WEG" ELSE s
  <1>1. bericht \in Seq(Rij(DOMAIN laadproces))
    BY DEF TypeOK
  <1>2. CASE bericht[c].status = "WEG"
    BY <1>1, <1>2 DEF SchrijfStatus
  <1>3. CASE bericht[c].status # "WEG"
    <2>1. PICK e : e = [bericht[c] EXCEPT !.status = s]
      OBVIOUS
    <2>2. /\ e \in Rij(DOMAIN laadproces)
          /\ e.sleutel = bericht[c].sleutel /\ e.inhoud = bericht[c].inhoud
          /\ e.status = s
      <3>1. bericht[c] \in Rij(DOMAIN laadproces)
        BY RijFeit
      <3> QED
        BY <2>1, <3>1 DEF Rij
    <2>3. bericht' = [bericht EXCEPT ![c] = e]
      BY <1>3, <2>1 DEF SchrijfStatus
    <2>4. /\ bericht' \in Seq(Rij(DOMAIN laadproces))
          /\ DOMAIN bericht' = DOMAIN bericht
          /\ bericht'[c] = e
          /\ \A b \in DOMAIN bericht : b # c => bericht'[b] = bericht[b]
      BY <1>1, <2>2, <2>3, RijAnders
    <2> QED
      BY <1>3, <2>2, <2>4
  <1> QED
    BY <1>2, <1>3

(* A copy is handled, well or not; its row stays in the job table.          *)
LEMMA KlaarInv ==
    ASSUME Inv, NEW j \in rij, NEW s \in {"RSGB_OK", "RSGB_NOK"},
           s = "RSGB_OK" => j \in bezig,
           SchrijfStatus(j.id, s), rij' = rij \ {j}, bezig' = bezig \ {j},
           UNCHANGED <<laadproces, lader, job, run, gelezen, rsgb, verwijdert,
                       overschreven>>
    PROVE  Inv'
  <1>1. j.id \in DOMAIN bericht /\ j \in Kopieen /\ j \in Openstaand
    BY JobFeit DEF Inv, Openstaand
  <1>2. /\ bericht' \in Seq(Rij(DOMAIN laadproces))
        /\ DOMAIN bericht' = DOMAIN bericht
        /\ \A b \in DOMAIN bericht :
             /\ bericht'[b].sleutel = bericht[b].sleutel
             /\ bericht'[b].inhoud = bericht[b].inhoud
             /\ b # j.id => bericht'[b].status = bericht[b].status
        /\ bericht'[j.id].status = IF bericht[j.id].status = "WEG" THEN "WEG" ELSE s
    BY <1>1, SchrijfStatusFeit DEF Inv, BerichtStatus
  <1>3. /\ Kopieen' \subseteq Kopieen
        /\ \A k \in Kopieen : /\ k.id \in DOMAIN bericht
                              /\ k # j => bericht[k.id].sleutel
                                            # bericht[j.id].sleutel
    BY <1>1, JobFeit DEF Inv, Data, JobUniek, Kopieen
  <1>4. Openstaand' \subseteq Openstaand \ {j} /\ Openstaand \subseteq Kopieen
    <2>1. j \notin job \ gelezen
      BY DEF Inv, Data, RunVorm, TypeOK
    <2> QED
      BY <2>1, JobFeit DEF Inv, Openstaand
  <1>5. TypeOK'
    BY <1>2 DEF Inv, TypeOK
  <1>6. Laders'
    <2>1. ASSUME NEW l \in Lader PROVE LaderOK(l)'
      BY <1>2, LaderBlijft DEF Inv, Laders
    <2> QED
      BY <2>1 DEF Laders
  <1>7. Data'
    <2>1. Uniek'
      BY <1>2 DEF Inv, Data, Uniek, Aanwezig
    <2>2. Sleutelloos'
      BY <1>1, <1>2, SleutelFeit DEF Inv, Data, Sleutelloos, JobRijen
    <2>3. RunVorm'
      BY DEF Inv, Data, RunVorm
    <2>4. JobRijen'
      BY <1>2, <1>3 DEF Inv, Data, JobRijen
    <2>5. JobUniek'
      BY <1>2, <1>3 DEF Inv, Data, JobUniek
    <2>6. JobActueel'
      <3>1. ASSUME NEW k \in Kopieen', NEW b \in DOMAIN bericht, b # k.id,
                   bericht'[b].status # "WEG",
                   bericht[b].sleutel = bericht[k.id].sleutel
            PROVE  bericht'[b].status = "STAGING_OK"
        <4>1. k \in Kopieen /\ bericht[b].status # "WEG"
          BY <1>2, <1>3, <3>1
        <4>2. b # j.id
          BY <1>3, <3>1, <4>1
        <4> QED
          BY <1>2, <3>1, <4>1, <4>2 DEF Inv, Data, JobActueel, Aanwezig
      <3>2. \A k \in Kopieen' : bericht'[k.id].sleutel = bericht[k.id].sleutel
        BY <1>2, <1>3
      <3> QED
        BY <1>2, <3>1, <3>2 DEF JobActueel, Aanwezig
    <2>7. Open' /\ Kopie'
      <3>1. ASSUME NEW k \in Openstaand'
            PROVE  /\ k \in Openstaand /\ k.id \in DOMAIN bericht
                   /\ k.id # j.id
        BY <1>3, <1>4
      <3> QED
        BY <1>2, <3>1 DEF Inv, Data, Open, Kopie
    <2>8. Vastgelegd'
      <3>1. bezig' \subseteq bezig /\ bezig \subseteq Kopieen
        BY JobFeit DEF Inv
      <3> QED
        BY <1>2, <1>3, <3>1 DEF Inv, Data, Vastgelegd
    <2>9. VerwerktTenzijOverschreven'
      BY <1>1, <1>2 DEF Inv, Data, VerwerktTenzijOverschreven, InRsgb, Kopie,
                        Vastgelegd
    <2> QED
      BY <2>1, <2>2, <2>3, <2>4, <2>5, <2>6, <2>7, <2>8, <2>9 DEF Data
  <1> QED
    BY <1>5, <1>6, <1>7 DEF Inv

(* updateBerichtProcessing after the commit, and after a failure.           *)
LEMMA UpdateStatusInv ==
    ASSUME Inv, NEW j \in rij, UpdateStatus(j)
    PROVE  Inv'
  <1>1. /\ UNCHANGED <<laadproces, lader, job, run, gelezen, rsgb, verwijdert,
                       overschreven>>
        /\ j \in bezig /\ SchrijfStatus(j.id, "RSGB_OK")
        /\ rij' = rij \ {j} /\ bezig' = {}
    BY DEF UpdateStatus, histVars
  <1>2. bezig' = bezig \ {j}
    BY <1>1 DEF Inv, Data, Vastgelegd
  <1> QED
    BY <1>1, <1>2, KlaarInv

LEMMA MisluktInv ==
    ASSUME Inv, NEW j \in rij, Mislukt(j)
    PROVE  Inv'
  <1>1. /\ UNCHANGED <<laadproces, lader, job, run, gelezen, rsgb, verwijdert,
                       overschreven>>
        /\ j \notin bezig /\ SchrijfStatus(j.id, "RSGB_NOK")
        /\ rij' = rij \ {j} /\ bezig' = bezig
    BY DEF Mislukt, histVars
  <1>2. bezig' = bezig \ {j}
    BY <1>1
  <1> QED
    BY <1>1, <1>2, KlaarInv

(***************************************************************************)
(* The two ways in which loadBr writes a bericht.                          *)
(***************************************************************************)
(* A new row: the index has no other with its key.                          *)
LEMMA WriteBerichtInv ==
    ASSUME StagingAannames, Inv, NEW l \in Lader, WriteBericht(l)
    PROVE  Inv'
  <1> DEFINE k == Huidige(l)
             n == Len(bericht) + 1
  <1>1. UNCHANGED <<laadproces, job, run, gelezen, rij, bezig, rsgb, verwijdert,
                    overschreven>>
    BY DEF WriteBericht, jobVars, runVars
  <1>2. lader[l] \in Lading /\ lader[l].pc = "schrijf"
    BY InLading DEF WriteBericht, Inv
  <1>3. k \in Sleutel \union {GeenRef}
    BY <1>2, HuidigeFeit DEF Inv, Laders, LaderOK
  <1>4. k # GeenRef => MetSleutel(k) = {}
    BY DEF WriteBericht, Geweigerd
  <1>5. lader[l].lp \in DOMAIN laadproces
    BY <1>2 DEF Inv, Laders, LaderOK
  <1>6. PICK e :
           e = [sleutel |-> k, inhoud |-> <<lader[l].bestand, lader[l].i>>,
                status |-> IF k = GeenRef THEN "STAGING_NOK" ELSE "STAGING_OK",
                lp |-> lader[l].lp]
    OBVIOUS
  <1>7. /\ e \in Rij(DOMAIN laadproces) /\ e.sleutel = k
        /\ e.status = IF k = GeenRef THEN "STAGING_NOK" ELSE "STAGING_OK"
    <2>1. <<lader[l].bestand, lader[l].i>> \in Bericht
      BY <1>2, HuidigeFeit DEF Inv, Laders, LaderOK
    <2> QED
      BY <1>3, <1>5, <1>6, <2>1 DEF Rij, BerichtStatus
  <1>8. bericht' = Append(bericht, e)
    BY <1>6 DEF WriteBericht
  <1> HIDE DEF k
  <1>9. /\ bericht' \in Seq(Rij(DOMAIN laadproces))
        /\ DOMAIN bericht' = DOMAIN bericht \union {n}
        /\ n \notin DOMAIN bericht
        /\ bericht'[n] = e
        /\ \A b \in DOMAIN bericht : bericht'[b] = bericht[b]
    BY <1>7, <1>8, RijErbij DEF Inv, TypeOK
  <1> HIDE DEF n
  <1>10. lader' \in [Lader -> Lading \union {Rust}] /\ Laders'
    <2>1. PICK w : w = [lader[l] EXCEPT !.geschreven = TRUE]
      OBVIOUS
    <2>2. w \in Lading /\ w.lp = lader[l].lp
      BY <1>2, <2>1, GeschrevenRecord
    <2>3. Verder(l, w)
      BY <2>1 DEF WriteBericht
    <2> QED
      BY <1>1, <1>2, <1>9, <2>2, <2>3, Volgende
  <1>11. TypeOK'
    BY <1>1, <1>9, <1>10 DEF Inv, TypeOK
  <1>12. \A j \in Kopieen : j.id \in DOMAIN bericht
    BY JobFeit DEF Inv
  <1>13. /\ Kopieen' = Kopieen /\ Openstaand' = Openstaand
         /\ Openstaand \subseteq Kopieen /\ bezig \subseteq Kopieen
    BY <1>1, JobFeit DEF Inv, Kopieen, Openstaand
  <1>14. Data'
    <2>1. ASSUME NEW b \in DOMAIN bericht, Aanwezig(b), k # GeenRef
          PROVE  bericht[b].sleutel # k
      BY <1>4, <2>1 DEF MetSleutel, Aanwezig
    <2>2. Uniek'
      BY <1>7, <1>9, <2>1 DEF Inv, Data, Uniek, Aanwezig
    <2>3. Sleutelloos'
      BY <1>7, <1>9 DEF Inv, Data, Sleutelloos
    <2>4. JobRijen'
      BY <1>1, <1>9, <1>12, <1>13 DEF Inv, Data, JobRijen
    <2>5. JobUniek'
      BY <1>1, <1>9, <1>12, <1>13 DEF Inv, Data, JobUniek
    <2>6. JobActueel'
      <3>1. \A j \in Kopieen : bericht[j.id].sleutel # GeenRef
        BY SleutelFeit DEF Inv, Data, JobRijen
      <3> QED
        BY <1>1, <1>7, <1>9, <1>12, <1>13, <3>1 DEF Inv, Data, JobActueel, Aanwezig
    <2>7. Open' /\ Kopie'
      BY <1>1, <1>9, <1>12, <1>13 DEF Inv, Data, Open, Kopie
    <2>8. Vastgelegd'
      BY <1>1, <1>9, <1>12, <1>13 DEF Inv, Data, Vastgelegd
    <2>9. VerwerktTenzijOverschreven'
      BY <1>1, <1>7, <1>9 DEF Inv, Data, VerwerktTenzijOverschreven, InRsgb
    <2>10. RunVorm'
      BY <1>1 DEF Inv, Data, RunVorm
    <2> QED
      BY <2>2, <2>3, <2>4, <2>5, <2>6, <2>7, <2>8, <2>9, <2>10 DEF Data
  <1> QED
    BY <1>10, <1>11, <1>14 DEF Inv

(* An existing row is overwritten: a copy the job may hold is not of its    *)
(* content any more.                                                        *)
LEMMA UpdateBerichtInv ==
    ASSUME StagingAannames, Inv, NEW l \in Lader, UpdateBericht(l)
    PROVE  Inv'
  <1> DEFINE c == lader[l].gevonden
             nieuw == <<lader[l].bestand, lader[l].i>>
  <1>1. UNCHANGED <<laadproces, job, run, gelezen, rij, bezig, rsgb, verwijdert>>
    BY DEF UpdateBericht, jobVars, runVars
  <1>2. lader[l] \in Lading /\ lader[l].pc = "schrijf" /\ Verder(l, lader[l])
    BY InLading DEF UpdateBericht, Inv
  <1>3. c \in DOMAIN bericht /\ bericht[c].sleutel \in Sleutel
    BY <1>2 DEF UpdateBericht, Inv, Laders, LaderOK
  <1>4. nieuw \in Bericht
    BY <1>2, HuidigeFeit DEF Inv, Laders, LaderOK
  <1>5. CASE bericht[c].status = "WEG"
    <2>1. UNCHANGED <<bericht, overschreven>>
      BY <1>5 DEF UpdateBericht
    <2> QED
      BY <1>1, <1>2, <2>1, VolgendeAlleen DEF stagingVars, jobVars, runVars
  <1>6. CASE bericht[c].status # "WEG"
    <2>1. PICK e : e = [bericht[c] EXCEPT !.inhoud = nieuw, !.status = "STAGING_OK"]
      OBVIOUS
    <2>2. /\ e \in Rij(DOMAIN laadproces)
          /\ e.sleutel = bericht[c].sleutel /\ e.status = "STAGING_OK"
      <3>1. bericht[c] \in Rij(DOMAIN laadproces)
        BY <1>3, RijFeit DEF Inv
      <3> QED
        BY <1>4, <2>1, <3>1 DEF Rij, BerichtStatus
    <2>3. bericht' = [bericht EXCEPT ![c] = e]
      BY <1>6, <2>1 DEF UpdateBericht
    <2>4. /\ overschreven \subseteq overschreven'
          /\ \A j \in Openstaand : j.id = c => c \in overschreven'
      BY <1>6 DEF UpdateBericht, Ids
    <2> HIDE DEF c, nieuw
    <2>5. bericht \in Seq(Rij(DOMAIN laadproces))
      BY DEF Inv, TypeOK
    <2>6. /\ bericht' \in Seq(Rij(DOMAIN laadproces))
          /\ DOMAIN bericht' = DOMAIN bericht
          /\ bericht'[c] = e
          /\ \A b \in DOMAIN bericht : b # c => bericht'[b] = bericht[b]
      BY <1>3, <2>2, <2>3, <2>5, RijAnders
    <2>7. ASSUME NEW b \in DOMAIN bericht
          PROVE  bericht'[b].sleutel = bericht[b].sleutel
      BY <2>2, <2>6
    <2>8. lader' \in [Lader -> Lading \union {Rust}] /\ Laders'
      BY <1>1, <1>2, <2>6, <2>7, Volgende
    <2>9. TypeOK'
      BY <1>1, <2>6, <2>8 DEF Inv, TypeOK
    <2>10. \A j \in Kopieen : j.id \in DOMAIN bericht
      BY JobFeit DEF Inv
    <2>11. /\ Kopieen' = Kopieen /\ Openstaand' = Openstaand
           /\ Openstaand \subseteq Kopieen /\ bezig \subseteq Kopieen
      BY <1>1, JobFeit DEF Inv, Kopieen, Openstaand
    <2>12. Data'
      <3>1. Uniek'
        BY <1>6, <2>2, <2>6, <2>7 DEF Inv, Data, Uniek, Aanwezig, c
      <3>2. Sleutelloos'
        BY <1>3, <2>2, <2>6, SleutelFeit DEF Inv, Data, Sleutelloos, c
      <3>3. JobRijen'
        BY <1>1, <2>2, <2>6, <2>7, <2>10, <2>11 DEF Inv, Data, JobRijen
      <3>4. JobUniek'
        BY <1>1, <2>7, <2>10, <2>11 DEF Inv, Data, JobUniek
      <3>5. JobActueel'
        BY <1>1, <2>2, <2>6, <2>7, <2>10, <2>11 DEF Inv, Data, JobActueel, Aanwezig
      <3>6. Kopie'
        BY <1>1, <2>4, <2>6, <2>10, <2>11 DEF Inv, Data, Kopie
      <3>9. RunVorm' /\ Open'
        BY <1>1, <2>2, <2>6, <2>10, <2>11 DEF Inv, Data, RunVorm, Open
      <3>7. Vastgelegd'
        BY <1>1, <2>7, <2>10, <2>11 DEF Inv, Data, Vastgelegd
      <3>8. VerwerktTenzijOverschreven'
        BY <1>1, <2>2, <2>4, <2>6
           DEF Inv, Data, VerwerktTenzijOverschreven, InRsgb
      <3> QED
        BY <3>1, <3>2, <3>3, <3>4, <3>5, <3>6, <3>7, <3>8, <3>9 DEF Data
    <2> QED
      BY <2>8, <2>9, <2>12 DEF Inv
  <1> QED
    BY <1>5, <1>6

(***************************************************************************)
(* The theorems.                                                           *)
(***************************************************************************)
LEMMA NextInv ==
    ASSUME StagingAannames, Inv, [Next]_vars
    PROVE  Inv'
  <1>1. ASSUME NEW l \in Lader, NEW f \in Bestand, Begin(l, f) PROVE Inv'
    BY <1>1, BeginInv
  <1>2. ASSUME NEW l \in Lader, WriteLaadProces(l) PROVE Inv'
    BY <1>2, WriteLaadProcesInv
  <1>3. ASSUME NEW l \in Lader, LeesKapot(l) PROVE Inv'
    BY <1>3, LeesKapotInv
  <1>4. ASSUME NEW l \in Lader, Lees(l) PROVE Inv'
    BY <1>4, LeesInv
  <1>5. ASSUME NEW l \in Lader, WriteBericht(l) PROVE Inv'
    BY <1>5, WriteBerichtInv
  <1>6. ASSUME NEW l \in Lader, WriteBerichtMislukt(l) PROVE Inv'
    BY <1>6, WriteBerichtMisluktInv
  <1>7. ASSUME NEW l \in Lader, UpdateBericht(l) PROVE Inv'
    BY <1>7, UpdateBerichtInv
  <1>8. ASSUME NEW l \in Lader, SlaOver(l) PROVE Inv'
    BY <1>8, SlaOverInv
  <1>9. ASSUME NEW l \in Lader, Sluit(l) PROVE Inv'
    BY <1>9, SluitInv
  <1>10. ASSUME NEW p \in DOMAIN laadproces, VerwijderBerichten(p) PROVE Inv'
    BY <1>10, VerwijderBerichtenInv
  <1>11. ASSUME NEW p \in DOMAIN laadproces, VerwijderLaadProces(p) PROVE Inv'
    BY <1>11, VerwijderLaadProcesInv
  <1>12. CASE StartRun
    BY <1>12, StartRunInv
  <1>13. CASE VulJob
    BY <1>13, VulJobInv
  <1>14. CASE Hervat \/ NietsTeDoen
    BY <1>14, HervatInv
  <1>15. ASSUME NEW j \in job, LeesRij(j) PROVE Inv'
    BY <1>15, LeesRijInv
  <1>16. ASSUME NEW j \in rij, SlaOp(j) PROVE Inv'
    BY <1>16, SlaOpInv
  <1>17. ASSUME NEW j \in rij, UpdateStatus(j) PROVE Inv'
    BY <1>17, UpdateStatusInv
  <1>18. ASSUME NEW j \in rij, Mislukt(j) PROVE Inv'
    BY <1>18, MisluktInv
  <1>19. ASSUME NEW j \in rij, StatusNietGeschreven(j) PROVE Inv'
    BY <1>19, StatusNietGeschrevenInv
  <1>20. CASE RemoveJob
    BY <1>20, RemoveJobInv
  <1>21. CASE RunKlaar
    BY <1>21, RunKlaarInv
  <1>22. CASE RunAfgebroken \/ Crash
    BY <1>22, AfgebrokenInv
  <1>23. CASE UNCHANGED vars
    <2>1. UNCHANGED <<laadproces, bericht, lader, job, run, gelezen, rij, bezig,
                      runVars, rsgb, verwijdert, overschreven>>
      BY <1>23 DEF vars, stagingVars, jobVars, runVars, histVars
    <2>2. TypeOK'
      BY <2>1 DEF Inv, TypeOK
    <2>3. Laders'
      BY <2>1 DEF Inv, Laders, LaderOK, MeerBerichten, Huidige
    <2> QED
      BY <2>1, <2>2, <2>3, DataBlijft DEF Inv
  <1> QED
    BY <1>1, <1>2, <1>3, <1>4, <1>5, <1>6, <1>7, <1>8, <1>9, <1>10, <1>11, <1>12,
       <1>13, <1>14, <1>15, <1>16, <1>17, <1>18, <1>19, <1>20, <1>21, <1>22,
       <1>23 DEF Next

(* The inductive invariant, for any files, threads, runs, deletions and     *)
(* crashes: a copy the run still handles is that of a bericht without an    *)
(* outcome, the only one with its key, and not outdated unless overwritten, *)
(* though the rows it handled stay in the job table until removeJob and a   *)
(* later run may find them there.                                           *)
THEOREM Invariant == Spec => []Inv
  <1>1. Init => Inv
    BY InitInv
  <1>2. Inv /\ [Next]_vars => Inv'
    BY NextInv, StagingAannames
  <1> QED
    BY <1>1, <1>2, PTL DEF Spec

(* Type correctness.                                                        *)
THEOREM Types == Spec => []TypeOK
  <1>1. Inv => TypeOK
    BY DEF Inv
  <1> QED
    BY <1>1, Invariant, PTL

(* RSGB_OK means that the content of the bericht is in the RSGB, unless it  *)
(* was overwritten while a copy was still to be handled, or after it was    *)
(* handled in a run that broke off before removeJob. For any interleaving   *)
(* of loaders, runs, deletions and crashes, as long as no call of handle    *)
(* outlives its run.                                                        *)
THEOREM VerwerktStaatInRsgb == Spec => []VerwerktTenzijOverschreven
  <1>1. Inv => VerwerktTenzijOverschreven
    BY DEF Inv, Data
  <1> QED
    BY <1>1, Invariant, PTL
=============================================================================
