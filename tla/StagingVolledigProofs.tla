----------------------- MODULE StagingVolledigProofs ------------------------
(***************************************************************************)
(* Theorems about StagingLoad: the status of a laadproces can be trusted.  *)
(* What a laadproces without errors did not store was known, and one that  *)
(* is called a duplicate has nothing in staging.                           *)
(***************************************************************************)
EXTENDS StagingLoadProofs

Actief(l) == lader[l].pc \in {"lees", "schrijf"}

(* A bericht of a file that nobody need miss.                               *)
Verantwoord(f, k) == <<f, k>> \in ooit \union bekend \/ Inhoud[f][k] \in kwijt

(* A thread at work on a laadproces: it is that of its file and still open, *)
(* without errors all berichten so far are accounted for, no row is there   *)
(* because of it unless the thread remembers, and the row that was found    *)
(* has the key that was looked for.                                         *)
Boekhouding(l) ==
    Actief(l) =>
      /\ laadproces[lader[l].lp].bestand = lader[l].bestand
      /\ laadproces[lader[l].lp].status \in {"STAGING_OK", "WEG"}
      /\ lader[l].fouten = 0
           => \A k \in 1..(lader[l].i - 1) : Verantwoord(lader[l].bestand, k)
      /\ ~lader[l].geschreven
           => \A b \in DOMAIN bericht : bericht[b].lp # lader[l].lp
      /\ lader[l].pc = "schrijf" /\ lader[l].gevonden # 0
           => bericht[lader[l].gevonden].sleutel = Huidige(l)
(* A thread without a laadproces has seen nothing of its file.              *)
Vooraan(l) == ~Actief(l) /\ (lader[l].pc = "registreer" => lader[l].i = 1)
Boeken == \A l \in Lader : (Actief(l) /\ Boekhouding(l)) \/ Vooraan(l)

EigenLaadproces ==
    \A l, m \in Lader :
        Actief(l) /\ Actief(m) /\ lader[l].lp = lader[m].lp => l = m
WegIsKwijt ==
    \A b \in DOMAIN bericht :
        bericht[b].status = "WEG" => bericht[b].sleutel \in kwijt
GeslotenBestaat == gesloten \subseteq DOMAIN laadproces

VInv == /\ Inv /\ Boeken /\ EigenLaadproces /\ WegIsKwijt /\ GeslotenBestaat
        /\ NietsVerzwegen /\ DuplicaatBekend

(***************************************************************************)
(* What a step of somebody else leaves standing.                           *)
(***************************************************************************)
(* Tables and history only grow, rows keep their key and their laadproces.  *)
Groei ==
    /\ ooit \subseteq ooit' /\ bekend \subseteq bekend' /\ kwijt \subseteq kwijt'
    /\ DOMAIN bericht \subseteq DOMAIN bericht'
    /\ \A b \in DOMAIN bericht : /\ bericht'[b].sleutel = bericht[b].sleutel
                                 /\ bericht'[b].lp = bericht[b].lp
    /\ DOMAIN laadproces \subseteq DOMAIN laadproces'
    /\ \A p \in DOMAIN laadproces : laadproces'[p].bestand = laadproces[p].bestand

(* A thread that rests keeps its books, when its laadproces stays open and  *)
(* gets no rows.                                                            *)
LEMMA BoekBlijft ==
    ASSUME Inv, NEW m \in Lader, Boekhouding(m), Groei, lader'[m] = lader[m],
           Actief(m) =>
             /\ laadproces'[lader[m].lp].status \in {"STAGING_OK", "WEG"}
             /\ lader[m].geschreven
                \/ \A b \in DOMAIN bericht' \ DOMAIN bericht :
                      bericht'[b].lp # lader[m].lp
    PROVE  Boekhouding(m)'
  <1>1. CASE ~Actief(m)
    BY <1>1 DEF Boekhouding, Actief
  <1>2. CASE Actief(m)
    <2>1. lader[m].lp \in DOMAIN laadproces
      BY <1>2 DEF Actief, Inv, Laders, LaderOK
    <2>2. laadproces'[lader[m].lp].bestand = laadproces[lader[m].lp].bestand
      BY <2>1 DEF Groei
    <2>3. \A f, k : Verantwoord(f, k) => Verantwoord(f, k)'
      BY DEF Groei, Verantwoord
    <2>4. lader[m].pc = "schrijf" /\ lader[m].gevonden # 0
            => bericht'[lader[m].gevonden].sleutel
                 = bericht[lader[m].gevonden].sleutel
      BY DEF Groei, Inv, Laders, LaderOK
    <2>5. Huidige(m)' = Huidige(m)
      BY DEF Huidige
    <2>6. ~lader[m].geschreven
            => \A b \in DOMAIN bericht' : bericht'[b].lp # lader[m].lp
      BY <1>2 DEF Groei, Boekhouding
    <2> QED
      BY <1>2, <2>2, <2>3, <2>4, <2>5, <2>6 DEF Boekhouding, Actief, Verantwoord
  <1> QED
    BY <1>1, <1>2

(* Steps that open and close no laadproces. Rows are added only by a thread *)
(* at work, for its own laadproces, and it remembers.                       *)
LEMMA Stap ==
    ASSUME VInv, Inv', Groei, gesloten' = gesloten, WegIsKwijt',
           DOMAIN laadproces' = DOMAIN laadproces,
           \A p \in DOMAIN laadproces :
              laadproces'[p].status \in {laadproces[p].status, "WEG"},
           \A b \in DOMAIN bericht' \ DOMAIN bericht : \E l \in Lader :
              Actief(l) /\ lader'[l].geschreven /\ bericht'[b].lp = lader[l].lp,
           \A m \in Lader :
              \/ lader'[m] = lader[m]
              \/ Vooraan(m)'
              \/ /\ Actief(m) /\ lader'[m].lp = lader[m].lp
                 /\ Actief(m)' /\ Boekhouding(m)'
    PROVE  VInv'
  <1>1. ASSUME NEW m \in Lader
        PROVE  (Actief(m)' /\ Boekhouding(m)') \/ Vooraan(m)'
    <2>1. CASE lader'[m] = lader[m]
      <3>1. ASSUME Actief(m)
            PROVE  laadproces'[lader[m].lp].status \in {"STAGING_OK", "WEG"}
        <4>1. lader[m].lp \in DOMAIN laadproces
          BY <3>1 DEF Actief, VInv, Inv, Laders, LaderOK
        <4> QED
          BY <3>1, <4>1 DEF VInv, Boeken, Vooraan, Boekhouding
      <3>2. ASSUME Actief(m), ~lader[m].geschreven,
                   NEW b \in DOMAIN bericht' \ DOMAIN bericht
            PROVE  bericht'[b].lp # lader[m].lp
        <4>1. PICK l \in Lader : /\ Actief(l) /\ lader'[l].geschreven
                                 /\ bericht'[b].lp = lader[l].lp
          BY <3>2
        <4> QED
          BY <2>1, <3>2, <4>1 DEF VInv, EigenLaadproces
      <3>3. Actief(m) => Boekhouding(m)'
        BY <2>1, <3>1, <3>2, BoekBlijft DEF VInv, Boeken, Vooraan
      <3> QED
        BY <2>1, <3>3 DEF VInv, Boeken, Vooraan, Actief
    <2>2. CASE Vooraan(m)'
      BY <2>2
    <2> QED
      BY <2>1, <2>2
  <1>2. EigenLaadproces'
    BY DEF VInv, EigenLaadproces, Actief, Vooraan
  <1>3. NietsVerzwegen'
    <2>1. ASSUME NEW p \in gesloten,
                 laadproces'[p].status \in {"STAGING_OK", "STAGING_DUPLICAAT"}
          PROVE  /\ laadproces'[p].bestand = laadproces[p].bestand
                 /\ \A i \in DOMAIN Inhoud[laadproces[p].bestand] :
                      Verantwoord(laadproces[p].bestand, i)
      <3>1. p \in DOMAIN laadproces
        BY <2>1 DEF VInv, GeslotenBestaat
      <3>2. laadproces'[p].status = laadproces[p].status
        BY <2>1, <3>1
      <3> QED
        BY <2>1, <3>1, <3>2 DEF Groei, VInv, NietsVerzwegen, Verantwoord
    <2>2. \A f, i : Verantwoord(f, i) =>
             \/ <<f, i>> \in ooit' \union bekend' \/ Inhoud[f][i] \in kwijt'
      BY DEF Verantwoord, Groei
    <2> QED
      BY <2>1, <2>2 DEF NietsVerzwegen
  <1>4. DuplicaatBekend'
    <2>1. ASSUME NEW p \in DOMAIN laadproces,
                 laadproces'[p].status = "STAGING_DUPLICAAT",
                 NEW b \in DOMAIN bericht', bericht'[b].lp = p
          PROVE  FALSE
      <3>1. laadproces[p].status = "STAGING_DUPLICAAT"
        BY <2>1
      <3>2. CASE b \in DOMAIN bericht
        BY <2>1, <3>1, <3>2 DEF Groei, VInv, DuplicaatBekend
      <3>3. CASE b \notin DOMAIN bericht
        <4>1. PICK l \in Lader : Actief(l) /\ bericht'[b].lp = lader[l].lp
          BY <2>1, <3>3
        <4> QED
          BY <2>1, <3>1, <4>1 DEF VInv, Boeken, Vooraan, Boekhouding
      <3> QED
        BY <3>2, <3>3
    <2> QED
      BY <2>1 DEF DuplicaatBekend
  <1>5. GeslotenBestaat'
    BY DEF VInv, GeslotenBestaat
  <1> QED
    BY <1>1, <1>2, <1>3, <1>4, <1>5 DEF VInv, Boeken

(***************************************************************************)
(* The threads.                                                            *)
(***************************************************************************)
LEMMA InitV ==
    ASSUME Init
    PROVE  VInv
  <1>1. Inv
    BY InitInv
  <1>2. \A l \in Lader : ~Actief(l)
    BY RustFeit DEF Init, Actief
  <1> QED
    BY <1>1, <1>2, RustFeit DEF Init, VInv, Boeken, Vooraan, EigenLaadproces, WegIsKwijt,
       GeslotenBestaat, NietsVerzwegen, DuplicaatBekend

(* What Verder makes of a thread.                                           *)
LEMMA VerderVelden ==
    ASSUME TypeOK, NEW l \in Lader, NEW w \in Lading, Verder(l, w)
    PROVE  /\ lader'[l].pc = "lees" /\ lader'[l].lp = w.lp
           /\ lader'[l].bestand = w.bestand /\ lader'[l].i = w.i + 1
           /\ lader'[l].fouten = w.fouten /\ lader'[l].geschreven = w.geschreven
           /\ w.i \in Nat \ {0} /\ w.fouten \in Nat
           /\ \A m \in Lader : m # l => lader'[m] = lader[m]
  <1>1. PICK v : v = [w EXCEPT !.pc = "lees", !.i = @ + 1, !.gevonden = 0,
                               !.nieuw = FALSE]
    OBVIOUS
  <1>2. /\ v.pc = "lees" /\ v.lp = w.lp /\ v.bestand = w.bestand
        /\ v.i = w.i + 1 /\ v.fouten = w.fouten /\ v.geschreven = w.geschreven
    BY <1>1 DEF Lading
  <1>3. lader' = [lader EXCEPT ![l] = v]
    BY <1>1 DEF Verder, Ga
  <1>4. lader'[l] = v /\ \A m \in Lader : m # l => lader'[m] = lader[m]
    BY <1>3 DEF TypeOK
  <1> QED
    BY <1>2, <1>4 DEF Lading

(* The bericht in hand is accounted for, or counted as an error: the thread *)
(* has its books in order for the next one.                                 *)
LEMMA BoekVerder ==
    ASSUME VInv, Groei, NEW l \in Lader, NEW w \in Lading,
           lader[l].pc = "schrijf", Verder(l, w), w.lp = lader[l].lp,
           w.bestand = lader[l].bestand, w.i = lader[l].i,
           laadproces' = laadproces, NEW f, f = lader[l].bestand,
           NEW k, k = lader[l].i,
           \/ w.fouten # 0
           \/ w.fouten = lader[l].fouten /\ Verantwoord(f, k)',
           \/ w.geschreven
           \/ ~lader[l].geschreven /\ DOMAIN bericht' = DOMAIN bericht
    PROVE  /\ Actief(l) /\ lader'[l].lp = lader[l].lp
           /\ Actief(l)' /\ Boekhouding(l)'
  <1>1. Actief(l)
    BY DEF Actief
  <1>2. /\ lader'[l].pc = "lees" /\ lader'[l].lp = lader[l].lp
        /\ lader'[l].bestand = f /\ lader'[l].i = k + 1
        /\ lader'[l].fouten = w.fouten /\ lader'[l].geschreven = w.geschreven
        /\ k \in Nat \ {0}
    BY VerderVelden DEF VInv, Inv
  <1>3. ASSUME w.fouten = 0, NEW n \in 1..(lader'[l].i - 1)
        PROVE  Verantwoord(f, n)'
    <2>1. n \in 1..(k - 1) \/ n = k
      BY <1>2
    <2>2. n \in 1..(k - 1) => Verantwoord(f, n)
      BY <1>1, <1>3 DEF VInv, Boeken, Vooraan, Boekhouding
    <2>3. Verantwoord(f, n) => Verantwoord(f, n)'
      BY DEF Groei, Verantwoord
    <2> QED
      BY <1>3, <2>1, <2>2, <2>3
  <1>4. ASSUME ~w.geschreven, NEW b \in DOMAIN bericht'
        PROVE  bericht'[b].lp # lader[l].lp
    BY <1>1, <1>4 DEF VInv, Boeken, Vooraan, Boekhouding, Groei
  <1>5. /\ laadproces[lader[l].lp].bestand = f
        /\ laadproces[lader[l].lp].status \in {"STAGING_OK", "WEG"}
    BY <1>1 DEF VInv, Boeken, Vooraan, Boekhouding
  <1> QED
    BY <1>1, <1>2, <1>3, <1>4, <1>5 DEF Boekhouding, Actief, Verantwoord

(* Steps of a thread that touch no table.                                   *)
LEMMA RustigeStap ==
    ASSUME VInv, Inv', UNCHANGED stagingVars, gesloten' = gesloten,
           ooit \subseteq ooit', bekend \subseteq bekend', kwijt' = kwijt,
           \A m \in Lader :
              \/ lader'[m] = lader[m]
              \/ Vooraan(m)'
              \/ /\ Actief(m) /\ lader'[m].lp = lader[m].lp
                 /\ Actief(m)' /\ Boekhouding(m)'
    PROVE  VInv'
  <1>1. UNCHANGED <<laadproces, bericht>>
    BY DEF stagingVars
  <1>2. Groei
    BY <1>1 DEF Groei
  <1>3. WegIsKwijt'
    BY <1>1 DEF VInv, WegIsKwijt
  <1>4. \A b \in DOMAIN bericht' \ DOMAIN bericht : FALSE
    BY <1>1
  <1> QED
    BY <1>1, <1>2, <1>3, <1>4, Stap

LEMMA BeginV ==
    ASSUME VInv, Inv', NEW l \in Lader, NEW f \in Bestand, Begin(l, f)
    PROVE  VInv'
  <1>1. PICK v : v = [Rust EXCEPT !.pc = "registreer", !.bestand = f, !.i = 1]
    OBVIOUS
  <1>2. v.pc = "registreer" /\ v.i = 1
    BY <1>1 DEF Rust
  <1>3. lader' = [lader EXCEPT ![l] = v]
    BY <1>1 DEF Begin, Ga
  <1>4. lader'[l] = v /\ \A m \in Lader : m # l => lader'[m] = lader[m]
    BY <1>3 DEF VInv, Inv, TypeOK
  <1>5. Vooraan(l)'
    BY <1>2, <1>4 DEF Actief, Vooraan
  <1> QED
    BY <1>4, <1>5, RustigeStap DEF Begin, histVars

(* An unreadable bericht is counted: nothing is claimed of this laadproces. *)
LEMMA LeesKapotV ==
    ASSUME VInv, Inv', NEW l \in Lader, LeesKapot(l)
    PROVE  VInv'
  <1>1. lader[l] \in Lading /\ lader[l].pc = "lees"
    BY InLading DEF LeesKapot, VInv, Inv
  <1>2. PICK v : v = [lader[l] EXCEPT !.i = @ + 1, !.fouten = @ + 1]
    OBVIOUS
  <1>3. /\ v.pc = "lees" /\ v.lp = lader[l].lp /\ v.bestand = lader[l].bestand
        /\ v.fouten # 0 /\ v.geschreven = lader[l].geschreven
    BY <1>1, <1>2 DEF Lading
  <1>4. lader' = [lader EXCEPT ![l] = v]
    BY <1>2 DEF LeesKapot, Ga
  <1>5. lader'[l] = v /\ \A m \in Lader : m # l => lader'[m] = lader[m]
    BY <1>4 DEF VInv, Inv, TypeOK
  <1>6. Actief(l)
    BY <1>1 DEF Actief
  <1>7. UNCHANGED <<laadproces, bericht>>
    BY DEF LeesKapot, stagingVars
  <1>8. Actief(l)' /\ Boekhouding(l)'
    BY <1>3, <1>5, <1>6, <1>7 DEF Boekhouding, VInv, Boeken, Vooraan, Actief
  <1> QED
    BY <1>3, <1>5, <1>6, <1>8, RustigeStap DEF LeesKapot, histVars

(* What is found has the key that was looked for.                           *)
LEMMA LeesV ==
    ASSUME VInv, Inv', NEW l \in Lader, Lees(l)
    PROVE  VInv'
  <1>1. lader[l] \in Lading /\ lader[l].pc = "lees"
    BY InLading DEF Lees, VInv, Inv
  <1>2. PICK v : /\ Ga(l, v)
                 /\ v.pc = "schrijf" /\ v.lp = lader[l].lp
                 /\ v.bestand = lader[l].bestand /\ v.i = lader[l].i
                 /\ v.fouten = lader[l].fouten
                 /\ v.geschreven = lader[l].geschreven
                 /\ v.gevonden # 0 => bericht[v.gevonden].sleutel = Huidige(l)
    <2> DEFINE bestaand == IF Huidige(l) = GeenRef THEN {}
                             ELSE MetSleutel(Huidige(l))
    <2>1. CASE bestaand = {}
      <3>1. PICK v : v = [lader[l] EXCEPT !.pc = "schrijf", !.gevonden = 0]
        OBVIOUS
      <3>2. Ga(l, v)
        BY <2>1, <3>1 DEF Lees
      <3>3. /\ v.pc = "schrijf" /\ v.lp = lader[l].lp /\ v.gevonden = 0
            /\ v.bestand = lader[l].bestand /\ v.i = lader[l].i
            /\ v.fouten = lader[l].fouten /\ v.geschreven = lader[l].geschreven
        BY <1>1, <3>1 DEF Lading
      <3> QED
        BY <3>2, <3>3
    <2>2. CASE bestaand # {}
      <3>1. PICK b \in bestaand :
               Ga(l, [lader[l] EXCEPT !.pc = "schrijf", !.gevonden = b,
                         !.nieuw = bericht[b].status = "STAGING_OK"])
        BY <2>2 DEF Lees
      <3>2. bericht[b].sleutel = Huidige(l)
        BY <2>2 DEF MetSleutel
      <3>3. PICK v : v = [lader[l] EXCEPT !.pc = "schrijf", !.gevonden = b,
                            !.nieuw = bericht[b].status = "STAGING_OK"]
        OBVIOUS
      <3>4. /\ v.pc = "schrijf" /\ v.lp = lader[l].lp /\ v.gevonden = b
            /\ v.bestand = lader[l].bestand /\ v.i = lader[l].i
            /\ v.fouten = lader[l].fouten /\ v.geschreven = lader[l].geschreven
        BY <1>1, <3>3 DEF Lading
      <3> QED
        BY <3>1, <3>2, <3>3, <3>4
    <2> QED
      BY <2>1, <2>2
  <1>3. lader'[l] = v /\ \A m \in Lader : m # l => lader'[m] = lader[m]
    BY <1>2 DEF Ga, VInv, Inv, TypeOK
  <1>4. Actief(l)
    BY <1>1 DEF Actief
  <1>5. UNCHANGED <<laadproces, bericht>>
    BY DEF Lees, stagingVars
  <1>6. UNCHANGED <<ooit, bekend, kwijt, gesloten>>
    BY DEF Lees, histVars
  <1>7. Huidige(l)' = Huidige(l)
    BY <1>2, <1>3 DEF Huidige
  <1>8. \A f, k : Verantwoord(f, k)' = Verantwoord(f, k)
    BY <1>6 DEF Verantwoord
  <1>9. Actief(l)' /\ Boekhouding(l)'
    BY <1>2, <1>3, <1>4, <1>5, <1>7, <1>8
       DEF Boekhouding, VInv, Boeken, Vooraan, Actief, Verantwoord
  <1> QED
    BY <1>2, <1>3, <1>4, <1>6, <1>9, RustigeStap DEF Lees

(* A bericht that is refused is counted.                                    *)
LEMMA WriteBerichtMisluktV ==
    ASSUME VInv, Inv', NEW l \in Lader, WriteBerichtMislukt(l)
    PROVE  VInv'
  <1>1. lader[l] \in Lading /\ lader[l].pc = "schrijf"
    BY InLading DEF WriteBerichtMislukt, VInv, Inv
  <1>2. PICK w : w = [lader[l] EXCEPT !.fouten = @ + 1]
    OBVIOUS
  <1>3. /\ w \in Lading /\ w.lp = lader[l].lp /\ w.bestand = lader[l].bestand
        /\ w.i = lader[l].i /\ w.geschreven = lader[l].geschreven
        /\ w.fouten # 0
    <2>1. w \in Lading
      BY <1>1, <1>2, FoutRecord
    <2> QED
      BY <1>1, <1>2, <2>1 DEF Lading
  <1>4. Verder(l, w)
    BY <1>2 DEF WriteBerichtMislukt
  <1>5. UNCHANGED <<laadproces, bericht, ooit, bekend, kwijt, gesloten>>
    BY DEF WriteBerichtMislukt, stagingVars, histVars
  <1>6. Groei
    BY <1>5 DEF Groei
  <1>7. w.geschreven \in BOOLEAN
    BY <1>3 DEF Lading
  <1>8. PICK f, k : f = lader[l].bestand /\ k = lader[l].i
    OBVIOUS
  <1>9. /\ Actief(l) /\ lader'[l].lp = lader[l].lp
        /\ Actief(l)' /\ Boekhouding(l)'
    BY <1>1, <1>3, <1>4, <1>5, <1>6, <1>7, <1>8, BoekVerder
  <1>10. \A m \in Lader : m # l => lader'[m] = lader[m]
    BY <1>3, <1>4, VerderVelden DEF VInv, Inv
  <1> QED
    BY <1>5, <1>9, <1>10, RustigeStap DEF stagingVars

(* A bericht that was transformed already is known.                         *)
LEMMA SlaOverV ==
    ASSUME VInv, Inv', NEW l \in Lader, SlaOver(l)
    PROVE  VInv'
  <1>1. /\ lader[l] \in Lading /\ lader[l].pc = "schrijf"
        /\ Verder(l, lader[l])
    BY InLading DEF SlaOver, VInv, Inv
  <1>2. UNCHANGED <<laadproces, bericht, ooit, kwijt, gesloten>>
    BY DEF SlaOver, stagingVars
  <1>3. bekend' = bekend \union {<<lader[l].bestand, lader[l].i>>}
    BY DEF SlaOver
  <1>4. Groei
    BY <1>2, <1>3 DEF Groei
  <1>5. PICK f, k : f = lader[l].bestand /\ k = lader[l].i
    OBVIOUS
  <1>6. Verantwoord(f, k)'
    BY <1>3, <1>5 DEF Verantwoord
  <1>7. lader[l].geschreven \in BOOLEAN
    BY <1>1 DEF Lading
  <1>8. /\ Actief(l) /\ lader'[l].lp = lader[l].lp
        /\ Actief(l)' /\ Boekhouding(l)'
    BY <1>1, <1>2, <1>4, <1>5, <1>6, <1>7, BoekVerder
  <1>9. \A m \in Lader : m # l => lader'[m] = lader[m]
    BY <1>1, VerderVelden DEF VInv, Inv
  <1> QED
    BY <1>2, <1>3, <1>8, <1>9, RustigeStap DEF stagingVars

(* A new row is remembered by the thread whose laadproces it belongs to.    *)
LEMMA WriteBerichtV ==
    ASSUME VInv, Inv', NEW l \in Lader, WriteBericht(l)
    PROVE  VInv'
  <1>1. lader[l] \in Lading /\ lader[l].pc = "schrijf"
    BY InLading DEF WriteBericht, VInv, Inv
  <1>2. UNCHANGED <<laadproces, bekend, kwijt, gesloten>>
    BY DEF WriteBericht
  <1>3. PICK f, k : f = lader[l].bestand /\ k = lader[l].i
    OBVIOUS
  <1>4. ooit' = ooit \union {<<f, k>>}
    BY <1>3 DEF WriteBericht
  <1>5. PICK w : w = [lader[l] EXCEPT !.geschreven = TRUE]
    OBVIOUS
  <1>6. /\ w \in Lading /\ w.lp = lader[l].lp /\ w.bestand = lader[l].bestand
        /\ w.i = lader[l].i /\ w.fouten = lader[l].fouten /\ w.geschreven
    BY <1>1, <1>5 DEF Lading
  <1>7. Verder(l, w)
    BY <1>5 DEF WriteBericht
  <1>8. PICK e : /\ bericht' = Append(bericht, e)
                 /\ e.lp = lader[l].lp /\ e.status # "WEG"
    <2>1. PICK e : e = [sleutel |-> Huidige(l),
             inhoud |-> <<lader[l].bestand, lader[l].i>>,
             status |-> IF Huidige(l) = GeenRef THEN "STAGING_NOK"
                                                ELSE "STAGING_OK",
             lp |-> lader[l].lp]
      OBVIOUS
    <2>2. bericht' = Append(bericht, e)
      BY <2>1 DEF WriteBericht
    <2> QED
      BY <2>1, <2>2
  <1>9. /\ DOMAIN bericht \subseteq DOMAIN bericht'
        /\ \A b \in DOMAIN bericht : bericht'[b] = bericht[b]
        /\ \A b \in DOMAIN bericht' \ DOMAIN bericht : bericht'[b] = e
    <2>1. bericht \in Seq(Rij(DOMAIN laadproces))
      BY DEF VInv, Inv, TypeOK
    <2>2. bericht \in Seq(Rij(DOMAIN laadproces) \union {e})
      BY <2>1
    <2> QED
      BY <1>8, <2>2, RijErbij
  <1>10. Groei
    BY <1>2, <1>4, <1>9 DEF Groei
  <1>11. Verantwoord(f, k)'
    BY <1>4 DEF Verantwoord
  <1>12. /\ Actief(l) /\ lader'[l].lp = lader[l].lp
        /\ Actief(l)' /\ Boekhouding(l)'
    BY <1>1, <1>2, <1>3, <1>6, <1>7, <1>10, <1>11, BoekVerder
  <1>13. /\ lader'[l].geschreven
         /\ \A m \in Lader : m # l => lader'[m] = lader[m]
    BY <1>6, <1>7, VerderVelden DEF VInv, Inv
  <1>14. WegIsKwijt'
    BY <1>2, <1>8, <1>9 DEF VInv, WegIsKwijt
  <1> QED
    BY <1>2, <1>8, <1>9, <1>10, <1>12, <1>13, <1>14, Stap

(* A row that is overwritten stands for the bericht from now on; one that   *)
(* was deleted meanwhile had the key of the bericht.                        *)
LEMMA UpdateBerichtV ==
    ASSUME VInv, Inv', NEW l \in Lader, UpdateBericht(l)
    PROVE  VInv'
  <1>1. /\ lader[l] \in Lading /\ lader[l].pc = "schrijf"
        /\ Verder(l, lader[l])
    BY InLading DEF UpdateBericht, VInv, Inv
  <1>2. UNCHANGED <<laadproces, bekend, kwijt, gesloten>>
    BY DEF UpdateBericht
  <1>3. PICK c, f, k : c = lader[l].gevonden /\ f = lader[l].bestand
                       /\ k = lader[l].i
    OBVIOUS
  <1>4. c # 0
    BY <1>3 DEF UpdateBericht
  <1>5. c \in DOMAIN bericht
    BY <1>1, <1>3, <1>4 DEF VInv, Inv, Laders, LaderOK
  <1>6. bericht[c].sleutel = Inhoud[f][k]
    BY <1>1, <1>3, <1>4 DEF VInv, Boeken, Vooraan, Boekhouding, Actief, Huidige
  <1>7. /\ DOMAIN bericht' = DOMAIN bericht
        /\ \A b \in DOMAIN bericht :
             /\ bericht'[b].sleutel = bericht[b].sleutel
             /\ bericht'[b].lp = bericht[b].lp
             /\ bericht'[b].status = "WEG" => bericht[b].status = "WEG"
        /\ ooit \subseteq ooit'
        /\ bericht[c].status # "WEG" => <<f, k>> \in ooit'
    <2>1. CASE bericht[c].status = "WEG"
      BY <1>3, <2>1 DEF UpdateBericht
    <2>2. CASE bericht[c].status # "WEG"
      <3>1. PICK e : e = [bericht[c] EXCEPT !.inhoud = <<f, k>>,
                                            !.status = "STAGING_OK"]
        OBVIOUS
      <3>2. /\ e.sleutel = bericht[c].sleutel /\ e.lp = bericht[c].lp
            /\ e.status = "STAGING_OK"
        <4>1. bericht[c] \in Rij(DOMAIN laadproces)
          BY <1>5, RijFeit DEF VInv, Inv
        <4> QED
          BY <3>1, <4>1 DEF Rij
      <3>3. bericht' = [bericht EXCEPT ![c] = e]
        BY <1>3, <2>2, <3>1 DEF UpdateBericht
      <3>4. ooit' = ooit \union {<<f, k>>}
        BY <1>3, <2>2 DEF UpdateBericht
      <3>5. bericht \in Seq(Rij(DOMAIN laadproces) \union {e})
        BY DEF VInv, Inv, TypeOK
      <3>6. /\ DOMAIN bericht' = DOMAIN bericht /\ bericht'[c] = e
            /\ \A b \in DOMAIN bericht : b # c => bericht'[b] = bericht[b]
        BY <1>5, <3>3, <3>5, RijAnders
      <3> QED
        BY <3>2, <3>4, <3>6
    <2> QED
      BY <2>1, <2>2
  <1>8. Groei
    BY <1>2, <1>7 DEF Groei
  <1>9. Verantwoord(f, k)'
    <2>1. bericht[c].status = "WEG" => Inhoud[f][k] \in kwijt
      BY <1>5, <1>6 DEF VInv, WegIsKwijt
    <2> QED
      BY <1>2, <1>7, <2>1 DEF Verantwoord
  <1>10. lader[l].geschreven \in BOOLEAN
    BY <1>1 DEF Lading
  <1>11. /\ Actief(l) /\ lader'[l].lp = lader[l].lp
        /\ Actief(l)' /\ Boekhouding(l)'
    BY <1>1, <1>2, <1>3, <1>7, <1>8, <1>9, <1>10, BoekVerder
  <1>12. \A m \in Lader : m # l => lader'[m] = lader[m]
    BY <1>1, VerderVelden DEF VInv, Inv
  <1>13. WegIsKwijt'
    BY <1>2, <1>7 DEF VInv, WegIsKwijt
  <1> QED
    BY <1>2, <1>7, <1>8, <1>11, <1>12, <1>13, Stap

(***************************************************************************)
(* A laadproces is opened and closed.                                      *)
(***************************************************************************)
LEMMA WriteLaadProcesV ==
    ASSUME VInv, Inv', NEW l \in Lader, WriteLaadProces(l)
    PROVE  VInv'
  <1>1. lader[l] \in Lading /\ lader[l].pc = "registreer"
    BY InLading DEF WriteLaadProces, VInv, Inv
  <1>2. UNCHANGED <<bericht, ooit, bekend, kwijt>>
    BY DEF WriteLaadProces
  <1>3. PICK n, e : /\ n = Len(laadproces) + 1
                    /\ e = [bestand |-> lader[l].bestand, status |-> "STAGING_OK"]
    OBVIOUS
  <1>4. laadproces \in Seq(LpRij)
    BY DEF VInv, Inv, TypeOK, LpRij
  <1>5. laadproces' = Append(laadproces, e) /\ e \in LpRij
    BY <1>1, <1>3 DEF WriteLaadProces, LpRij, Lading, LpStatus
  <1>6. /\ DOMAIN laadproces' = DOMAIN laadproces \union {n}
        /\ n \notin DOMAIN laadproces /\ laadproces'[n] = e
        /\ \A p \in DOMAIN laadproces : laadproces'[p] = laadproces[p]
    BY <1>3, <1>4, <1>5, RijErbij
  <1>7. Len(laadproces') = n
    BY <1>3, <1>4, <1>5, AppendProperties
  <1>8. e.bestand = lader[l].bestand /\ e.status = "STAGING_OK"
    BY <1>3
  <1>9. \A b \in DOMAIN bericht : bericht[b].lp \in DOMAIN laadproces
    <2>1. ASSUME NEW b \in DOMAIN bericht
          PROVE  bericht[b].lp \in DOMAIN laadproces
      <3>1. bericht[b] \in Rij(DOMAIN laadproces)
        BY <2>1, RijFeit DEF VInv, Inv
      <3> QED
        BY <3>1 DEF Rij
    <2> QED
      BY <2>1
  <1>10. Groei
    BY <1>2, <1>6 DEF Groei
  <1>11. \A m \in Lader : m # l => lader'[m] = lader[m]
    BY DEF WriteLaadProces, Ga, VInv, Inv, TypeOK
  <1>12. ASSUME NEW m \in Lader, m # l
         PROVE  (Actief(m)' /\ Boekhouding(m)') \/ Vooraan(m)'
    <2>1. lader'[m] = lader[m]
      BY <1>11, <1>12
    <2>2. CASE Vooraan(m)
      BY <2>1, <2>2 DEF Vooraan, Actief
    <2>3. CASE Actief(m) /\ Boekhouding(m)
      <3>1. lader[m].lp \in DOMAIN laadproces
        BY <2>3 DEF Actief, VInv, Inv, Laders, LaderOK
      <3>2. laadproces'[lader[m].lp].status \in {"STAGING_OK", "WEG"}
        BY <1>6, <2>3, <3>1 DEF Boekhouding
      <3>3. Boekhouding(m)'
        BY <1>2, <1>10, <2>1, <2>3, <3>2, BoekBlijft DEF VInv
      <3> QED
        BY <2>1, <2>3, <3>3 DEF Actief
    <2> QED
      BY <2>2, <2>3 DEF VInv, Boeken
  <1>13. \A m \in Lader : Actief(m) => lader[m].lp # n
    BY <1>6 DEF Actief, VInv, Inv, Laders, LaderOK
  <1>14. DuplicaatBekend'
    BY <1>2, <1>6, <1>8, <1>9 DEF VInv, DuplicaatBekend
  <1>15. WegIsKwijt'
    BY <1>2 DEF VInv, WegIsKwijt
  <1>16. ASSUME \/ gesloten' = gesloten
                \/ gesloten' = gesloten \union {n} /\ Inhoud[e.bestand] = <<>>
         PROVE  NietsVerzwegen' /\ GeslotenBestaat'
    <2>1. GeslotenBestaat'
      BY <1>6, <1>16 DEF VInv, GeslotenBestaat
    <2>2. \A p \in gesloten : laadproces'[p] = laadproces[p]
      BY <1>6 DEF VInv, GeslotenBestaat
    <2>3. n \in gesloten' => n \in gesloten \/ Inhoud[e.bestand] = <<>>
      BY <1>16
    <2>4. n \notin gesloten
      BY <1>6 DEF VInv, GeslotenBestaat
    <2> QED
      BY <1>2, <1>6, <1>16, <2>1, <2>2, <2>3, <2>4 DEF VInv, NietsVerzwegen
  <1>17. CASE Inhoud[lader[l].bestand] = <<>>
    <2>1. lader' = [lader EXCEPT ![l] = Rust]
      BY <1>17 DEF WriteLaadProces, Ga
    <2>2. lader'[l] = Rust
      BY <2>1 DEF VInv, Inv, TypeOK
    <2>3. Vooraan(l)'
      BY <2>2, RustFeit DEF Actief, Vooraan
    <2>4. Boeken'
      BY <1>12, <2>3 DEF Boeken
    <2>5. EigenLaadproces'
      BY <1>11, <2>3 DEF VInv, EigenLaadproces, Actief, Vooraan
    <2>6. gesloten' = gesloten \union {n}
      BY <1>7, <1>17 DEF WriteLaadProces
    <2> QED
      BY <1>8, <1>14, <1>15, <1>16, <1>17, <2>4, <2>5, <2>6 DEF VInv
  <1>18. CASE Inhoud[lader[l].bestand] # <<>>
    <2>1. PICK v : v = [lader[l] EXCEPT !.pc = "lees", !.lp = n]
      OBVIOUS
    <2>2. /\ v.pc = "lees" /\ v.lp = n /\ v.bestand = lader[l].bestand
          /\ v.i = lader[l].i
      BY <1>1, <2>1 DEF Lading
    <2>3. lader' = [lader EXCEPT ![l] = v]
      BY <1>7, <1>18, <2>1 DEF WriteLaadProces, Ga
    <2>4. lader'[l] = v
      BY <2>3 DEF VInv, Inv, TypeOK
    <2>5. lader[l].i = 1
      BY <1>1 DEF VInv, Boeken, Vooraan, Actief
    <2>6. Actief(l)' /\ Boekhouding(l)'
      BY <1>2, <1>6, <1>8, <1>9, <2>2, <2>4, <2>5 DEF Actief, Boekhouding
    <2>7. Boeken'
      BY <1>12, <2>6 DEF Boeken
    <2>8. EigenLaadproces'
      BY <1>11, <1>13, <2>2, <2>4 DEF VInv, EigenLaadproces, Actief
    <2>9. gesloten' = gesloten
      BY <1>18 DEF WriteLaadProces
    <2>10. NietsVerzwegen' /\ GeslotenBestaat'
      BY <1>16, <2>9
    <2> QED
      BY <1>14, <1>15, <2>7, <2>8, <2>10 DEF VInv
  <1> QED
    BY <1>17, <1>18

(* A laadproces without errors gets its status when all berichten of the    *)
(* file are accounted for, and is a duplicate when it has no rows.          *)
LEMMA SluitV ==
    ASSUME VInv, Inv', NEW l \in Lader, Sluit(l)
    PROVE  VInv'
  <1>1. /\ lader[l] \in Lading /\ lader[l].pc = "lees" /\ ~MeerBerichten(l)
        /\ Actief(l)
    BY InLading DEF Sluit, VInv, Inv, Actief
  <1>2. UNCHANGED <<bericht, ooit, bekend, kwijt>>
    BY DEF Sluit
  <1>3. PICK p, f : p = lader[l].lp /\ f = lader[l].bestand
    OBVIOUS
  <1>4. p \in DOMAIN laadproces /\ f \in Bestand
    BY <1>1, <1>3 DEF VInv, Inv, Laders, LaderOK, Lading
  <1>5. laadproces[p].bestand = f /\ laadproces[p].status \in {"STAGING_OK", "WEG"}
    BY <1>1, <1>3 DEF VInv, Boeken, Vooraan, Boekhouding
  <1>6. PICK st : st = IF laadproces[p].status = "WEG" THEN "WEG"
                         ELSE Uitkomst(l, laadproces[p].status)
    OBVIOUS
  <1>7. /\ DOMAIN laadproces' = DOMAIN laadproces
        /\ laadproces'[p].status = st
        /\ laadproces'[p].bestand = f
        /\ \A q \in DOMAIN laadproces : q # p => laadproces'[q] = laadproces[q]
    <2>1. PICK e : e = [laadproces[p] EXCEPT !.status = st]
      OBVIOUS
    <2>2. laadproces[p] \in LpRij
      BY <1>4, LpFeit DEF VInv, Inv
    <2>3. e.status = st /\ e.bestand = f
      BY <1>5, <2>1, <2>2 DEF LpRij
    <2>4. laadproces' = [laadproces EXCEPT ![p] = e]
      BY <1>3, <1>6, <2>1 DEF Sluit
    <2>5. laadproces \in Seq(LpRij)
      BY DEF VInv, Inv, TypeOK, LpRij
    <2>6. laadproces \in Seq(LpRij \union {e})
      BY <2>5
    <2> QED
      BY <1>4, <2>3, <2>4, <2>6, RijAnders
  <1>8. lader'[l] = Rust /\ \A m \in Lader : m # l => lader'[m] = lader[m]
    BY DEF Sluit, Ga, VInv, Inv, TypeOK
  <1>9. Vooraan(l)'
    BY <1>8, RustFeit DEF Vooraan, Actief
  <1>10. gesloten' = gesloten \union {p}
    BY <1>3 DEF Sluit
  <1>11. Groei
    BY <1>2, <1>5, <1>7 DEF Groei
  <1>12. ASSUME NEW m \in Lader, m # l
         PROVE  (Actief(m)' /\ Boekhouding(m)') \/ Vooraan(m)'
    <2>1. lader'[m] = lader[m]
      BY <1>8, <1>12
    <2>2. CASE Vooraan(m)
      BY <2>1, <2>2 DEF Vooraan, Actief
    <2>3. CASE Actief(m) /\ Boekhouding(m)
      <3>1. lader[m].lp \in DOMAIN laadproces
        BY <2>3 DEF Actief, VInv, Inv, Laders, LaderOK
      <3>2. lader[m].lp # p
        BY <1>1, <1>3, <1>12, <2>3 DEF VInv, EigenLaadproces
      <3>3. laadproces'[lader[m].lp].status \in {"STAGING_OK", "WEG"}
        BY <1>7, <2>3, <3>1, <3>2 DEF Boekhouding
      <3>4. Boekhouding(m)'
        BY <1>2, <1>11, <2>1, <2>3, <3>3, BoekBlijft DEF VInv
      <3> QED
        BY <2>1, <2>3, <3>4 DEF Actief
    <2> QED
      BY <2>2, <2>3 DEF VInv, Boeken
  <1>13. Boeken'
    BY <1>9, <1>12 DEF Boeken
  <1>14. EigenLaadproces'
    BY <1>8, <1>9 DEF VInv, EigenLaadproces, Actief, Vooraan
  <1>15. st \in {"STAGING_OK", "STAGING_DUPLICAAT"} => lader[l].fouten = 0
    BY <1>1, <1>6 DEF Uitkomst, Lading
  <1>16. st = "STAGING_DUPLICAAT" => ~lader[l].geschreven
    BY <1>5, <1>6 DEF Uitkomst
  <1>17. NietsVerzwegen'
    <2>1. ASSUME st \in {"STAGING_OK", "STAGING_DUPLICAAT"},
                 NEW i \in DOMAIN Inhoud[f]
          PROVE  Verantwoord(f, i)
      <3>1. Inhoud[f] \in Seq(Sleutel \union {GeenRef, Kapot})
        BY <1>4, StagingAannames
      <3>2. i \in 1..Len(Inhoud[f]) /\ Len(Inhoud[f]) \in Nat
        BY <2>1, <3>1, Reeks
      <3>3. lader[l].i \in Nat /\ Len(Inhoud[f]) < lader[l].i
        BY <1>1, <1>3, <3>2 DEF MeerBerichten, Lading
      <3>4. i \in 1..(lader[l].i - 1)
        BY <3>2, <3>3
      <3> QED
        BY <1>1, <1>3, <1>15, <2>1, <3>4 DEF VInv, Boeken, Vooraan, Boekhouding
    <2>2. \A q \in gesloten : q # p => laadproces'[q] = laadproces[q]
      BY <1>7 DEF VInv, GeslotenBestaat
    <2>3. ASSUME NEW q \in gesloten', q # p,
                 laadproces'[q].status \in {"STAGING_OK", "STAGING_DUPLICAAT"},
                 NEW i \in DOMAIN Inhoud[laadproces'[q].bestand]
          PROVE  \/ <<laadproces'[q].bestand, i>> \in ooit' \union bekend'
                 \/ Inhoud[laadproces'[q].bestand][i] \in kwijt'
      BY <1>2, <1>10, <2>2, <2>3 DEF VInv, NietsVerzwegen
    <2> QED
      BY <1>2, <1>7, <2>1, <2>3 DEF NietsVerzwegen, Verantwoord
  <1>18. DuplicaatBekend'
    <2>1. ASSUME st = "STAGING_DUPLICAAT", NEW b \in DOMAIN bericht
          PROVE  bericht[b].lp # p
      BY <1>1, <1>3, <1>16, <2>1 DEF VInv, Boeken, Vooraan, Boekhouding
    <2> QED
      BY <1>2, <1>7, <2>1 DEF VInv, DuplicaatBekend
  <1>19. WegIsKwijt' /\ GeslotenBestaat'
    BY <1>2, <1>4, <1>7, <1>10 DEF VInv, WegIsKwijt, GeslotenBestaat
  <1> QED
    BY <1>13, <1>14, <1>17, <1>18, <1>19 DEF VInv

(***************************************************************************)
(* Deletions, the transformation and crashes.                              *)
(***************************************************************************)
(* Steps that take threads out of loadBr at most, add no rows and delete    *)
(* none without noting the key.                                             *)
LEMMA RijenStap ==
    ASSUME VInv, Inv', gesloten' = gesloten,
           ooit' = ooit, bekend' = bekend, kwijt \subseteq kwijt',
           DOMAIN laadproces' = DOMAIN laadproces,
           \A p \in DOMAIN laadproces :
              /\ laadproces'[p].bestand = laadproces[p].bestand
              /\ laadproces'[p].status \in {laadproces[p].status, "WEG"},
           DOMAIN bericht' = DOMAIN bericht,
           \A b \in DOMAIN bericht :
              /\ bericht'[b].sleutel = bericht[b].sleutel
              /\ bericht'[b].lp = bericht[b].lp
              /\ bericht'[b].status = "WEG"
                   => bericht[b].status = "WEG" \/ bericht[b].sleutel \in kwijt',
           \A m \in Lader : lader'[m] \in {lader[m], Rust}
    PROVE  VInv'
  <1>1. Groei
    BY DEF Groei
  <1>2. WegIsKwijt'
    BY DEF VInv, WegIsKwijt
  <1>3. \A m \in Lader : lader'[m] = lader[m] \/ Vooraan(m)'
    BY RustFeit DEF Vooraan, Actief
  <1> QED
    BY <1>1, <1>2, <1>3, Stap

(* A row keeps its laadproces when its status is written, and is not gone   *)
(* when it was not.                                                         *)
LEMMA StatusStap ==
    ASSUME VInv, Inv', NEW c \in DOMAIN bericht, NEW s \in {"RSGB_OK", "RSGB_NOK"},
           SchrijfStatus(c, s), UNCHANGED <<laadproces, lader, histVars>>
    PROVE  VInv'
  <1>1. \A b \in DOMAIN bericht : bericht[b] \in Rij(DOMAIN laadproces)
    BY RijFeit DEF VInv, Inv
  <1>2. s \in BerichtStatus
    BY DEF BerichtStatus
  <1>3. /\ DOMAIN bericht' = DOMAIN bericht
        /\ \A b \in DOMAIN bericht : bericht'[b].sleutel = bericht[b].sleutel
        /\ \A b \in DOMAIN bericht :
             bericht'[b].status = "WEG" => bericht[b].status = "WEG"
    BY <1>2, SchrijfStatusFeit DEF VInv, Inv
  <1>4. ASSUME NEW b \in DOMAIN bericht PROVE bericht'[b].lp = bericht[b].lp
    BY <1>1, <1>4 DEF SchrijfStatus, Rij
  <1> QED
    BY <1>3, <1>4, RijenStap DEF histVars

LEMMA VerwijderBerichtenV ==
    ASSUME VInv, Inv', NEW p \in DOMAIN laadproces, VerwijderBerichten(p)
    PROVE  VInv'
  <1>1. UNCHANGED <<laadproces, lader, ooit, bekend, gesloten>>
    BY DEF VerwijderBerichten
  <1>2. \A b \in DOMAIN bericht : bericht[b] \in Rij(DOMAIN laadproces)
    BY RijFeit DEF VInv, Inv
  <1>3. kwijt \subseteq kwijt' /\ DOMAIN bericht' = DOMAIN bericht
    BY DEF VerwijderBerichten
  <1>4. ASSUME NEW b \in DOMAIN bericht
        PROVE  /\ bericht'[b].sleutel = bericht[b].sleutel
               /\ bericht'[b].lp = bericht[b].lp
               /\ bericht'[b].status = "WEG"
                    => bericht[b].status = "WEG" \/ bericht[b].sleutel \in kwijt'
    <2>1. CASE bericht[b].lp = p
      <3>1. bericht[b].sleutel \in kwijt'
        BY <2>1 DEF VerwijderBerichten
      <3>2. bericht'[b] = [bericht[b] EXCEPT !.status = "WEG"]
        BY <2>1 DEF VerwijderBerichten
      <3> QED
        BY <1>2, <3>1, <3>2 DEF Rij
    <2>2. CASE bericht[b].lp # p
      BY <2>2 DEF VerwijderBerichten
    <2> QED
      BY <2>1, <2>2
  <1> QED
    BY <1>1, <1>3, <1>4, RijenStap

LEMMA VerwijderLaadProcesV ==
    ASSUME VInv, Inv', NEW p \in DOMAIN laadproces, VerwijderLaadProces(p)
    PROVE  VInv'
  <1>1. UNCHANGED <<bericht, lader, ooit, bekend, kwijt, gesloten>>
    BY DEF VerwijderLaadProces, histVars
  <1>2. /\ DOMAIN laadproces' = DOMAIN laadproces
        /\ \A q \in DOMAIN laadproces :
             /\ laadproces'[q].bestand = laadproces[q].bestand
             /\ laadproces'[q].status \in {laadproces[q].status, "WEG"}
    <2>1. CASE laadproces' = laadproces
      BY <2>1
    <2>2. CASE laadproces' = [laadproces EXCEPT ![p].status = "WEG"]
      <3>1. PICK e : e = [laadproces[p] EXCEPT !.status = "WEG"]
        OBVIOUS
      <3>2. laadproces[p] \in LpRij
        BY LpFeit DEF VInv, Inv
      <3>3. e.status = "WEG" /\ e.bestand = laadproces[p].bestand
        BY <3>1, <3>2 DEF LpRij
      <3>4. laadproces' = [laadproces EXCEPT ![p] = e]
        BY <2>2, <3>1
      <3>5. laadproces \in Seq(LpRij)
        BY DEF VInv, Inv, TypeOK, LpRij
      <3>6. laadproces \in Seq(LpRij \union {e})
        BY <3>5
      <3>7. /\ DOMAIN laadproces' = DOMAIN laadproces /\ laadproces'[p] = e
            /\ \A q \in DOMAIN laadproces : q # p => laadproces'[q] = laadproces[q]
        BY <3>4, <3>6, RijAnders
      <3> QED
        BY <3>3, <3>7
    <2> QED
      BY <2>1, <2>2 DEF VerwijderLaadProces
  <1> QED
    BY <1>1, <1>2, RijenStap

(* Each step keeps the books.                                               *)
LEMMA NextV ==
    ASSUME VInv, [Next]_vars
    PROVE  VInv'
  <1>0. Inv'
    BY NextInv, StagingAannames DEF VInv
  <1>1. ASSUME NEW l \in Lader, NEW f \in Bestand, Begin(l, f) PROVE VInv'
    BY <1>0, <1>1, BeginV
  <1>2. ASSUME NEW l \in Lader, LeesKapot(l) PROVE VInv'
    BY <1>0, <1>2, LeesKapotV
  <1>3. ASSUME NEW l \in Lader, Lees(l) PROVE VInv'
    BY <1>0, <1>3, LeesV
  <1>4. ASSUME NEW l \in Lader, WriteBericht(l) PROVE VInv'
    BY <1>0, <1>4, WriteBerichtV
  <1>5. ASSUME NEW l \in Lader, WriteBerichtMislukt(l) PROVE VInv'
    BY <1>0, <1>5, WriteBerichtMisluktV
  <1>6. ASSUME NEW l \in Lader, UpdateBericht(l) PROVE VInv'
    BY <1>0, <1>6, UpdateBerichtV
  <1>7. ASSUME NEW l \in Lader, SlaOver(l) PROVE VInv'
    BY <1>0, <1>7, SlaOverV
  <1>8. ASSUME NEW l \in Lader, WriteLaadProces(l) PROVE VInv'
    BY <1>0, <1>8, WriteLaadProcesV
  <1>9. ASSUME NEW l \in Lader, Sluit(l) PROVE VInv'
    BY <1>0, <1>9, SluitV
  <1>10. ASSUME NEW p \in DOMAIN laadproces, VerwijderBerichten(p) PROVE VInv'
    BY <1>0, <1>10, VerwijderBerichtenV
  <1>11. ASSUME NEW p \in DOMAIN laadproces, VerwijderLaadProces(p) PROVE VInv'
    BY <1>0, <1>11, VerwijderLaadProcesV
  <1>12. ASSUME UNCHANGED <<laadproces, bericht, histVars>>,
                \A m \in Lader : lader'[m] \in {lader[m], Rust}
         PROVE  VInv'
    BY <1>0, <1>12, RijenStap DEF histVars
  <1>13. CASE StartRun \/ VulJob \/ Hervat \/ NietsTeDoen \/ RemoveJob \/ RunKlaar
    BY <1>12, <1>13 DEF StartRun, VulJob, Hervat, NietsTeDoen, RemoveJob, RunKlaar,
                        stagingVars
  <1>14. CASE RunAfgebroken \/ Crash
    <2>1. UNCHANGED <<laadproces, bericht, ooit, bekend, gesloten, kwijt>>
      BY <1>14 DEF RunAfgebroken, Crash, stagingVars
    <2>2. \A m \in Lader : lader'[m] \in {lader[m], Rust}
      BY <1>14 DEF RunAfgebroken, Crash
    <2> QED
      BY <1>0, <2>1, <2>2, RijenStap
  <1>15. CASE UNCHANGED vars
    BY <1>12, <1>15 DEF vars, stagingVars
  <1>16. ASSUME NEW j \in rij, UpdateStatus(j) \/ Mislukt(j) PROVE VInv'
    <2>1. j.id \in DOMAIN bericht
      BY JobFeit DEF VInv, Inv
    <2> QED
      BY <1>0, <1>16, <2>1, StatusStap DEF UpdateStatus, Mislukt
  <1>17. CASE \/ \E j \in job : LeesRij(j)
              \/ \E j \in rij : SlaOp(j) \/ StatusNietGeschreven(j)
    BY <1>12, <1>17 DEF LeesRij, SlaOp, StatusNietGeschreven, stagingVars
  <1> QED
    BY <1>1, <1>2, <1>3, <1>4, <1>5, <1>6, <1>7, <1>8, <1>9, <1>10, <1>11,
       <1>13, <1>14, <1>15, <1>16, <1>17 DEF Next

(***************************************************************************)
(* The theorems.                                                           *)
(***************************************************************************)
(* The books of the threads, and what they make of closed laadprocessen.    *)
THEOREM Boekhoudingen == Spec => []VInv
  <1>1. Init => VInv
    BY InitV
  <1>2. VInv /\ [Next]_vars => VInv'
    BY NextV
  <1> QED
    BY <1>1, <1>2, PTL DEF Spec

(* A laadproces that loadBr closed without errors hides nothing: each       *)
(* bericht of its file was written, was transformed before, or its key was  *)
(* deleted, whatever the other threads did meanwhile.                       *)
THEOREM AllesVerantwoord == Spec => []NietsVerzwegen
  <1>1. VInv => NietsVerzwegen
    BY DEF VInv
  <1> QED
    BY <1>1, Boekhoudingen, PTL

(* A laadproces is called a duplicate only when no row is there because of  *)
(* it, and none comes later.                                                *)
THEOREM DuplicaatIsLeeg == Spec => []DuplicaatBekend
  <1>1. VInv => DuplicaatBekend
    BY DEF VInv
  <1> QED
    BY <1>1, Boekhoudingen, PTL
=============================================================================
