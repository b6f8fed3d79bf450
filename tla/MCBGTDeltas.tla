----------------------------- MODULE MCBGTDeltas -----------------------------
(* A first load as the manual has it, one that replaces it, one into the    *)
(* existing tables, and loads with history or of one feature type.          *)
EXTENDS BGTDeltas, TLC

CONSTANTS weg, label

Lading(typen, historie, maak, drop) ==
    [typen |-> typen, historie |-> historie, maak |-> maak, drop |-> drop]
MCKeuzes == {Lading(Typen, FALSE, TRUE, FALSE), Lading(Typen, TRUE, TRUE, TRUE),
             Lading({weg}, FALSE, FALSE, FALSE)}
=============================================================================
