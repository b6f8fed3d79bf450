------------------------- MODULE MCBerichtPipeline -------------------------
(* Instances of BerichtPipeline for TLC.                                   *)
EXTENDS BerichtPipeline

(* Berichten 1 and 3 are about one object, 2 is about another.             *)
MCObjectRef == [b \in Bericht |-> IF b = 2 THEN "p" ELSE "k"]

Instelling(pipe, stopt, sf) == [pipeline |-> pipe, stop |-> stopt,
                                stagingFout |-> sf]
Direct == {Instelling(FALSE, s, f) : s \in BOOLEAN, f \in BOOLEAN}
MetPipeline == {Instelling(TRUE, s, FALSE) : s \in BOOLEAN}
=============================================================================
