---------------------------- MODULE MCStagingLoad ----------------------------
(* Two files about the same object. The second also has a bericht that      *)
(* cannot be read and one without an object_ref; a third is empty.          *)
EXTENDS StagingLoad, TLC

CONSTANT k1

MCBestand == {"levering", "correctie", "leeg"}
MCInhoud == [f \in MCBestand |->
               CASE f = "levering" -> <<k1>>
                 [] f = "correctie" -> <<Kapot, k1, GeenRef>>
                 [] f = "leeg" -> <<>>]
Symmetrie == Permutations(Lader)
=============================================================================
