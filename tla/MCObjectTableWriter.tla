------------------------ MODULE MCObjectTableWriter ------------------------
(* Loads for TLC: streams of three or four objects.                        *)
EXTENDS ObjectTableWriter

M(oud, nieuw, attr) == [oud |-> oud, nieuw |-> nieuw, attr |-> attr]
Oud(k) == [tabel |-> "hoofd", sleutel |-> k, bron |-> <<0, k>>]
Lading(soort, draden, initieel, dubbel, begin, bestanden) ==
    [soort |-> soort, draden |-> draden, initieel |-> initieel,
     dubbel |-> dubbel, begin |-> begin, bestanden |-> bestanden]

(* A first load over the rows of an earlier one.                           *)
Stand(d) == Lading("BGT", d, {1}, FALSE, {Oud(1)},
                   <<<<M(0, 2, TRUE), M(0, 3, FALSE), M(0, 4, TRUE),
                       M(0, 5, FALSE)>>>>)
(* New versions, one that is historic, and one that is only new.           *)
Delta(d) == Lading("BGT", d, {}, FALSE, {Oud(1), Oud(2), Oud(3)},
                   <<<<M(1, 11, TRUE), M(2, 0, FALSE), M(0, 12, FALSE)>>,
                     <<M(3, 13, TRUE), M(11, 14, FALSE)>>>>)
(* Two gemeenten whose files share an object.                              *)
Gemeenten(d) == Lading("BAG2", d, {1}, TRUE, {},
                       <<<<M(0, 1, TRUE), M(0, 2, FALSE)>>,
                         <<M(0, 2, FALSE), M(0, 3, TRUE), M(0, 4, FALSE)>>>>)
(* One object changes twice.                                               *)
Mutaties(d) == Lading("BAG2mutatie", d, {}, TRUE, {Oud(1), Oud(2)},
                      <<<<M(1, 1, TRUE), M(2, 2, FALSE), M(1, 1, TRUE),
                          M(0, 3, FALSE)>>,
                        <<M(0, 3, FALSE), M(2, 0, FALSE)>>>>)

AlleLadingen == UNION {{Stand(d), Delta(d), Gemeenten(d), Mutaties(d)} :
                       d \in BOOLEAN}
EenStand == {Stand(TRUE)}
=============================================================================
