--------------------------- MODULE MCBAG2Mutaties ---------------------------
(* BAG files for TLC: gemeenten a and b with a shared object, a stand of day *)
(* 1, periods of a month (days 1 and 2, then 3 and 4) and of a day.          *)
EXTENDS BAG2Mutaties

MCSleutels == {"gedeeld", "a1", "b1", "later"}
MCSoort == [k \in MCSleutels |-> IF k = "b1" THEN "VBO" ELSE "PND"]
MCGemeentenVan == [gedeeld |-> {"a", "b"}, a1 |-> {"a"}, b1 |-> {"b"},
                   later |-> {"a", "b"}]
(* gedeeld: in the stand of both; later: added, then changed the next day;   *)
(* the second month has only a wijziging.                                    *)
MCHistorie == [gedeeld |-> <<0, 2>>, a1 |-> <<0, 1>>, b1 |-> <<0, 3>>,
               later |-> <<1, 2>>]
MCBuiten == {"b1"}

St(g, d) == [stand |-> TRUE, gebied |-> g, van |-> d, tot |-> d]
Mu(g, v, t) == [stand |-> FALSE, gebied |-> g, van |-> v, tot |-> t]
NL == {NLD}
A == {"a"}
B == {"b"}

Standen == {<<St(NL, 1)>>, <<St(A, 1)>>, <<St(A, 1), St(B, 1)>>,
            <<St(A \union B, 1)>>, <<St(A, 1), St(B, 4)>>}
Geweigerd == {<<St(NL, 1), St(A, 1)>>, <<St(A, 1), St(B, 1), St(B, 1)>>}
Landelijk == {<<Mu(NL, 2, 3), Mu(NL, 1, 2)>>,
              <<Mu(NL, 1, 2), Mu(NL, 3, 5), Mu(NL, 1, 3)>>}
Gemeenten == {<<Mu(B, 3, 5), Mu(A, 1, 3), Mu(B, 1, 3), Mu(A, 3, 5)>>,
              <<Mu(A \union B, 1, 3), St(A, 1)>>,
              <<Mu(A, 1, 3), Mu(A, 3, 5)>>}
Gemengd == <<Mu(A, 3, 5), Mu(NL, 1, 3)>>

Opdr(ls, ws) == [commando : {"load"}, levering : ls, wkt : ws]

MCOpdrachten ==
    Opdr(Standen, {"geen", "filter"})
    \union Opdr(Geweigerd, {"geen"})
    \union Opdr(Landelijk \union {Gemengd}, {"geen", "filter"})
    \union Opdr(Gemeenten, {"geen", "ongeldig"})
    \union {[commando |-> "apply", levering |-> <<>>, wkt |-> "geen"],
            [commando |-> "apply",
             levering |-> <<St(A, 1), Mu(A, 1, 3)>>, wkt |-> "geen"]}
=============================================================================
