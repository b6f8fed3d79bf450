--------------------------- MODULE MCGridSelectie ---------------------------
(* Grids of up to three rows on pages of two.                               *)
EXTENDS GridSelectie, TLC

MCNummers == 1..3
MCTabellen == {<<"open", "klaar", "open">>}
MCGeneraties == 0..5
MCWeinigGeneraties == 0..2
MCExact == -1
MCSchattingen == {-1, 0, 4}
MCAlleenExact == {-1}
AllePaginas == {"berichten", "laadprocessen", "nhr"}
=============================================================================
