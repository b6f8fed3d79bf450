--------------------------- MODULE Transformatie ---------------------------
(***************************************************************************)
(* What a transformation run of the loader promises, without saying how:   *)
(* the berichten that were selected are processed into the RSGB one at a   *)
(* time, always the oldest one that is left, and - when errors stop the    *)
(* run - never one that comes after a bericht that failed.                 *)
(*                                                                         *)
(* BerichtPipeline, with its two threads, its queue and its job table,     *)
(* implements this module.                                                 *)
(***************************************************************************)
EXTENDS Naturals

CONSTANT Bericht            \* the berichten, numbered in processing order

VARIABLES wacht,            \* selected for this run and not yet tried
          fout,             \* the berichten that failed in this run
          stop,             \* TRUE: an error ends the run
          ronde             \* number of the run

vars == <<wacht, fout, stop, ronde>>

Init == /\ wacht = {}
        /\ fout = {}
        /\ stop \in BOOLEAN
        /\ ronde = 0

(* A run starts with a new selection; what an earlier one left is gone.     *)
Kies == /\ wacht' \in SUBSET Bericht
        /\ fout' = {}
        /\ ronde' = ronde + 1
        /\ UNCHANGED stop

(* The oldest bericht that is left goes to the RSGB.                        *)
Verwerk(b) == /\ b \in wacht
              /\ \A c \in wacht : b <= c
              /\ stop => \A c \in fout : b < c
              /\ wacht' = wacht \ {b}
              /\ UNCHANGED <<fout, stop, ronde>>

(* A bericht is rejected: it cannot be read, or it cannot be stored.        *)
Keur_af(b) == /\ b \in wacht
              /\ wacht' = wacht \ {b}
              /\ fout' = fout \union {b}
              /\ UNCHANGED <<stop, ronde>>

Next == Kies \/ \E b \in Bericht : Verwerk(b) \/ Keur_af(b)

Spec == Init /\ [][Next]_vars

=============================================================================
