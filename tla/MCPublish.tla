----------------------------- MODULE MCPublish -----------------------------
(***************************************************************************)
(* Publish, and with it Recheck, on one cell with one run more than        *)
(* `choose` asks for, so that it can lose a run and still be reduced.      *)
(***************************************************************************)
EXTENDS Publish

\* Its name sorts behind runs/refused.
OneCell == <<"yo">>

\* Four names sort as their numbers do.
AsNumbers == [s \in 1..Slots |-> s]

=============================================================================
