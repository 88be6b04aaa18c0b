----------------------------- MODULE MCRecheck -----------------------------
(***************************************************************************)
(* Recheck on one cell.  MCPublish has the runs in which it all holds.     *)
(***************************************************************************)
EXTENDS Recheck

OneCell == <<"yo">>

=============================================================================
