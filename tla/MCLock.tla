------------------------------- MODULE MCLock -------------------------------
(***************************************************************************)
(* Lock on three interchangeable pids.                                     *)
(***************************************************************************)
EXTENDS Lock, TLC

PidSymmetry == Permutations(Pids)

=============================================================================
