---------------------------- MODULE SweepRefines ----------------------------
(***************************************************************************)
(* The sweep implements the campaign: what a session owes is what is left  *)
(* to measure ahead of its place in the plan.                              *)
(***************************************************************************)
EXTENDS Sweep

\* A place in the plan whose outcome this session has not counted yet.
Ahead(i) == i > at \/ (i = at /\ pc # "note")

Results == {c \in Cells : runs[c] = "whole"}

Owing == {c \in todo : \E i \in 1..Len(Plan) : Ahead(i) /\ Plan[i] = c}

Verdict == IF exit \in {"ok", "missing"} THEN exit ELSE "none"

Promise == INSTANCE Campaign WITH
  results  <- Results,
  counted  <- failures.attempts,
  kept     <- recorded.attempts,
  owed     <- Owing,
  down     <- failures.abandoned,
  verdict  <- Verdict

\* Whatever is killed, torn or lost on the way, and whatever is measured by
\* hand between two sessions, the sweep does what a campaign promises: each
\* cell it owes is attempted once, none it does not owe, engines are put down
\* for reasons, and the verdict comes when nothing is owed.
KeepsThePromise == Promise!Spec

=============================================================================
