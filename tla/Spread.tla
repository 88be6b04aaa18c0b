------------------------------- MODULE Spread -------------------------------
(***************************************************************************)
(* How noisy a cell was: the coefficient of variation that a chosen file   *)
(* carries (crates/cb-stats/src/correct.rs, deviation), as three decimals  *)
(* (cb-core/src/num.rs), and `cache-bench spread`, which reads it back out *)
(* of output.json (cache-bench/src/spread.rs).                             *)
(*                                                                         *)
(* An entry of output.json is its cell with the rates of its runs, from    *)
(* which the file has its figures.  The variation is the root of a         *)
(* rational and is compared by squares.                                    *)
(***************************************************************************)
EXTENDS Integers, Sequences, FiniteSetsExt, Functions

CONSTANTS
  MILLE,    \* 1000, the last decimal of a figure
  OVER,     \* what a cell has to stay under, in MILLEths
  Reports   \* the output.json files there are

ASSUME SpreadAssumption == MILLE \in Nat \ {0} /\ OVER \in Nat

\* The cell of an entry, which names its four files.
CellOf(entry) == <<entry.cache, entry.threads, entry.pipeline, entry.perf>>

\* What a directory of cells that were reduced to the end is combined to: the
\* four files of a cell have the rates of the same runs, and no two are one.
ASSUME ReportsAssumption ==
  \A o \in Reports :
    /\ DOMAIN o = 1..Len(o) /\ Len(o) \in Nat
    /\ \A i \in DOMAIN o : o[i].sets \in Seq(Nat) /\ o[i].gets \in Seq(Nat)
    /\ \A i, j \in DOMAIN o : CellOf(o[i]) = CellOf(o[j]) =>
         /\ o[i].kind = o[j].kind => i = j
         /\ o[i].sets = o[j].sets /\ o[i].gets = o[j].gets /\ o[i].spread = o[j].spread
    /\ \A i \in DOMAIN o : \E j \in DOMAIN o : CellOf(o[j]) = CellOf(o[i]) /\ o[j].kind = "median"

VARIABLES output, report
spreadVars == <<output, report>>

KINDS == {"median", "best", "worst", "average"}
Unread == [is |-> "unread"]

(***************************************************************************)
(* deviation, and the decimals of it that are kept.                        *)
(***************************************************************************)
SumOf(values)     == SumFunction(values)
SquaresOf(values) == SumFunction([i \in DOMAIN values |-> values[i] * values[i]])

\* The square of n times the deviation, and the variation's by the mean.
Deviation(values) == Len(values) * SquaresOf(values) - SumOf(values) * SumOf(values)

\* Is the variation above a number of halves of the last decimal?
Exceeds(values, halves) ==
  4 * MILLE * MILLE * Deviation(values) > halves * halves * SumOf(values) * SumOf(values)

\* The nearest decimal; a cell that did nothing has none.
Cv(values) ==
  IF SumOf(values) = 0 THEN 0
  ELSE CHOOSE k \in 0..(MILLE * Len(values)) :
         /\ ~Exceeds(values, 2 * k + 1)
         /\ k > 0 => Exceeds(values, 2 * k - 1)

(***************************************************************************)
(* The command.                                                            *)
(***************************************************************************)
\* Mutant: only the SET pass is looked at.
worseOfSets(entry) == Cv(entry.sets)

worse(entry) == Max({Cv(entry.sets), Cv(entry.gets)})

\* One aggregate of the four that carry the spread of one cell.
read == {i \in DOMAIN output : output[i].kind = "median" /\ output[i].spread}

Engines == {output[i].cache : i \in read}

tally(cache) ==
  LET own   == {i \in read : output[i].cache = cache}
      noisy == {i \in own : worse(output[i]) > OVER}
  IN  [worst |-> Max({worse(output[i]) : i \in own}),
       over  |-> Cardinality(noisy),
       at    |-> {output[i].threads : i \in noisy}]

SpreadInit == output \in Reports /\ report = Unread

NoSpread ==
  /\ report = Unread /\ read = {}
  /\ report' = [is |-> "no spread"]
  /\ UNCHANGED output

Tallied ==
  /\ report = Unread /\ read # {}
  /\ LET engines == [cache \in Engines |-> tally(cache)]
     IN  report' = [is |-> "report", engines |-> engines,
                    refused |-> \E cache \in Engines : engines[cache].over > 0]
  /\ UNCHANGED output

SpreadNext == NoSpread \/ Tallied

-----------------------------------------------------------------------------
\* The cells whose variation over all of their runs, in either pass, is above
\* the threshold by more than the rounding of a figure.
Noisy(cache) ==
  {CellOf(output[i]) : i \in
     {j \in DOMAIN output : /\ output[j].spread /\ output[j].cache = cache
                            /\ \/ Exceeds(output[j].sets, 2 * OVER + 1)
                               \/ Exceeds(output[j].gets, 2 * OVER + 1)}}

\* Every noisy cell is counted once, by its worse pass, and named by its
\* threads; no quiet one is; and --check refuses exactly when there is one.
NoisyAreNamed ==
  report.is = "report" =>
    /\ \A cache \in DOMAIN report.engines :
         /\ report.engines[cache].over = Cardinality(Noisy(cache))
         /\ report.engines[cache].at = {cell[2] : cell \in Noisy(cache)}
    /\ report.refused <=> \E cache \in DOMAIN report.engines : Noisy(cache) # {}

=============================================================================
