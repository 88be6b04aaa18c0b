----------------------------- MODULE Statistics -----------------------------
(***************************************************************************)
(* The reduction of a cell to its four aggregates (crates/cb-stats): the   *)
(* corrected one (correct.rs), and the original's with its four defects    *)
(* (upstream.rs), in which a run count shared by the four calls shrinks    *)
(* from one to the next and the SET results are sorted by the counters.    *)
(*                                                                         *)
(* A throughput is an integer, and of the counters three are here: the     *)
(* cycles, one of the other five the original averages, and one of the two *)
(* it does not.  A mean is a sum and what it is over.  The deviation is in *)
(* Spread.                                                                 *)
(***************************************************************************)
EXTENDS Integers, SequencesExt

CONSTANTS
  Inputs,               \* the cells to reduce
  FEWEST,               \* the fewest runs `choose` gives to either mode
  sort_by(_),           \* the standard library's: the runs in the order of a key
  sort_slice(_, _, _)   \* gosort.rs: by a comparison, the list, its length

VARIABLES
  cell,     \* the runs: what each is of, its SET and GET throughput, its
            \* counters
  compat,   \* which mode
  count,    \* upstream's count of runs
  files,    \* the aggregates so far, in the order of Kind::ALL
  refused   \* why the cell was refused

vars == <<cell, compat, count, files, refused>>

ALL == <<"median", "best", "worst", "average">>
Halves == {"sets", "gets"}

\* A counter of a run: not there, a text that is no number, or a number.
Counters == {"cycles", "branches", "secsuser"}
Missing  == [is |-> "missing"]
Text     == [is |-> "text"]
Value(value, over) == [is |-> "number", value |-> value, over |-> over]

as_f64(counter)      == IF counter.is = "number" THEN counter.value ELSE 0
is_measured(counter) == counter.is = "number"
has_cycles(perf)     == perf["cycles"] # Missing

\* gosort.rs: a comparison, on the key of the elements, ascending, or on a
\* list that is read at the positions and never moved, descending.
ByKey(key)   == [own |-> TRUE, key |-> key]
Aliased(key) == [own |-> FALSE, key |-> key]

(***************************************************************************)
(* What is taken for granted of the cells and the two sorts: that a sort   *)
(* by a key puts every run somewhere, and no key before a smaller one.     *)
(***************************************************************************)
CyclesOf(c) == [r \in 1..c.n |-> as_f64(c.perf[r]["cycles"])]

\* What the shared count of the original comes to from call to call.
Fewer(n)   == IF n <= 10 THEN n ELSE n - 2 * (n \div 10)
Counts(n) == {n, Fewer(n), Fewer(Fewer(n)), Fewer(Fewer(Fewer(n)))}

Ascends(order, key, n) ==
  /\ order \in [1..n -> 1..n]
  /\ \A i, j \in 1..n : i < j => order[i] # order[j] /\ key[order[i]] <= key[order[j]]

ASSUME InputsAssumption ==
  /\ FEWEST \in Nat /\ FEWEST >= 3
  /\ \A c \in Inputs :
       /\ c.n \in Nat /\ {c.sets, c.gets} \subseteq [1..c.n -> Nat]
       /\ \A r \in 1..c.n : \A k \in Counters :
            c.perf[r][k] \in {Missing, Text} \/ (is_measured(c.perf[r][k]) /\ c.perf[r][k].value \in Nat)

ASSUME SortsAssumption ==
  /\ \A key \in UNION {{c.sets, c.gets, CyclesOf(c)} : c \in Inputs} :
       Ascends(sort_by(key), key, Len(key))
  /\ \A key \in {c.gets : c \in Inputs} : \A m \in Counts(Len(key)) :
       LET data == sort_slice(ByKey(key), [i \in 0..(m - 1) |-> i + 1], m)
       IN  Ascends([i \in 1..m |-> data[i - 1]], key, m)

Cycles == CyclesOf(cell)

Init ==
  /\ cell \in Inputs
  /\ compat \in {"corrected", "upstream"}
  /\ count = cell.n /\ files = <<>> /\ refused = ""

(***************************************************************************)
(* What makes a cell unusable, in the order it is looked for.              *)
(***************************************************************************)
check ==
  LET with == {r \in 1..cell.n : has_cycles(cell.perf[r])}
  IN  IF cell.n = 0 THEN "empty"
      ELSE IF \E r \in 1..cell.n : cell.of[r] # cell.of[1] THEN "not one cell"
      ELSE IF with \notin {{}, 1..cell.n} THEN "mixed perf"
      ELSE ""

trim_for(n) == IF n > 10 THEN n \div 10 ELSE 0

(***************************************************************************)
(* correct.rs.  Positions count from zero, as in the code.                 *)
(***************************************************************************)
Total(key, window) == SumFunction([i \in DOMAIN window |-> key[window[i]]])
Pick(series, window, at) == series[window[at + 1]]
Mean(key, window, n) == Value(Total(key, window), n)

\* Mutant: the upper of the two in the middle.
index_one_above(kind, n) ==
  CASE kind = "worst"  -> 0
    [] kind = "median" -> n \div 2
    [] kind = "best"   -> n - 1

index(kind, n) ==
  CASE kind = "worst"  -> 0
    [] kind = "median" -> (n - 1) \div 2
    [] kind = "best"   -> n - 1

Trimmed(key) == LET t == trim_for(cell.n) IN SubSeq(sort_by(key), t + 1, cell.n - t)

Op(kind, key) ==
  LET window == Trimmed(key)
  IN  IF kind = "average" THEN Mean(key, window, Len(window))
      ELSE Value(Pick(key, window, index(kind, Len(window))), 1)

\* The first in the window that is no number stands for all of them.
mean_counter(counter, window) ==
  LET values == [i \in DOMAIN window |-> cell.perf[window[i]][counter]]
      odd    == {i \in DOMAIN window : ~is_measured(values[i])}
  IN  IF odd # {} THEN values[Min(odd)]
      ELSE Value(SumFunction([i \in DOMAIN window |-> as_f64(values[i])]), Len(window))

mean_perf(window) ==
  IF \A r \in Range(window) : has_cycles(cell.perf[r])
  THEN [c \in Counters |-> mean_counter(c, window)]
  ELSE [c \in Counters |-> Missing]

Perf(kind) ==
  LET window == Trimmed(Cycles)
  IN  IF kind = "average" THEN mean_perf(window)
      ELSE Pick(cell.perf, window, index(kind, Len(window)))

\* The nearest rank.
rank(key, percentile) ==
  LET at == (percentile * cell.n + 99) \div 100
  IN  key[sort_by(key)[IF at = 0 THEN 1 ELSE at]]

choose(kind) ==
  [kind |-> kind, read |-> cell.n, info |-> 1,
   sets |-> Op(kind, cell.sets), gets |-> Op(kind, cell.gets), perf |-> Perf(kind),
   spread |-> [s \in Halves |-> <<rank(cell[s], 25), rank(cell[s], 75)>>]]

(***************************************************************************)
(* upstream.rs: the first `count` runs, three sorts of which the third     *)
(* permutes the SET results by the counters, a trim by the count.          *)
(***************************************************************************)
AsGo(key)     == [i \in 0..(count - 1) |-> key[i + 1]]
FromGo(order) == [i \in 1..count |-> order[i - 1]]
InOrder       == [i \in 0..(count - 1) |-> i + 1]

\* Mutant: the GET results are put in the order of the counters as well.
gets_by_counters == sort_slice(Aliased(AsGo(Cycles)), sort_slice(ByKey(cell.gets), InOrder, count), count)

gets_sorted == sort_slice(ByKey(cell.gets), InOrder, count)
sets_sorted == sort_slice(Aliased(AsGo(Cycles)), sort_slice(ByKey(cell.sets), InOrder, count), count)

outs == IF count <= 10 THEN 0 ELSE count \div 10

trim(order) == SubSeq(FromGo(order), outs + 1, count - outs)

\* Mutant: one position further on.
index_upstream_two_above(kind, runs) ==
  CASE kind = "worst"  -> 0
    [] kind = "best"   -> runs - 1
    [] kind = "median" -> runs \div 2 + 2

index_upstream(kind, runs) ==
  CASE kind = "worst"  -> 0
    [] kind = "best"   -> runs - 1
    [] kind = "median" -> runs \div 2 + 1

\* What takes part in the mean of six counters, and what the original writes
\* as a number: the other two stay as the first run, or the chosen, has them.
SIX == {"cycles", "branches"}

mean_perf_upstream(window, left) ==
  LET first == cell.perf[window[1]]
      total(c) == SumFunction([i \in DOMAIN window |-> as_f64(cell.perf[window[i]][c])])
  IN  IF ~has_cycles(first) THEN first
      ELSE [c \in Counters |-> IF c \in SIX THEN Value(total(c), left) ELSE first[c]]

clean(perf) ==
  IF ~has_cycles(perf) THEN perf
  ELSE [c \in Counters |-> IF c \in SIX /\ perf[c] = Text THEN Value(0, 1) ELSE perf[c]]

Op_upstream(kind, key, window, left) ==
  IF kind = "average" THEN Mean(key, window, left)
  ELSE Value(Pick(key, window, index_upstream(kind, left)), 1)

Perf_upstream(kind, window, left) ==
  IF kind = "average" THEN mean_perf_upstream(window, left)
  ELSE Pick(cell.perf, window, index_upstream(kind, left))

choose_one(kind, left) ==
  [kind |-> kind, read |-> count, info |-> count,
   sets |-> Op_upstream(kind, cell.sets, trim(sets_sorted), left),
   gets |-> Op_upstream(kind, cell.gets, trim(gets_sorted), left),
   perf |-> clean(Perf_upstream(kind, trim(InOrder), left))]

(***************************************************************************)
(* One call at a time.                                                     *)
(***************************************************************************)
Kind == ALL[Len(files) + 1]
More == refused = "" /\ Len(files) < Len(ALL)

Refuses ==
  /\ More /\ check # ""
  /\ refused' = check
  /\ UNCHANGED <<cell, compat, count, files>>

Corrects ==
  /\ More /\ check = "" /\ compat = "corrected"
  /\ files' = Append(files, choose(Kind))
  /\ UNCHANGED <<cell, compat, count, refused>>

Remaining == count - 2 * outs
Fits == IF Kind = "average" THEN TRUE ELSE index_upstream(Kind, Remaining) < Remaining

Replays ==
  /\ More /\ check = "" /\ compat = "upstream"
  /\ Fits
  /\ files' = Append(files, choose_one(Kind, Remaining))
  /\ count' = Remaining
  /\ UNCHANGED <<cell, compat, refused>>

WouldPanic ==
  /\ More /\ check = "" /\ compat = "upstream"
  /\ ~Fits
  /\ refused' = "would panic"
  /\ UNCHANGED <<cell, compat, count, files>>

Next == Refuses \/ Corrects \/ Replays \/ WouldPanic

StatisticsSpec == Init /\ [][Next]_vars

-----------------------------------------------------------------------------
(***************************************************************************)
(* Properties.                                                             *)
(***************************************************************************)
Below(key, n, v) == Cardinality({r \in 1..n : key[r] < v})
Above(key, n, v) == Cardinality({r \in 1..n : key[r] > v})

Tenth(n) == IF n > 10 THEN n \div 10 ELSE 0

\* v stands at that position, from zero, when the first n runs are in order.
HasRank(key, n, v, at) == Below(key, n, v) <= at /\ Above(key, n, v) <= n - 1 - at

File(kind) == CHOOSE f \in Range(files) : f.kind = kind

\* What corrected mode calls the median, the best and the worst is that by its
\* rank among all runs of the cell, and not only among those the trim leaves:
\* the lower median, and the runs with exactly the trimmed ones beyond them.
\* The mean lies between the worst and the best, and the quartiles of the
\* whole cell enclose the median of the trimmed one.  A mean of a counter is of
\* numbers that were counted: it is within them, and as many runs as the trim
\* takes away, at most, are without the counter.
CorrectedIsRanked ==
  compat = "corrected" /\ Len(files) = 4 =>
    LET n == cell.n
        t == Tenth(n)
        at(kind) == CASE kind = "worst"  -> t
                      [] kind = "median" -> (n - 1) \div 2
                      [] kind = "best"   -> n - 1 - t
    IN  /\ \A s \in Halves :
             LET is(kind) == File(kind)[s].value
                 mean == File("average")[s]
             IN  /\ \A kind \in {"worst", "median", "best"} : HasRank(cell[s], n, is(kind), at(kind))
                 /\ is("worst") * mean.over <= mean.value /\ mean.value <= is("best") * mean.over
                 /\ \A f \in Range(files) : f.spread[s][1] <= is("median") /\ is("median") <= f.spread[s][2]
        /\ \A kind \in {"worst", "median", "best"} :
             HasRank(Cycles, n, as_f64(File(kind).perf["cycles"]), at(kind))
        /\ \A c \in Counters :
             LET mean    == File("average").perf[c]
                 counted == {r \in 1..n : is_measured(cell.perf[r][c])}
                 values  == {cell.perf[r][c].value : r \in counted}
             IN  is_measured(mean) =>
                   /\ Cardinality(counted) >= n - 2 * t
                   /\ Min(values) * mean.over <= mean.value /\ mean.value <= Max(values) * mean.over

\* A cell of as many runs as `choose` asks for is never one on which the
\* original would read past its slice, however far the shared count has shrunk.
EnoughIsReadable == refused = "would panic" => cell.n < FEWEST

\* However the runs are ordered on the way in, each GET result of upstream
\* mode has the rank its index says among the runs that were opened for it.
UpstreamGetsAreRanked ==
  compat = "upstream" => \A f \in Range(files) \ {g \in Range(files) : g.kind = "average"} :
    LET n == f.read
        t == Tenth(n)
        w == n - 2 * t
    IN  HasRank(cell.gets, n, f.gets.value,
                t + CASE f.kind = "worst"  -> 0
                      [] f.kind = "best"   -> w - 1
                      [] f.kind = "median" -> w \div 2 + 1)

=============================================================================
