------------------------------- MODULE Charts -------------------------------
(***************************************************************************)
(* What a chart shows: the charts there are (crates/cb-chart/src/spec.rs), *)
(* the values picked for one out of output.json (series.rs), its y axis    *)
(* (axis.rs) and how much of the plot each bar fills (render.rs).          *)
(*                                                                         *)
(* A file name says exactly what is in a Spec, so a chart is its Spec.     *)
(* Rates are in thousandths of an operation a second, latencies in         *)
(* nanoseconds, as the decimals of the file are.                           *)
(***************************************************************************)
EXTENDS Integers, Sequences, SequencesExt

CONSTANTS
  Which,        \* the halves of a run: sets and gets
  PIPELINES,    \* the depths the sweep uses
  PERCENTILES,  \* the latency figures; P99 is one
  ASSIGNED,     \* the engines with a colour
  MOST          \* bound on what is plotted: up to that power of ten

ASSUME ChartsAssumption == 1 \in PIPELINES /\ "P99" \in PERCENTILES

\* A whole power of ten is a number, above the powers before it.
ASSUME DecadesAssumption ==
  /\ MOST \in Nat /\ 10 ^ 0 = 1
  /\ \A e, f \in 0..MOST : 10 ^ e \in Nat /\ (e < f => 10 ^ e < 10 ^ f)

(***************************************************************************)
(* The charts there are.                                                   *)
(***************************************************************************)
Scales == {"logarithmic", "linear"}

Throughput(which) == [slug |-> "opsec", percentile |-> "-", which |-> which]
Latency(p, which) == [slug |-> "latency", percentile |-> p, which |-> which]
CpuCycles         == [slug |-> "cpucycles", percentile |-> "-", which |-> "-"]

Metrics == {Throughput(w) : w \in Which} \cup {CpuCycles}
             \cup {Latency(p, w) : p \in PERCENTILES, w \in Which}

Spec(metric, pipeline, scale, case) ==
  [metric |-> metric, pipeline |-> pipeline, scale |-> scale, case |-> case]

Redraws(pipeline) ==
  {Spec(Latency("P99", w), pipeline, "linear", "noGarnetAtOneThread") : w \in Which}

All ==
  {Spec(m, p, s, "none") : m \in Metrics, p \in PIPELINES, s \in Scales} \cup Redraws(1)

Drops(spec, cache, threads) ==
  spec.case = "noGarnetAtOneThread" /\ cache = "garnet" /\ threads = 1

(***************************************************************************)
(* The corpus: entries of output.json, a sequence.  The first of several   *)
(* with one key is the one.                                                *)
(***************************************************************************)
BadCorpus(entries) == entries = <<>> \/ \E e \in Range(entries) : e.cache \notin ASSIGNED

Caches(entries)  == {e.cache : e \in Range(entries)}
Threads(entries) == {e.threads : e \in Range(entries)}

\* The members of a set of numbers, from the least up.
Ascending(S) == [k \in 1..Cardinality(S) |-> CHOOSE x \in S : Cardinality({y \in S : y < x}) = k - 1]

\* In the order of the file, and from few to many.
Firsts(entries) == {i \in DOMAIN entries : \A j \in 1..(i - 1) : entries[j].cache # entries[i].cache}
Series(entries) == [k \in 1..Cardinality(Firsts(entries)) |-> entries[Ascending(Firsts(entries))[k]].cache]
Groups(entries) == Ascending(Threads(entries))

Cells(entries, spec, cache, threads) ==
  {i \in DOMAIN entries :
     /\ entries[i].cache = cache /\ entries[i].threads = threads
     /\ entries[i].pipeline = spec.pipeline
     /\ entries[i].kind = "median"
     /\ entries[i].hasCycles = (spec.metric = CpuCycles)}

(***************************************************************************)
(* The three conversions: truncated twice, and twice to the nearest with a *)
(* tie to the even number.                                                 *)
(***************************************************************************)
Nearest(n, d) ==
  LET whole == n \div d
      over  == 2 * (n % d)
  IN  IF over > d \/ (over = d /\ whole % 2 = 1) THEN whole + 1 ELSE whole

Kops(opsec) == (opsec \div 1000) \div 1000
Micros(latency) == Nearest(latency, 1000)
PerOperation(cycles, operations) == Nearest(cycles, 2 * operations)

NoPoint == -1

Absent(compat) == IF compat = "upstream" THEN 0 ELSE NoPoint

Read(entry, spec, compat, operations) ==
  CASE spec.metric.slug = "opsec" -> Kops(entry.opsec[spec.metric.which])
    [] spec.metric.slug = "latency" ->
         Micros(entry.latency[spec.metric.which][spec.metric.percentile])
    [] OTHER -> IF entry.measured THEN PerOperation(entry.cycles, operations)
                ELSE Absent(compat)

Point(entries, compat, spec, cache, threads) ==
  LET cells == Cells(entries, spec, cache, threads)
  IN  IF Drops(spec, cache, threads) \/ cells = {} THEN Absent(compat)
      ELSE Read(entries[Min(cells)], spec, compat, entries[1].operations)

Chart(entries, compat, spec) ==
  [bar \in Caches(entries) \X Threads(entries) |->
     Point(entries, compat, spec, bar[1], bar[2])]

(***************************************************************************)
(* The axis: from the bars that have a value.  A logarithmic one goes from *)
(* a power of ten to a power of ten, with a tick at each and seven lines   *)
(* between two.  A linear one goes from zero to a tenth above the tallest  *)
(* bar, with twenty ticks and three lines between two.                     *)
(*                                                                         *)
(* A tick or a line is where it is on the axis: in eighths of a decade, or *)
(* in quarters of the gap of two ticks.                                    *)
(***************************************************************************)
Values(chart) == Range(chart) \ {NoPoint}

Unscalable(scale, chart) ==
  Values(chart) # {} => scale = "logarithmic" /\ Min(Values(chart)) <= 0

EXPONENTS == 0..MOST

\* Mutant: the power below the tallest bar.
TopBelow(high) == Max({e \in EXPONENTS : 10 ^ e <= high})

Top(high)   == Min({e \in EXPONENTS : high <= 10 ^ e})
Bottom(low) == Max({e \in EXPONENTS : 10 ^ e <= low})

EIGHTHS  == 8
QUARTERS == 4
GAPS     == 19

logarithmic(low, high) ==
  LET b == Bottom(low)
      t == Top(high)
  IN  [unit |-> 1, bottom |-> 10 ^ b, top |-> 10 ^ t,
       ticks |-> {[at |-> EIGHTHS * e, label |-> 10 ^ e] : e \in b..t},
       lines |-> {i \in (EIGHTHS * b)..(EIGHTHS * t - 1) : i % EIGHTHS # 0}]

\* In tenths.  A label is cut off, not rounded.
linear(high) ==
  [unit |-> 10, bottom |-> 0, top |-> 11 * high,
   ticks |-> {[at |-> QUARTERS * i, label |-> (11 * high * i) \div (10 * GAPS)] : i \in 0..GAPS},
   lines |-> {i \in 0..(QUARTERS * GAPS) : i % QUARTERS # 0}]

Axis(scale, chart) ==
  IF scale = "logarithmic" THEN logarithmic(Min(Values(chart)), Max(Values(chart)))
  ELSE linear(Max(Values(chart)))

(***************************************************************************)
(* The plot.  How far up it a bar goes is in the axis's own units; when    *)
(* the axis has no length the height is not a number, and its maximum with *)
(* the edge of the plot is the edge.  How far across is in two hundredths  *)
(* of the way from one thread count to the next.                           *)
(***************************************************************************)
UNIT      == 200
BAR_WIDTH == 24

\* The colours there are make a group of bars that fits between two groups.
ASSUME ColoursAssumption == IsFiniteSet(ASSIGNED) /\ BAR_WIDTH * Cardinality(ASSIGNED) <= UNIT

Height(v, axis) ==
  IF v = NoPoint THEN 0
  ELSE IF axis.top = axis.bottom THEN 1
  ELSE Min({v * axis.unit, axis.top}) - axis.bottom

Place(row, x) == CHOOSE at \in DOMAIN row : row[at] = x

end_gap(caches) == (UNIT - BAR_WIDTH * caches) \div 2

Left(at, which, caches) == UNIT * (at - 1) + end_gap(caches) + BAR_WIDTH * (which - 1)

\* Bars::xtick: the middle of the places the bars are put at.
XTick(at, caches) == UNIT * (at - 1) + end_gap(caches) + (BAR_WIDTH * (caches - 1)) \div 2

\* One engine after another in the legend, as in every group of bars.
Render(scale, chart, series, groups) ==
  LET axis   == Axis(scale, chart)
      caches == Len(series)
  IN  [axis |-> axis, legend |-> series,
       labels |-> [at \in DOMAIN groups |-> [threads |-> groups[at], x |-> XTick(at, caches)]],
       bars |-> [bar \in DOMAIN chart |->
          [value |-> chart[bar], height |-> Height(chart[bar], axis),
           x0 |-> Left(Place(groups, bar[2]), Place(series, bar[1]), caches)]]]

=============================================================================
