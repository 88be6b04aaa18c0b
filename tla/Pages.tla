------------------------------- MODULE Pages --------------------------------
(***************************************************************************)
(* What the generated documents say of a results directory: LINEAR.md and  *)
(* LOGARITHMIC.md (crates/cb-docs/src/index.rs) and README.md (readme.rs), *)
(* as functions of what `docs` has read, a record d:                       *)
(*   have, host, profile, output, memory, notes, compat.                   *)
(* Wording is left out: a page is what it shows, claims and leaves out.    *)
(***************************************************************************)
EXTENDS Charts

(***************************************************************************)
(* The two indexes: a block per depth, a section per figure in each, and   *)
(* one section of one document with the two redraws under it.              *)
(***************************************************************************)
SECTIONS ==
  {[slug |-> "opsec", percentile |-> "-"], [slug |-> "cpucycles", percentile |-> "-"]}
    \cup {[slug |-> "latency", percentile |-> p] : p \in PERCENTILES}

plain(section, pipeline, scale) ==
  {Spec(m, pipeline, scale, "none") :
     m \in {x \in Metrics : x.slug = section.slug /\ x.percentile = section.percentile}}

\* Mutant: the redraws are linked from the README alone, as the original does.
drawn_by_hand_nowhere(section, pipeline, scale) == FALSE

hand_drawn(section, pipeline, scale) ==
  scale = "linear" /\ pipeline = 1 /\ section = [slug |-> "latency", percentile |-> "P99"]

charts(section, pipeline, scale) ==
  plain(section, pipeline, scale)
    \cup IF hand_drawn(section, pipeline, scale) THEN Redraws(pipeline) ELSE {}

\* Index::images and Readme::pictures: an image, or a name under "Not drawn".
pictures(specs, have) == [images |-> specs \cap have, gone |-> specs \ have]

provenance(d) ==
  [profile |-> d.host.profile, connections |-> d.profile.connections, notes |-> d.notes]

Index(scale, d) ==
  [sections |-> [x \in SECTIONS \X PIPELINES |-> pictures(charts(x[1], x[2], scale), d.have)],
   measured |-> provenance(d)]

(***************************************************************************)
(* The README.                                                             *)
(***************************************************************************)
one(metric, case) == Spec(metric, 1, "linear", case)
throughput == {one(Throughput(w), "none") : w \in Which}
p99(case)  == {one(Latency("P99", w), case) : w \in Which}
cycles     == {one(CpuCycles, "none")}

versions(entries) ==
  [c \in Caches(entries) |-> (CHOOSE e \in Range(entries) : e.cache = c).version]

kinds(d) == DOMAIN versions(d.output) \cap ASSIGNED

\* The pair is shown folded away, before the redraws, when there is Garnet.
p99s(d) ==
  IF "garnet" \in DOMAIN versions(d.output) THEN <<p99("none"), p99("noGarnetAtOneThread")>>
  ELSE <<p99("none")>>

why(d, gone) ==
  IF gone \subseteq cycles /\ d.host.facts.pmu = "absent" THEN "no PMU"
  ELSE IF gone \subseteq cycles /\ TRUE \notin d.profile.perf THEN "no counters attached"
  ELSE "not in this directory"

Explained(d, specs) ==
  LET shown == pictures(specs, d.have)
  IN  [images |-> shown.images, gone |-> shown.gone,
       why |-> IF shown.gone = {} THEN {} ELSE {why(d, shown.gone)}]

cycles_bullet(d) ==
  IF d.host.facts.pmu = "absent" THEN "no PMU"
  ELSE IF TRUE \notin d.profile.perf THEN "no counters attached"
  ELSE "measured"

\* The matrix the profile asks for, and what of it is plotted when that is less.
KINDS_OF_AGGREGATE == 4
plotted(d) == Len(d.output) \div KINDS_OF_AGGREGATE

shape(d) ==
  LET cells == Cardinality(d.profile.threads) * Cardinality(d.profile.pipelines)
                 * Cardinality(d.profile.perf) * Cardinality(ASSIGNED)
  IN  [cells |-> cells, runs |-> cells * d.profile.runs,
       short |-> IF plotted(d) < cells THEN {plotted(d)} ELSE {}]

bullets(d) ==
  [shape |-> shape(d), statistic |-> d.compat, cycles |-> cycles_bullet(d),
   threads |-> d.profile.threads, pipelines |-> d.profile.pipelines,
   connections |-> d.profile.connections]

hardware(d) ==
  [profile |-> d.host.profile, facts |-> d.host.facts, started |-> d.host.started,
   finished |-> d.host.finished]

benchmarks(d) ==
  [charts |-> Cardinality(d.have), throughput |-> Explained(d, throughput),
   p99s |-> [i \in DOMAIN p99s(d) |-> Explained(d, p99s(d)[i])], cycles |-> Explained(d, cycles)]

\* Left out where nothing was measured; the notes are those that say something.
memory_section(d) ==
  IF d.memory = <<>> THEN {}
  ELSE {[rows |-> d.memory, notes |-> {r.note : r \in Range(d.memory)} \ {""}]}

Readme(d) ==
  [subjects |-> kinds(d), notes |-> d.notes, bullets |-> bullets(d), hardware |-> hardware(d),
   versions |-> versions(d.output), memtier |-> d.host.facts.memtier, benchmarks |-> benchmarks(d),
   memory |-> memory_section(d)]

=============================================================================
