---------------------------- MODULE MCDocuments ----------------------------
(***************************************************************************)
(* Two engines, one half, one depth, one percentile: 7 of the 154 charts,  *)
(* in three states of output.json.                                         *)
(***************************************************************************)
EXTENDS Documents, TLC

One1 == {1}
Sets == {"sets"}
P99  == {"P99"}
Coloured == {"garnet", "redis"}
Both == {"corrected", "upstream"}

\* One that counts, one that does not, one that may not be published, and one
\* for a bigger machine.
Shape(cores, perf, publishable) ==
  [cores |-> cores, working_set |-> 4, perf |-> perf, publishable |-> publishable,
   threads |-> {1, 2}, pipelines |-> {1}, runs |-> 3, connections |-> 256]

MCProfiles ==
  "coarse" :> Shape(2, BOOLEAN, TRUE) @@ "draft" :> Shape(2, {FALSE}, TRUE)
    @@ "laptop" :> Shape(2, {FALSE}, FALSE) @@ "reference" :> Shape(4, BOOLEAN, TRUE)

MCHosts == "bench" :> [profile |-> "coarse", ssh |-> "server3"] @@ "here" :> [profile |-> "draft", ssh |-> "local"]

\* A quiet machine with counters, the same machine later in the day, busy and
\* with its counters shut, and what else it may be: short of memory and a
\* guest, or one that says its name.
Box ==
  [uname |-> "Linux", pretty_name |-> "Ubuntu", lscpu |-> Silent, cpuinfo |-> "EPYC", cpus |-> 3,
   meminfo |-> "MemTotal" :> [n |-> 16, unit |-> "kB"] @@ "MemAvailable" :> [n |-> 8, unit |-> "kB"],
   scaling_governor |-> "performance", loadavg |-> 10, memtier |-> "2.1",
   vulnerabilities |-> "l1tf" :> "Vulnerable" @@ "mds" :> "Mitigation",
   sources |-> {"cpu"}, paranoid |-> 2, perf |-> "counted"]

MCBoxes ==
  {Box, [Box EXCEPT !.paranoid = 3, !.scaling_governor = Silent, !.loadavg = 11],
   [Box EXCEPT !.meminfo["MemAvailable"].n = 7, !.perf = "not supported"],
   [Box EXCEPT !.uname = "server3", !.meminfo["MemAvailable"].unit = "GB"]}

MCReports == {<<>>, <<[cache |-> "redis", entries |-> 3, note |-> ""], [cache |-> "garnet", entries |-> 3, note |-> "forks"]>>}

\* What a run says: thousandths of operations a second, nanoseconds, cycles.
Half(rate, at99) == [rate |-> rate, p99 |-> at99]

Entry(kind, cache, version, threads, counted, measured, sets, gets, ran) ==
  [kind |-> kind, cache |-> cache, version |-> version, threads |-> threads, pipeline |-> 1,
   operations |-> 1000, hasCycles |-> counted, measured |-> measured, cycles |-> ran,
   opsec |-> "sets" :> sets.rate @@ "gets" :> gets.rate,
   latency |-> "sets" :> ("P99" :> sets.p99) @@ "gets" :> ("P99" :> gets.p99)]

Kinds == <<"average", "best", "median", "worst">>

\* The four files of a cell; only the median's numbers are the cell's.
Cell(cache, version, threads, counted, measured, sets, gets, ran) ==
  [k \in 1..4 |->
     IF Kinds[k] = "median"
     THEN Entry(Kinds[k], cache, version, threads, counted, measured, sets, gets, ran)
     ELSE Entry(Kinds[k], cache, version, threads, counted, measured,
                Half(1000000 * k, 0), Half(0, 1500), 7 * k)]

Whole ==
  Cell("garnet", "1.0", 1, FALSE, TRUE, Half(450999999, 90000500), Half(999000000, 1), 0)
    \o Cell("garnet", "1.0", 1, TRUE, TRUE, Half(40000000, 1000), Half(1000000, 1), 4001000)
    \o Cell("redis", "7.2", 1, FALSE, TRUE, Half(218689490, 2500), Half(150000000, 3500), 0)
    \o Cell("redis", "7.2", 1, TRUE, TRUE, Half(1000000, 1), Half(1000000, 1), 3000)

\* After a recheck: no cell with counters is left, and one rate below a thousand.
Fewer ==
  Cell("redis", "7.2", 1, FALSE, TRUE, Half(999999, 2500), Half(150000000, 3500), 0)
    \o Cell("redis", "7.2", 2, FALSE, TRUE, Half(300000000, 500), Half(150000000, 3500), 0)

\* Half of it measured against a rebuilt server, with a counter that is not there.
Rebuilt ==
  Cell("redis", "7.2", 1, TRUE, FALSE, Half(1000000, 2500), Half(150000000, 3500), 0)
    \o Cell("redis", "7.4", 2, FALSE, TRUE, Half(300000000, 500), Half(150000000, 3500), 0)

Three == <<Whole, Fewer, Rebuilt>>

=============================================================================
