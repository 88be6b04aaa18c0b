------------------------------ MODULE MCFigures ------------------------------
(***************************************************************************)
(* The computations that keep no state of their own, in one run: a cell    *)
(* that is reduced, a command line that is started, or an output.json      *)
(* whose noisy cells are named.                                            *)
(***************************************************************************)
EXTENDS MCStatistics, MCLaunch, Spread, Pictures, TLC

\* Two engines at two thread counts, four files of one of the cells, rates on
\* both sides of the threshold and of its rounding, and cells without a spread.
Rates == {<<0, 0>>, <<20, 20>>, <<19, 21>>, <<18, 22>>, <<37, 43>>, <<10, 10, 12, 12>>, <<9, 11, 11, 9>>}

Entry(cache, threads, perf, kind, sets, gets, spread) ==
  [cache |-> cache, threads |-> threads, pipeline |-> 1, perf |-> perf, kind |-> kind,
   sets |-> sets, gets |-> gets, spread |-> spread]

Four(cache, threads, perf, sets, gets) ==
  [k \in 1..4 |-> Entry(cache, threads, perf, <<"average", "best", "median", "worst">>[k], sets, gets, TRUE)]

MCReports ==
  {Four("redis", 1, FALSE, a, b) \o Four("redis", 1 + t, TRUE, b, c) \o Four("yo", 1, FALSE, a, c) :
     a \in Rates, b \in Rates, c \in Rates, t \in {0, 1}}
    \cup {<<Entry("redis", 1, FALSE, "median", a, a, FALSE)>> : a \in Rates}

(***************************************************************************)
(* Pictures: two or eight engines at one to three thread counts, not       *)
(* in order, with the aggregates of other kinds and a second file of a     *)
(* cell among them, and values on both sides of powers of ten.             *)
(***************************************************************************)
Eight == <<"rugo", "valkey", "redis", "garnet", "memcache", "dragonfly", "pogocache", "yo">>

Drawn(c, threads, kind, counted, value) ==
  [kind |-> kind, cache |-> c, version |-> "1", threads |-> threads, pipeline |-> 1,
   operations |-> 500, hasCycles |-> counted, measured |-> value # 999, cycles |-> 1000 * value,
   opsec |-> "sets" :> 1000000 * value + 999999, latency |-> "sets" :> ("P99" :> 1000 * value)]

Plotted == {0, 1, 2, 9, 10, 11, 99, 999, 1000}

MCCorpora ==
  {<<>>, <<Drawn("memtier", 1, "median", FALSE, 1)>>}
    \cup {<<Drawn("redis", 2, "best", FALSE, 10), Drawn("redis", 2, "median", b, v), Drawn("garnet", 1, "median", b, w),
            Drawn("redis", 2, "median", b, 10), Drawn("redis", 8, "median", b, w)>> :
            v \in Plotted, w \in Plotted, b \in BOOLEAN}
    \cup {[i \in 1..n |-> Drawn(Eight[i], 3 - k, "median", FALSE, IF i = at THEN v ELSE w)] :
            n \in {2, 8}, at \in {1}, v \in Plotted, w \in Plotted, k \in {1, 2}}

MCAssigned == Range(Eight)

ASSUME CorporaAssumption == \A entries \in MCCorpora : Legible(entries)

StatisticsOff == cell = Cell(0, <<>>, <<>>, <<>>, FALSE) /\ compat = "corrected" /\ count = 0
                   /\ files = <<>> /\ refused = "off"
LaunchOff == file = Nothing /\ args = Nothing /\ cpus = Nothing /\ pc = "off" /\ server = Nothing
               /\ load = Nothing /\ ran = Nothing /\ record = Nothing
SpreadOff == output = <<>> /\ report = [is |-> "off"]
PicturesOff == corpus = <<>> /\ mode = "off" /\ drawn = [is |-> "off"]

FiguresInit ==
  \/ Init /\ LaunchOff /\ SpreadOff /\ PicturesOff
  \/ StatisticsOff /\ LaunchInit /\ SpreadOff /\ PicturesOff
  \/ StatisticsOff /\ LaunchOff /\ SpreadInit /\ PicturesOff
  \/ StatisticsOff /\ LaunchOff /\ SpreadOff /\ PicturesInit

FiguresNext ==
  \/ Next /\ UNCHANGED <<launchVars, spreadVars, pictureVars>>
  \/ LaunchNext /\ UNCHANGED <<vars, spreadVars, pictureVars>>
  \/ SpreadNext /\ UNCHANGED <<vars, launchVars, pictureVars>>
  \/ PicturesNext /\ UNCHANGED <<vars, launchVars, spreadVars>>

FiguresSpec == FiguresInit /\ [][FiguresNext]_<<vars, launchVars, spreadVars, pictureVars>>

=============================================================================
