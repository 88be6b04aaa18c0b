------------------------------ MODULE MCLaunch ------------------------------
(***************************************************************************)
(* Profiles for Launch: memory limits around what a key space of each size *)
(* needs, in each unit, and pins, threads and clients around the machine.  *)
(***************************************************************************)
EXTENDS Launch

Part(lo, hi) == [lo |-> lo, hi |-> hi]
Size(n, unit) == [n |-> n, unit |-> unit]

Ordinary ==
  [cores |-> 6, cache_pin |-> <<Part(0, 2)>>, bench_pin |-> <<Part(3, 5)>>, threads |-> {1, 2},
   bench_threads |-> 2, connections_per_thread |-> 2, operations |-> 3,
   size_range |-> [min |-> 1, max |-> 1], key_maximum |-> 5, maxmemory |-> Size(1, "g"), runs |-> 1]

\* Limits that are whole in each unit, that are not, that are one short of
\* enough, that are none, and that no word holds.  The largest word itself is
\* left out: it is the one limit that a need cut off at a word still meets.
Limits == {Size(n, "b") : n \in {0, 1, 15, 24, 33, 79, 80, 1022}}
            \cup {Size(n, u) : n \in {1, 2, 5, 16}, u \in {"k", "m", "g"}}
Ranges == {Part(0, 1), Part(1, 1), Part(1, 4), Part(2, 5), Part(3, 2)}

Memories ==
  {[Ordinary EXCEPT !.maxmemory = l, !.size_range = [min |-> r.lo, max |-> r.hi], !.key_maximum = k] :
     l \in Limits, r \in Ranges, k \in {0, 3, 8, 20, 300}}

\* Ranges that touch, cross, are written twice, run off the end or backwards.
Pins == {<< <<Part(0, 2)>>, <<Part(3, 5)>> >>, << <<Part(0, 0), Part(2, 2)>>, <<Part(1, 1), Part(3, 4)>> >>,
         << <<Part(0, 1)>>, <<Part(1, 2)>> >>, << <<Part(1, 2), Part(0, 1)>>, <<Part(5, 5)>> >>,
         << <<Part(0, 3)>>, <<Part(4, 6)>> >>, << <<Part(2, 0)>>, <<Part(4, 5)>> >>,
         << <<Part(4, 5)>>, <<Part(0, 3)>> >>, << <<Part(0, 3)>>, <<Part(1, 2)>> >>}

Topologies ==
  {[Ordinary EXCEPT !.cache_pin = pins[1], !.bench_pin = pins[2], !.bench_threads = b,
                    !.connections_per_thread = c, !.operations = o, !.cores = n,
                    !.threads = t, !.size_range = [min |-> 1, max |-> 1]] :
     pins \in Pins, b \in {0, 1, 3}, c \in {0, 2, 6}, o \in {1, 3}, n \in {6, 7}, t \in {{1}, {1, 3}}}

Good == [Ordinary EXCEPT !.size_range = [min |-> 1, max |-> 1]]
Bad  == {[Good EXCEPT !.runs = 0], [Good EXCEPT !.threads = {}]}

AllPaths == [p \in {"memcache", "garnet", "dragonfly", "redis", "memtier"} |-> "path"]
Config(profiles, paths, arch) == [profiles |-> profiles, paths |-> paths, arch |-> arch]
One(p) == [name \in {"p"} |-> p]

MCFiles ==
  {Config(One(p), AllPaths, TRUE) : p \in Memories \cup Topologies}
    \cup {Config([name \in {"p", "q"} |-> IF name = "p" THEN Good ELSE b], AllPaths, TRUE) : b \in Bad}
    \cup {Config(One(Good), [AllPaths EXCEPT !["dragonfly"] = "arch"], a) : a \in BOOLEAN}
    \cup {Config(One(Good), [p \in {"redis"} |-> "path"], TRUE)}

Arg(command, cache, threads, compat, entries) ==
  [command |-> command, profile |-> "p", cache |-> cache, threads |-> threads,
   compat |-> compat, entries |-> entries]

MCCaches == {"memcache", "garnet", "dragonfly", "redis"}
MCArgs ==
  {Arg("run", c, t, m, NotGiven) : c \in MCCaches, t \in {0, 1, 3}, m \in {"corrected", "upstream"}}
    \cup {Arg("mem", c, 8, "corrected", e) : c \in MCCaches, e \in {NotGiven, 0, 4, 6, 30}}
    \cup {[Arg("run", "redis", 1, "corrected", NotGiven) EXCEPT !.profile = "missing"]}

\* One too small, one as big as most profiles ask for, and two that do not say
\* how many they have, one of them too small to start anything that is pinned
\* past its one CPU.
MCMachines ==
  {[here |-> n, said |-> TRUE] : n \in {5, 6}} \cup {[here |-> n, said |-> FALSE] : n \in {1, 4}}

=============================================================================
