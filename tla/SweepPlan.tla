----------------------------- MODULE SweepPlan -----------------------------
(***************************************************************************)
(* Which cells a sweep measures and in which order (`plan` and `caches` in *)
(* crates/cache-bench/src/sweep.rs): engine, thread count, pipeline depth, *)
(* counters, run number, the last varying fastest.                         *)
(***************************************************************************)
EXTENDS Integers, SequencesExt

CONSTANTS
  ALL,       \* CacheKind::ALL: every engine, in the original's order
  Threads, Pipelines, Perf, \* the profile's lists, in the order it gives them
  Runs       \* runs of each cell

\* The engines asked for, in the original's order; none asked means all.
caches(asked) ==
  IF asked = {} THEN ALL ELSE SelectSeq(ALL, LAMBDA e : e \in asked)

\* One loop of the nest: the cells of every item in turn.
Each(items, Body(_)) == FlattenSeq([i \in DOMAIN items |-> Body(items[i])])

plan(engines) ==
  Each(engines,      LAMBDA e :
  Each(Threads,      LAMBDA t :
  Each(Pipelines,    LAMBDA p :
  Each(Perf,         LAMBDA f :
    [r \in 1..Runs |-> [cache |-> e,
                        shape |-> [threads |-> t, pipeline |-> p,
                                   perf |-> f, run |-> r]]]))))

=============================================================================
