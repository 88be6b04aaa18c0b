------------------------------ MODULE MCSweep ------------------------------
(***************************************************************************)
(* Sweep over a planned matrix small enough to meet its limits inside it.  *)
(*   Two engines at two thread counts, two tries and two failures in a     *)
(*   row: one engine's failures next to the other's, sweeps of one engine. *)
(*   One engine at four thread counts, the code's four tries and three     *)
(*   failures in a row: a cell is left when the engine is put down.        *)
(***************************************************************************)
EXTENDS SweepRefines, SweepPlan

MCPipelines == <<1>>
MCPerf      == <<FALSE>>

MCShape(t)    == [threads |-> t, pipeline |-> 1, perf |-> FALSE, run |-> 1]
MCCell(e, t)  == [cache |-> e, shape |-> MCShape(t)]

\* The plans are written out, so that they are evaluated once.
TwoAll     == <<"memcache", "yo">>
TwoThreads == <<1, 2>>
TwoEngines == {"memcache", "yo"}
TwoShapes  == {MCShape(1), MCShape(2)}
TwoPlan    == << MCCell("memcache", 1), MCCell("memcache", 2),
                 MCCell("yo", 1), MCCell("yo", 2) >>

OneAll     == <<"yo">>
OneThreads == <<1, 2, 4, 8>>
OneEngines == {"yo"}
OneShapes  == {MCShape(1), MCShape(2), MCShape(4), MCShape(8)}
OnePlan    == << MCCell("yo", 1), MCCell("yo", 2), MCCell("yo", 4),
                 MCCell("yo", 8) >>

ASSUME PlanIsTheSweeps == Plan = plan(caches({}))

=============================================================================
