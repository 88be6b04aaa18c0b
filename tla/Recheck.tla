------------------------------- MODULE Recheck -------------------------------
(***************************************************************************)
(* A results directory after its checks have changed:                      *)
(* `cache-bench recheck --apply` (crates/cache-bench/src/recheck.rs), what *)
(* `choose` reduces (choose.rs), and the sweep that fills the slots        *)
(* recheck has emptied (sweep.rs).                                         *)
(*                                                                         *)
(* A measurement is a number from 1 up.  A run file holds one, so does the *)
(* log beside it, and recheck judges the first by the second, by name.     *)
(* `apply` is a set of file operations done one at a time in the order of  *)
(* Precedes, and the process may end between any two of them.  Half        *)
(* written files are module Sweep's subject: a write is one step here.     *)
(***************************************************************************)
EXTENDS Integers, Sequences, FiniteSets, Functions

CONSTANTS
  CellOrder,   \* the cells, in name order
  Slots,       \* runs the profile asks for in each cell
  FEWEST,      \* the fewest runs `choose` will reduce
  MaxRuns,     \* measurements taken over the directory's life
  MaxApplies,  \* uses of --apply
  MaxKills     \* commands that end partway

\* No cell is twice in the order, and the first measurements are within bounds.
ASSUME DirectoryAssumption ==
  /\ CellOrder \in Seq(Range(CellOrder)) /\ IsInjective(CellOrder)
  /\ Slots \in Nat /\ FEWEST \in Nat
  /\ MaxApplies \in Nat /\ MaxKills \in Nat
  /\ MaxRuns \in Nat /\ Len(CellOrder) * Slots <= MaxRuns

VARIABLES
  runs,    \* the measurement in each run file; 0 is no file
  logs,    \* the measurement each slot's logs are of
  aside,   \* what is in runs/refused, by the name it had
  chosen,  \* the measurements the four aggregates of a cell came from
  named,   \* the names in failures.json
  bad,     \* measurements whose logs today's checks refuse
  taken,   \* measurements taken so far
  script,  \* file operations the running command still has to do
  judged,  \* the runs of each cell when it started, by number
  applies, \* uses of --apply so far
  kills    \* commands that ended partway so far

vars == <<runs, logs, aside, chosen, named, bad, taken, script, judged,
          applies, kills>>

Cells == Range(CellOrder)
At    == 1..Slots

\* The sweep's journal and failure file name a cell by its file name, recheck
\* names it by the stem: `full` is whether ".json" is on it.
Name(c, s, full) == [cell |-> c, slot |-> s, full |-> full]

\* results::cells: runs one to n, stopping at the first that is missing.
Count(c) == CHOOSE n \in 0..Slots :
              /\ \A s \in 1..n : runs[c][s] # 0
              /\ n < Slots => runs[c][n + 1] = 0

Refused(c) == {s \in 1..Count(c) : logs[c][s] \in bad}

Place(c) == CHOOSE i \in DOMAIN CellOrder : CellOrder[i] = c

\* A finished sweep, measured when the checks were weaker.
Init ==
  /\ runs = [c \in Cells |-> [s \in At |-> (Place(c) - 1) * Slots + s]]
  /\ logs = runs
  /\ aside = [c \in Cells |-> [s \in At |-> 0]]
  /\ chosen = [c \in Cells |-> {}]
  /\ named = {}
  /\ taken = Len(CellOrder) * Slots
  /\ bad \in SUBSET (1..taken)
  /\ script = {} /\ judged = [c \in Cells |-> <<>>]
  /\ applies = 0 /\ kills = 0

(***************************************************************************)
(* recheck --apply.                                                        *)
(***************************************************************************)
Op(do, c, from, to) == [do |-> do, cell |-> c, from |-> from, to |-> to]

\* All moves, then all renumberings, then all removals, then the failure file;
\* within each of them cell by cell, and within a cell the lowest run first.
Stage == [move |-> 1, renumber |-> 2, unchoose |-> 3, reduce |-> 3, record |-> 4]

Precedes(a, b) ==
  \/ Stage[a.do] < Stage[b.do]
  \/ /\ a.do = b.do /\ a.do # "record"
     /\ \/ Place(a.cell) < Place(b.cell)
        \/ a.cell = b.cell /\ a.from < b.from

Moves(c) == {Op("move", c, s, s) : s \in Refused(c)}

\* What is left of a cell, and the number that a run of it comes to have.
Kept(c)     == (1..Count(c)) \ Refused(c)
Rank(S, s)  == Cardinality({t \in S : t <= s})

\* Mutant: the hole is left where the refused run was.
RenumberNothing(c) == {}

Renumber(c) ==
  {Op("renumber", c, s, Rank(Kept(c), s)) : s \in {t \in Kept(c) : Rank(Kept(c), t) # t}}

\* Mutant: only a cell with nothing left loses its aggregates.
UnchooseEmptied(c) ==
  IF Kept(c) # {} THEN {} ELSE {Op("unchoose", c, 0, 0)}

Unchoose(c) == IF Refused(c) = {} THEN {} ELSE {Op("unchoose", c, 0, 0)}

\* Mutant: one run of a cell is recorded, as one reason is reported.
NamesOne(c) == {Name(c, s, FALSE) : s \in {t \in Refused(c) : \A u \in Refused(c) : t <= u}}

Names(c) == {Name(c, s, FALSE) : s \in Refused(c)}

\* The failure file comes last, with every refused run in it.
Record(names) == [do |-> "record", names |-> names]

Apply ==
  /\ script = {}
  /\ applies < MaxApplies
  /\ \E c \in Cells : Refused(c) # {}
  /\ script' = {Record(named \cup UNION {Names(c) : c \in Cells})}
                 \cup UNION {Moves(c) \cup Renumber(c) \cup Unchoose(c) : c \in Cells}
  /\ judged' = [c \in Cells |-> [s \in 1..Count(c) |-> runs[c][s]]]
  /\ applies' = applies + 1
  /\ UNCHANGED <<runs, logs, aside, chosen, named, bad, taken, kills>>

(***************************************************************************)
(* choose: every cell of enough runs comes to its four files, and a cell   *)
(* of fewer is skipped with whatever it has.                               *)
(***************************************************************************)
Reduce(c) == IF Count(c) < FEWEST THEN {} ELSE {Op("reduce", c, 0, 0)}

Choose ==
  /\ script = {}
  /\ script' = UNION {Reduce(c) : c \in Cells}
  /\ judged' = [c \in Cells |-> <<>>]
  /\ UNCHANGED <<runs, logs, aside, chosen, named, bad, taken, applies, kills>>

\* rename replaces what is there under the new name.
Rename(op) ==
  /\ op.do = "renumber"
  /\ runs' = [runs EXCEPT ![op.cell][op.to] = runs[op.cell][op.from],
                          ![op.cell][op.from] = 0]
  /\ UNCHANGED <<aside, chosen, named>>

\* Mutant: a refused run is deleted.
MoveNowhere(op) ==
  /\ op.do = "move"
  /\ runs' = [runs EXCEPT ![op.cell][op.from] = 0]
  /\ UNCHANGED <<aside, chosen, named>>

Move(op) ==
  /\ op.do = "move"
  /\ aside' = [aside EXCEPT ![op.cell][op.to] = runs[op.cell][op.from]]
  /\ runs' = [runs EXCEPT ![op.cell][op.from] = 0]
  /\ UNCHANGED <<chosen, named>>

RemoveChosen(op) ==
  /\ op.do = "unchoose"
  /\ chosen' = [chosen EXCEPT ![op.cell] = {}]
  /\ UNCHANGED <<runs, aside, named>>

Write(op) ==
  /\ op.do = "record"
  /\ named' = op.names
  /\ UNCHANGED <<runs, aside, chosen>>

WriteChosen(op) ==
  /\ op.do = "reduce"
  /\ chosen' = [chosen EXCEPT ![op.cell] = {runs[op.cell][s] : s \in 1..Count(op.cell)}]
  /\ UNCHANGED <<runs, aside, named>>

Due == {op \in script : \A other \in script : ~Precedes(other, op)}

Step ==
  /\ \E op \in Due :
       /\ Move(op) \/ Rename(op) \/ RemoveChosen(op) \/ Write(op) \/ WriteChosen(op)
       /\ script' = script \ {op}
  /\ UNCHANGED <<logs, bad, taken, judged, applies, kills>>

\* The process is killed, or the next operation fails and is reported.
Ends ==
  /\ script # {}
  /\ kills < MaxKills
  /\ kills' = kills + 1
  /\ script' = {}
  /\ UNCHANGED <<runs, logs, aside, chosen, named, bad, taken, judged, applies>>

(***************************************************************************)
(* A sweep that has come to a slot without a run: it has taken the names   *)
(* of measured cells out of the failure file, and the attempt replaces the *)
(* slot's logs whether it is measured or not.                              *)
(***************************************************************************)
Unmeasured == {n \in named : ~(n.full /\ runs[n.cell][n.slot] # 0)}

SweepMeasures(c, s) ==
  /\ script = {}
  /\ runs[c][s] = 0
  /\ taken < MaxRuns
  /\ taken' = taken + 1
  /\ logs' = [logs EXCEPT ![c][s] = taken + 1]
  /\ runs' = [runs EXCEPT ![c][s] = taken + 1]
  /\ named' = Unmeasured \ {Name(c, s, TRUE)}
  /\ UNCHANGED <<aside, chosen, bad, script, judged, applies, kills>>

SweepFails(c, s) ==
  /\ script = {}
  /\ runs[c][s] = 0
  /\ taken < MaxRuns
  /\ taken' = taken + 1
  /\ bad' = bad \cup {taken + 1}
  /\ logs' = [logs EXCEPT ![c][s] = taken + 1]
  /\ named' = Unmeasured \cup {Name(c, s, TRUE)}
  /\ UNCHANGED <<runs, aside, chosen, script, judged, applies, kills>>

Next ==
  \/ Apply \/ Choose \/ Step \/ Ends
  \/ \E c \in Cells, s \in At : SweepMeasures(c, s) \/ SweepFails(c, s)

Spec == Init /\ [][Next]_vars

-----------------------------------------------------------------------------
(***************************************************************************)
(* Properties.                                                             *)
(***************************************************************************)
Ids == 0..MaxRuns

\* Every variable keeps its type.
TypeOK ==
  /\ runs \in [Cells -> [At -> Ids]]
  /\ logs \in [Cells -> [At -> Ids]]
  /\ aside \in [Cells -> [At -> Ids]]
  /\ chosen \in [Cells -> SUBSET Ids]
  /\ named \subseteq [cell : Cells, slot : At, full : BOOLEAN]
  /\ bad \subseteq 1..taken /\ taken \in Ids
  /\ applies \in 0..MaxApplies /\ kills \in 0..MaxKills

Held(c) == {runs[c][s] : s \in At} \ {0}
SetAside(c) == {aside[c][s] : s \in At} \ {0}

\* No measurement is lost: wherever a command ends, what was in the directory
\* is in it still, under runs or under runs/refused, and a run whose logs pass
\* stays a run of its cell.
EvidenceKept ==
  [][\A c \in Cells :
       /\ Held(c) \cup SetAside(c) \subseteq (Held(c) \cup SetAside(c))'
       /\ Held(c) \ bad \subseteq Held(c)']_vars

\* When the failure file is about to be written the runs of a cell are those
\* of its old runs whose logs pass, all of them, without a gap and in order.
RenumberedInOrder ==
  (\E op \in Due : op.do = "record")
    => \A c \in Cells :
         LET passing == {s \in DOMAIN judged[c] : judged[c][s] \notin bad}
         IN  /\ Count(c) = Cardinality(passing)
             /\ \A s \in passing : runs[c][Rank(passing, s)] = judged[c][s]

\* Between commands the aggregates of a cell come from runs it still has,
\* whichever of choose, recheck and a sweep has run since.
PublishedFollows ==
  script = {} /\ kills = 0 => \A c \in Cells : chosen[c] \subseteq Held(c)

\* Between commands every run under runs/refused is named in failures.json,
\* and a sweep's own bookkeeping does not take the name out again.
RefusedAreNamed ==
  script = {} /\ kills = 0
    => \A c \in Cells, s \in At : aside[c][s] # 0 => Name(c, s, FALSE) \in named

=============================================================================
