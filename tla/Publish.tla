------------------------------- MODULE Publish -------------------------------
(***************************************************************************)
(* What leaves the machine: `combine` (crates/cache-bench/src/combine.rs), *)
(* which collects the aggregates into output.json, and `archive`           *)
(* (archive.rs), which packs the directory of module Recheck one file at a *)
(* time, without the lock, while recheck, choose, combine and a sweep go   *)
(* on changing it.  `archive --check` reads an archive back.               *)
(*                                                                         *)
(* host.json, failures.json and the logs are packed in the same way and    *)
(* are left out.  The four aggregates of a cell are one file here, as in   *)
(* Recheck, and an archive's digests are the contents themselves.          *)
(***************************************************************************)
EXTENDS Recheck

CONSTANTS
  MaxPacks,  \* uses of `archive --out`, all to the same path
  NamePlace, \* where the name of run s comes among the names of its cell: up to
             \* nine runs where its number does; of ten, run_10 comes second
  RefusedPlace \* how many cells have names that sort in front of runs/refused

ASSUME NamesAssumption ==
  /\ MaxPacks \in Nat
  /\ NamePlace \in Bijection(1..Slots, 1..Slots)
  /\ RefusedPlace \in 0..Len(CellOrder)

VARIABLES
  output,   \* what each entry of output.json came from; an empty function is
            \* no file, Torn one that does not parse
  archive,  \* the members of the archive and, once it is finished, the MANIFEST;
            \* `of` is what the `pack` that opened it had found
  packing,  \* where `pack` is: idle, refused (that is listed next), reading
  listed,   \* the files it found
  toRead,   \* those it has still to read
  began,    \* measurements taken when it started to list
  packs     \* uses of `archive --out` so far

publishing == <<output, archive, packing, listed, toRead, began, packs>>
pvars == <<vars, publishing>>

Empty == [n \in {} |-> 0]
Torn  == [n \in {"torn"} |-> 0]

Output        == [dir |-> "output"]
RunFile(c, s) == [dir |-> "runs", cell |-> c, slot |-> s]
Chosen(c)     == [dir |-> "chosen", cell |-> c]
Refusal(c, s) == [dir |-> "refused", cell |-> c, slot |-> s]

PInit ==
  /\ Init
  /\ output = Empty
  /\ archive = [members |-> Empty, manifest |-> Empty, of |-> {}]
  /\ packing = "idle" /\ listed = {} /\ toRead = {}
  /\ began = 0 /\ packs = 0

(***************************************************************************)
(* combine: an entry for every aggregate there is, and no output.json when *)
(* there is none.                                                          *)
(***************************************************************************)
Combine ==
  /\ script = {}
  /\ \E c \in Cells : chosen[c] # {}
  /\ output' = [c \in {d \in Cells : chosen[d] # {}} |-> chosen[c]]
  /\ UNCHANGED <<vars, archive, packing, listed, toRead, began, packs>>

\* Killed after the truncation.
CombineDies ==
  /\ script = {}
  /\ kills < MaxKills
  /\ \E c \in Cells : chosen[c] # {}
  /\ output' = Torn
  /\ kills' = kills + 1
  /\ UNCHANGED <<runs, logs, aside, chosen, named, bad, taken, script, judged,
                 applies, archive, packing, listed, toRead, began, packs>>

(***************************************************************************)
(* archive --out.  `paths` lists the small files, then runs, then          *)
(* runs/refused, one directory after the other.                            *)
(***************************************************************************)
IsThere(n) ==
  CASE n.dir = "output"  -> output # Empty
    [] n.dir = "runs"    -> runs[n.cell][n.slot] # 0
    [] n.dir = "chosen"  -> chosen[n.cell] # {}
    [] n.dir = "refused" -> aside[n.cell][n.slot] # 0

Content(n) ==
  CASE n.dir = "output"  -> output
    [] n.dir = "runs"    -> runs[n.cell][n.slot]
    [] n.dir = "chosen"  -> chosen[n.cell]
    [] n.dir = "refused" -> aside[n.cell][n.slot]

Present(names) == {n \in names : IsThere(n)}

\* Every name there can be under runs, and every name under runs/refused.
UnderRuns    == {RunFile(c, s) : c \in Cells, s \in At} \cup {Chosen(c) : c \in Cells}
UnderRefused == {Refusal(c, s) : c \in Cells, s \in At}

\* Mutant: runs/refused is left out, since those are not results.
RunsOnly == <<UnderRuns, {}>>

UNDER == <<UnderRuns, UnderRefused>>

IsRun(n) == n.dir \in {"runs", "chosen"}

\* Name order: output.json, then cell by cell, with all of runs/refused between
\* two of them; within a cell the digits of a run number come before the letters
\* of an aggregate.
Sorts(n) ==
  CASE n.dir = "output"  -> <<0, 0, 0>>
    [] n.dir = "runs"    -> <<Place(n.cell), 0, NamePlace[n.slot]>>
    [] n.dir = "chosen"  -> <<Place(n.cell), 0, Slots + 1>>
    [] n.dir = "refused" -> <<RefusedPlace, Place(n.cell), NamePlace[n.slot]>>

Before(x, y) == \/ x[1] < y[1]
                \/ x[1] = y[1] /\ x[2] < y[2]
                \/ x[1] = y[1] /\ x[2] = y[2] /\ x[3] < y[3]

\* The members of an archive and one more.
With(members, n, content) ==
  [m \in DOMAIN members \cup {n} |-> IF m = n THEN content ELSE members[m]]

Foremost == {n \in toRead : \A m \in toRead : ~Before(Sorts(m), Sorts(n))}

ListsRuns ==
  /\ packing = "idle" /\ packs < MaxPacks
  /\ packs' = packs + 1
  /\ began' = taken
  /\ listed' = Present({Output} \cup UNDER[1])
  /\ packing' = "refused"
  /\ UNCHANGED <<vars, output, archive, toRead>>

\* There is something to pack, so what is at the archive's path is truncated.
ListsRefused ==
  /\ packing = "refused"
  /\ listed' = listed \cup Present(UNDER[2])
  /\ \E n \in listed' : IsRun(n)
  /\ toRead' = listed'
  /\ archive' = [members |-> Empty, manifest |-> Empty, of |-> listed']
  /\ packing' = "reading"
  /\ UNCHANGED <<vars, output, began, packs>>

\* Mutant: a file that has gone since it was listed is passed over.
PassesOver ==
  /\ packing = "reading"
  /\ \E n \in Foremost :
       /\ toRead' = toRead \ {n}
       /\ archive' = IF IsThere(n) THEN [archive EXCEPT !.members = With(@, n, Content(n))]
                                   ELSE archive
  /\ UNCHANGED <<vars, output, packing, listed, began, packs>>

Reads ==
  /\ packing = "reading"
  /\ \E n \in Foremost :
       /\ IsThere(n)
       /\ toRead' = toRead \ {n}
       /\ archive' = [archive EXCEPT !.members = With(@, n, Content(n))]
  /\ UNCHANGED <<vars, output, packing, listed, began, packs>>

\* The MANIFEST goes in last, with a line for every member.
Finishes ==
  /\ packing = "reading" /\ toRead = {}
  /\ archive' = [archive EXCEPT !.manifest = archive.members]
  /\ packing' = "idle"
  /\ UNCHANGED <<vars, output, listed, toRead, began, packs>>

\* Nothing under runs, or a file that was listed cannot be read any more: the
\* command says so and leaves what it has written.
Fails ==
  /\ \/ /\ packing = "refused"
        /\ ~ \E n \in listed : IsRun(n)
     \/ /\ packing = "reading"
        /\ \E n \in Foremost : ~IsThere(n)
  /\ packing' = "idle"
  /\ UNCHANGED <<vars, output, archive, listed, toRead, began, packs>>

PackDies ==
  /\ packing # "idle"
  /\ kills < MaxKills
  /\ kills' = kills + 1
  /\ packing' = "idle"
  /\ UNCHANGED <<runs, logs, aside, chosen, named, bad, taken, script, judged,
                 applies, output, archive, listed, toRead, began, packs>>

Others == Next /\ UNCHANGED publishing

PNext ==
  \/ Others
  \/ Combine \/ CombineDies
  \/ ListsRuns \/ ListsRefused \/ Reads \/ Finishes \/ Fails \/ PackDies

PSpec == PInit /\ [][PNext]_pvars

(***************************************************************************)
(* archive --check, and --dir with it.                                     *)
(***************************************************************************)
\* Mutant: an archive without a MANIFEST has nothing in it that differs.
ChecksWhatItCan == archive.manifest \in {Empty, archive.members}

Checks == archive.manifest # Empty /\ archive.manifest = archive.members

\* The entries of the directory's output.json, by name.
Against == /\ output \notin {Empty, Torn}
           /\ \A c \in DOMAIN output : Chosen(c) \in DOMAIN archive.members

-----------------------------------------------------------------------------
(***************************************************************************)
(* Properties.                                                             *)
(***************************************************************************)
\* The measurements an archive holds, as runs or as refused runs.
Evidence == {archive.members[n] : n \in {m \in DOMAIN archive.members :
                                           m.dir \in {"runs", "refused"}}}

\* An archive that checks has in it every file its `pack` found, so one that
\* failed or was killed partway never passes for a complete one.
UnfinishedIsRefused == Checks => DOMAIN archive.members = archive.of

\* While runs are moved and renumbered under it, `pack` either fails or packs
\* every measurement there is, unless a sweep was measuring as well.  Of ten
\* runs or more that is not so: a run renumbered from a name already read to
\* one that sorts in front of it leaves nothing missing.
PackedIsComplete ==
  [][Finishes /\ taken = began
       => \A c \in Cells : Held(c) \cup SetAside(c) \subseteq Evidence']_pvars

\* Every measurement the archived output.json was reduced from is in the same
\* archive, refused or not, whether or not combine has been rerun since.
ChartsHaveEvidence ==
  [][Finishes /\ taken = began /\ Output \in DOMAIN archive.members
       => LET packed == archive.members[Output]
          IN  \A c \in DOMAIN packed \ {"torn"} : packed[c] \subseteq Evidence']_pvars

=============================================================================
