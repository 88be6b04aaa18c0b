------------------------------- MODULE Sweep -------------------------------
(***************************************************************************)
(* The restartable sweep (crates/cache-bench/src/sweep.rs) over one        *)
(* results directory: the run files (results.rs), failures.json and        *)
(* logs/sweep.jsonl (cb-core/src/journal.rs), and `cache-bench run`        *)
(* (run.rs) used by hand between two sweeps.                               *)
(*                                                                         *)
(* What is on disk survives the death of the process, what is in memory    *)
(* does not, and a file is written in two steps (File::create truncates,   *)
(* write_all and sync_all fill it), so a kill between the two leaves a     *)
(* file of the right name that will not parse: "torn".                     *)
(*                                                                         *)
(* One attempt at a cell is two or three steps here: it fails without      *)
(* touching its file, or it starts the file and then finishes it or not.   *)
(* What happens inside an attempt is module Once.  The directory's lock    *)
(* is module Lock; here sessions simply do not overlap.                    *)
(***************************************************************************)
EXTENDS Integers, Sequences, FiniteSets

CONSTANTS
  Engines,    \* the cache servers
  Shapes,     \* thread count, pipeline depth, counters and run number
  Plan,       \* every cell, in the order `plan` puts them (SweepPlan)
  TRIES,      \* attempts a cell gets across every sweep of a directory
  GIVE_UP,    \* failures in a row that put an unproven engine down
  PATIENCE,   \* naps before a busy machine stops the sweep
  RetryFlags, \* which values of --retry-failed an operator passes
  ForceFlags, \* which values of `run --force` an operator passes
  Faults,     \* what may go wrong: "kill" the process, fail a "write"
  MaxFaults   \* how often, over the life of the directory

Cells == [cache : Engines, shape : Shapes]

ASSUME LimitsAssumption ==
  /\ TRIES \in Nat \ {0}
  /\ GIVE_UP \in Nat \ {0}
  /\ PATIENCE \in Nat
  /\ MaxFaults \in Nat
  /\ RetryFlags \subseteq BOOLEAN
  /\ ForceFlags \subseteq BOOLEAN
  /\ Faults \subseteq {"kill", "write"}

\* `plan` visits every cell exactly once.
ASSUME PlanAssumption ==
  /\ Plan \in Seq(Cells)
  /\ \A i, j \in 1..Len(Plan) : Plan[i] = Plan[j] => i = j
  /\ \A c \in Cells : \E i \in 1..Len(Plan) : Plan[i] = c

VARIABLES
  runs,       \* run files: absent, torn or whole
  recordFile, \* failures.json: absent, torn or whole
  recorded,   \* what a whole failures.json says
  journal,    \* cells with a line in logs/sweep.jsonl
  pc,         \* where the process that holds the directory is
  exit,       \* what the last command came back with
  asked,      \* the engines this session sweeps
  failures,   \* this session's copy of the failure file
  todo,       \* the cells left to measure when it started
  at,         \* its place in the plan
  looks,      \* naps taken before the current cell
  proven,     \* engines known to run on this machine
  given_up,   \* engines put down in this session
  in_a_row,   \* failures in a row of the engine in `last`
  last,       \* {the engine that failed last}, or {}
  target,     \* {the cell `run` is writing by hand}, or {}
  faults      \* faults so far

disk   == <<runs, recordFile, recorded, journal>>
memory == <<asked, failures, todo, at, looks, proven, given_up, in_a_row, last>>
vars   == <<disk, pc, exit, memory, target, faults>>

FileState == {"absent", "torn", "whole"}

(***************************************************************************)
(* cb_core::Failures: attempts and engines given up on.  A cell that is    *)
(* not listed has been attempted nought times.                             *)
(***************************************************************************)
Failures == [attempts : [Cells -> Nat], abandoned : SUBSET Engines]
Nothing  == [attempts |-> [c \in Cells |-> 0], abandoned |-> {}]

\* Mutant: the count is set rather than raised.
failedOnce(f, c) == [f EXCEPT !.attempts[c] = 1]
\* Mutant: an engine given up on is not written down.
abandonQuietly(f, e) == f

failed(f, c)   == [f EXCEPT !.attempts[c] = @ + 1]
measured(f, S) == [f EXCEPT !.attempts =
                     [c \in Cells |-> IF c \in S THEN 0 ELSE f.attempts[c]]]
abandon(f, e)  == [f EXCEPT !.abandoned = @ \cup {e}]
reconsider(f)  == [f EXCEPT !.abandoned = {}]
try_again(f)   == [f EXCEPT !.attempts = [c \in Cells |-> 0]]
is_empty(f)    == f.abandoned = {} /\ \A c \in Cells : f.attempts[c] = 0

(***************************************************************************)
(* What decides the shape of a session.                                    *)
(***************************************************************************)
\* Mutant: existence is enough.
doneIfThere(c) == runs[c] # "absent"

\* A file that is there and will not parse is not a measurement.
done(c) == runs[c] = "whole"

\* Mutant: one attempt too many.
worthOneMore(f, c) == f.attempts[c] <= TRIES

worth_trying(f, c) == f.attempts[c] < TRIES

\* Mutant: a proven engine is put down like any other.
putDownAnyway(known, e, n) == n >= GIVE_UP

put_down(known, e, n) == n >= GIVE_UP /\ e \notin known

Here == Plan[at]

\* The next cell this session will attempt, past the ones it leaves.
Attempting == Here \in todo /\ Here.cache \notin given_up

Init ==
  /\ runs = [c \in Cells |-> "absent"]
  /\ recordFile = "absent" /\ recorded = Nothing /\ journal = {}
  /\ pc = "idle" /\ exit = "none"
  /\ asked = {} /\ failures = Nothing /\ todo = {} /\ at = 1 /\ looks = 0
  /\ proven = {} /\ given_up = {} /\ in_a_row = 0 /\ last = {}
  /\ target = {}
  /\ faults = 0

\* The process is gone and so is what it remembered.
Leave(why) ==
  /\ pc' = "idle"
  /\ exit' = why
  /\ asked' = {} /\ failures' = Nothing /\ todo' = {} /\ at' = 1 /\ looks' = 0
  /\ proven' = {} /\ given_up' = {} /\ in_a_row' = 0 /\ last' = {}
  /\ target' = {}

Fault(kind) ==
  /\ kind \in Faults
  /\ faults < MaxFaults
  /\ faults' = faults + 1

(***************************************************************************)
(* Starting a session: read failures.json, give every engine another       *)
(* chance, and every cell one if that was asked for, then take out of the  *)
(* matrix what is measured and what is spent (`whats_left`).               *)
(***************************************************************************)
\* Mutant: measured cells stay in the matrix.
WhatsLeftIgnoringFiles(mine, f) ==
  LET here == {c \in Cells : c.cache \in mine}
  IN  /\ failures' = f
      /\ proven' = {c.cache : c \in {d \in here : done(d)}}
      /\ todo' = {c \in here : worth_trying(f, c)}

WhatsLeft(mine, f) ==
  LET here == {c \in Cells : c.cache \in mine}
      kept == {c \in here : done(c)}
  IN  /\ failures' = measured(f, kept)
      /\ proven' = {c.cache : c \in kept}
      /\ todo' = {c \in here \ kept : worth_trying(f, c)}

Start(mine, retry) ==
  /\ pc = "idle"
  /\ recordFile # "torn"
  /\ LET f == reconsider(recorded)
     IN  WhatsLeft(mine, IF retry THEN try_again(f) ELSE f)
  /\ asked' = mine
  /\ at' = 1 /\ looks' = 0
  /\ given_up' = {} /\ in_a_row' = 0 /\ last' = {}
  /\ pc' = "keep"
  /\ exit' = "none"
  /\ UNCHANGED <<disk, target, faults>>

\* A failure file that will not parse stops the sweep before it starts.
Refuse ==
  /\ pc = "idle"
  /\ recordFile = "torn"
  /\ exit' = "refused"
  /\ UNCHANGED <<disk, pc, memory, target, faults>>

(***************************************************************************)
(* keep: failures.json rewritten, after the sorting out and after every    *)
(* attempt.  An error is printed and the sweep goes on.                    *)
(***************************************************************************)
KeepTruncate ==
  /\ pc = "keep"
  /\ recordFile' = "torn" /\ recorded' = Nothing
  /\ pc' = "keeping"
  /\ UNCHANGED <<runs, journal, exit, memory, target, faults>>

KeepFill ==
  /\ pc = "keeping"
  /\ recordFile' = "whole" /\ recorded' = failures
  /\ pc' = "next"
  /\ UNCHANGED <<runs, journal, exit, memory, target, faults>>

\* The file could not be opened (it is as it was) or not filled (it is torn).
KeepFails ==
  /\ pc \in {"keep", "keeping"}
  /\ Fault("write")
  /\ pc' = "next"
  /\ UNCHANGED <<disk, exit, memory, target>>

(***************************************************************************)
(* measure_all: the loop over the cells that are left.                     *)
(***************************************************************************)
PassOver ==
  /\ pc = "next"
  /\ at <= Len(Plan)
  /\ ~Attempting
  /\ at' = at + 1
  /\ UNCHANGED <<disk, pc, exit, asked, failures, todo, looks, proven,
                 given_up, in_a_row, last, target, faults>>

\* wait_for_quiet: quiet, or a machine that publishes nothing to wait for.
LookQuiet ==
  /\ pc = "next"
  /\ at <= Len(Plan)
  /\ Attempting
  /\ looks' = 0
  /\ pc' = "once"
  /\ UNCHANGED <<disk, exit, asked, failures, todo, at, proven, given_up,
                 in_a_row, last, target, faults>>

LookBusy ==
  /\ pc = "next"
  /\ at <= Len(Plan)
  /\ Attempting
  /\ looks < PATIENCE
  /\ looks' = looks + 1
  /\ UNCHANGED <<disk, pc, exit, asked, failures, todo, at, proven, given_up,
                 in_a_row, last, target, faults>>

\* Mutant: an hour of waiting is followed by another.
StillBusyWaitsOn ==
  /\ pc = "next"
  /\ at <= Len(Plan)
  /\ Attempting
  /\ looks >= PATIENCE
  /\ looks' = 0
  /\ UNCHANGED <<disk, pc, exit, asked, failures, todo, at, proven, given_up,
                 in_a_row, last, target, faults>>

\* Busy at the last look too: the sweep stops rather than the cell.
StillBusy ==
  /\ pc = "next"
  /\ at <= Len(Plan)
  /\ Attempting
  /\ looks >= PATIENCE
  /\ Leave("stopped")
  /\ UNCHANGED <<disk, faults>>

\* Mutant: failures in a row are counted across engines.
CountFailureOfAny(c) ==
  LET n == in_a_row + 1
      f == failed(failures, c)
  IN  /\ in_a_row' = n
      /\ last' = {c.cache}
      /\ IF put_down(proven, c.cache, n)
         THEN /\ given_up' = given_up \cup {c.cache}
              /\ failures' = abandon(f, c.cache)
         ELSE /\ failures' = f
              /\ UNCHANGED given_up
      /\ UNCHANGED proven

\* What the loop does with an attempt that produced no file.
CountFailure(c) ==
  LET n == IF c.cache \in last THEN in_a_row + 1 ELSE 1
      f == failed(failures, c)
  IN  /\ in_a_row' = n
      /\ last' = {c.cache}
      /\ IF put_down(proven, c.cache, n)
         THEN /\ given_up' = given_up \cup {c.cache}
              /\ failures' = abandon(f, c.cache)
         ELSE /\ failures' = f
              /\ UNCHANGED given_up
      /\ UNCHANGED proven

\* What it does with one that produced one.
CountMeasured(c) ==
  /\ failures' = measured(failures, {c})
  /\ in_a_row' = 0
  /\ proven' = proven \cup {c.cache}
  /\ UNCHANGED <<given_up, last>>

\* An attempt that fails anywhere before its write writes nothing.
OnceFails ==
  /\ pc = "once"
  /\ CountFailure(Here)
  /\ pc' = "note"
  /\ UNCHANGED <<disk, exit, asked, todo, at, looks, target, faults>>

WriteStarts ==
  /\ pc = "once"
  /\ runs' = [runs EXCEPT ![Here] = "torn"]
  /\ pc' = "write"
  /\ UNCHANGED <<recordFile, recorded, journal, exit, memory, target, faults>>

WriteDone ==
  /\ pc = "write"
  /\ runs' = [runs EXCEPT ![Here] = "whole"]
  /\ CountMeasured(Here)
  /\ pc' = "note"
  /\ UNCHANGED <<recordFile, recorded, journal, exit, asked, todo, at, looks,
                 target, faults>>

\* write_all failed (torn), or sync_all did (whole and not known to be).
WriteFails ==
  /\ pc = "write"
  /\ Fault("write")
  /\ \E left \in {"torn", "whole"} : runs' = [runs EXCEPT ![Here] = left]
  /\ CountFailure(Here)
  /\ pc' = "note"
  /\ UNCHANGED <<recordFile, recorded, journal, exit, asked, todo, at, looks,
                 target>>

\* Mutant: only a measured cell gets a line.
NoteMeasured ==
  /\ pc = "note"
  /\ journal' = IF failures.attempts[Here] = 0 THEN journal \cup {Here} ELSE journal
  /\ at' = at + 1
  /\ pc' = "keep"
  /\ UNCHANGED <<runs, recordFile, recorded, exit, asked, failures, todo, looks,
                 proven, given_up, in_a_row, last, target, faults>>

\* One journal line per attempt, before the failure file is rewritten.
Note ==
  /\ pc = "note"
  /\ journal' = journal \cup {Here}
  /\ at' = at + 1
  /\ pc' = "keep"
  /\ UNCHANGED <<runs, recordFile, recorded, exit, asked, failures, todo, looks,
                 proven, given_up, in_a_row, last, target, faults>>

\* A line that cannot be appended is said out loud and that is all.
NoteFails ==
  /\ pc = "note"
  /\ Fault("write")
  /\ at' = at + 1
  /\ pc' = "keep"
  /\ UNCHANGED <<disk, exit, asked, failures, todo, looks, proven, given_up,
                 in_a_row, last, target>>

\* The end of the matrix: success only when the failure list is empty.
Return ==
  /\ pc = "next"
  /\ at > Len(Plan)
  /\ Leave(IF is_empty(failures) THEN "ok" ELSE "missing")
  /\ UNCHANGED <<disk, faults>>

(***************************************************************************)
(* `cache-bench run`: one cell, by hand, while no sweep holds the          *)
(* directory.  It looks at whether the file exists, not at what is in it,  *)
(* and it never opens failures.json.                                       *)
(***************************************************************************)
HandSkips(c) ==
  /\ pc = "idle"
  /\ FALSE \in ForceFlags
  /\ runs[c] # "absent"
  /\ exit' = "already"
  /\ UNCHANGED <<disk, pc, memory, target, faults>>

HandStarts(c, force) ==
  /\ pc = "idle"
  /\ runs[c] = "absent" \/ force
  /\ runs' = [runs EXCEPT ![c] = "torn"]
  /\ target' = {c}
  /\ pc' = "hand"
  /\ exit' = "none"
  /\ UNCHANGED <<recordFile, recorded, journal, memory, faults>>

HandDone ==
  /\ pc = "hand"
  /\ runs' = [c \in Cells |-> IF c \in target THEN "whole" ELSE runs[c]]
  /\ pc' = "idle"
  /\ exit' = "ok by hand"
  /\ target' = {}
  /\ UNCHANGED <<recordFile, recorded, journal, memory, faults>>

HandFails ==
  /\ pc = "hand"
  /\ Fault("write")
  /\ \E left \in {"torn", "whole"} :
       runs' = [c \in Cells |-> IF c \in target THEN left ELSE runs[c]]
  /\ Leave("failed by hand")
  /\ UNCHANGED <<recordFile, recorded, journal>>

\* Power, a signal, or the owner of the machine wanting it back.
Kill ==
  /\ pc # "idle"
  /\ Fault("kill")
  /\ Leave("killed")
  /\ UNCHANGED disk

Operator ==
  \/ \E mine \in (SUBSET Engines) \ {{}}, retry \in RetryFlags : Start(mine, retry)
  \/ Refuse
  \/ \E c \in Cells : HandSkips(c)
  \/ \E c \in Cells, force \in ForceFlags : HandStarts(c, force)

Keep == KeepTruncate \/ KeepFill \/ KeepFails
Look == LookQuiet \/ LookBusy \/ StillBusy
Attempt == OnceFails \/ WriteStarts \/ WriteDone \/ WriteFails

Session == Keep \/ PassOver \/ Look \/ Attempt \/ Note \/ NoteFails \/ Return

Next == Operator \/ Session \/ HandDone \/ HandFails \/ Kill

Spec == Init /\ [][Next]_vars

(***************************************************************************)
(* Fairness.  A running process keeps running: weak fairness of its steps. *)
(* A machine that is looked at again and again is quiet in the end, and    *)
(* somebody (the script `missing` speaks of) keeps starting the whole      *)
(* sweep: strong fairness of those two, used only for Settles.             *)
(***************************************************************************)
Running == Session \/ HandDone \/ HandFails

RunningSpec == Spec /\ WF_vars(Running)

PersistentSpec ==
  /\ RunningSpec
  /\ SF_vars(LookQuiet)
  /\ SF_vars(Start(Engines, FALSE))

-----------------------------------------------------------------------------
(***************************************************************************)
(* Properties.                                                             *)
(***************************************************************************)

\* Every variable keeps its type.
TypeOK ==
  /\ runs \in [Cells -> FileState]
  /\ recordFile \in FileState
  /\ recorded \in Failures
  /\ journal \subseteq Cells
  /\ pc \in {"idle", "keep", "keeping", "next", "once", "write", "note", "hand"}
  /\ exit \in {"none", "ok", "missing", "stopped", "refused", "killed", "already",
               "ok by hand", "failed by hand"}
  /\ asked \subseteq Engines
  /\ failures \in Failures
  /\ todo \subseteq Cells
  /\ at \in 1..(Len(Plan) + 1)
  /\ looks \in 0..PATIENCE
  /\ proven \subseteq Engines
  /\ given_up \subseteq Engines
  /\ in_a_row \in Nat
  /\ last \subseteq Engines
  /\ target \subseteq Cells
  /\ faults \in 0..MaxFaults

\* A sweep that reports success left a whole file behind for every cell of
\* every engine it was asked for, whatever earlier kills left half written.
OkMeansMeasured ==
  [][pc # "idle" /\ exit' = "ok"
       => \A c \in Cells : c.cache \in asked => runs[c] = "whole"]_vars

\* A sweep that reaches the end of the matrix accounts for every hole in it:
\* a cell without a whole file is named with its attempts, or its engine is
\* named as given up on.
HolesAreNamed ==
  [][pc # "idle" /\ exit' \in {"ok", "missing"}
       => \A c \in Cells :
            c.cache \in asked => \/ runs[c] = "whole"
                                 \/ failures.attempts[c] > 0
                                 \/ c.cache \in failures.abandoned]_vars

\* No cell is attempted past its tries, in one session or over any number of
\* them: neither the session's count nor the one on disk ever passes TRIES.
TriesAreCapped ==
  \A c \in Cells : failures.attempts[c] <= TRIES /\ recorded.attempts[c] <= TRIES

\* Only an operator's `run --force` ever truncates a measured run file: a
\* sweep, restarted however often, never spends one to measure it again.
WholeFilesAreKept ==
  [][\A c \in Cells :
       runs[c] = "whole" /\ runs'[c] # "whole" => pc = "idle"]_vars

\* An engine a session treats as known to run here has a measurement on the
\* disk that parses, so a torn file is never taken for proof.
ProvenIsOnDisk ==
  \A e \in proven : \E c \in Cells : c.cache = e /\ runs[c] = "whole"

\* An engine with a measured cell is never put down: not one measured in an
\* earlier session, nor one measured earlier in this one.  A file that is
\* whole only because its last sync failed counts as a failure until then.
AbandonedNeverRan ==
  \A c \in Cells :
    runs[c] = "whole" /\ failures.attempts[c] = 0 => c.cache \notin failures.abandoned

\* failures.json never names a cell the journal has no attempt at, wherever
\* the process is killed: the line is appended before the count is kept.
JournalNamesEveryFailure ==
  \A c \in Cells : recorded.attempts[c] > 0 => c \in journal

\* A session ends, even on a machine that is never quiet again.
SessionEnds == pc # "idle" ~> pc = "idle"

\* Sweeps started again and again stop having anything to do: between two of
\* them every cell is, in the end, measured or out of tries, unless
\* failures.json was left torn and no sweep starts any more.
Settled(c) == runs[c] = "whole" \/ recorded.attempts[c] >= TRIES
Settles ==
  <>[](recordFile = "torn") \/ <>[](pc = "idle" => \A c \in Cells : Settled(c))

(***************************************************************************)
(* What the repository says and the code does not do.                      *)
(***************************************************************************)

\* README.md:98: a sweep is restartable, so starting one again works
\* wherever the last one was killed.
KilledSweepRestarts == exit # "refused"

=============================================================================
