-------------------------------- MODULE Lock --------------------------------
(***************************************************************************)
(* One writer at a time in a results directory                             *)
(* (crates/cache-bench/src/lock.rs): Lock::take, the Drop that gives the   *)
(* directory back, and the takeover of a lock whose writer is gone.        *)
(*                                                                         *)
(* Every file system call and every look at /proc is a step of its own, so *)
(* takers interleave where the code lets them.  fs::write is two calls: it *)
(* opens the file truncated, then writes.  A process dies without giving   *)
(* the lock back (Kill), or all of them do (Reboot), after which pids and  *)
(* start times are handed out again from the beginning.                    *)
(***************************************************************************)
EXTENDS Integers, FiniteSets

CONSTANTS
  Pids,     \* process ids, handed out again when their process has ended
  Overlap,  \* may a command start while another is still inside `take`
  MaxTicks, \* start times handed out in one boot
  MaxBoots, \* boots after the first
  MaxKills  \* processes killed, over all boots

ASSUME LockAssumption ==
  /\ Overlap \in BOOLEAN
  /\ MaxTicks \in Nat /\ MaxBoots \in Nat /\ MaxKills \in Nat

VARIABLES
  file,    \* .lock: "none", "empty" (no record in it) or "written"
  says,    \* the record in a written .lock
  st,      \* where the process with each pid is; "none" is no such process
  seen,    \* the record that process read out of .lock
  started, \* when it started, in ticks since boot
  ticks,   \* the last start time handed out
  boot,    \* the boot id
  kills    \* processes killed so far

vars == <<file, says, st, seen, started, ticks, boot, kills>>

\* What a lock file says about the run that wrote it.
Held == [pid : Pids, boot : Nat, started : Nat]

mine(p) == [pid |-> p, boot |-> boot, started |-> started[p]]

\* Mutant: the start time is read the wrong way round.
goneBackwards(held) ==
  \/ held.boot # boot
  \/ st[held.pid] = "none"
  \/ started[held.pid] = held.started

\* The process that wrote the record is provably not running: another boot,
\* or no such pid, or a pid that started at another moment.
gone(held) ==
  \/ held.boot # boot
  \/ st[held.pid] = "none"
  \/ started[held.pid] # held.started

\* Inside `take`, between its first look at the file and its answer.
Inside == {"take", "created", "there", "judge", "seize", "fill"}

Init ==
  /\ file = "none"
  /\ says \in [pid : Pids, boot : {0}, started : {0}]
  /\ st = [p \in Pids |-> "none"]
  /\ seen = [p \in Pids |-> says]
  /\ started = [p \in Pids |-> 0]
  /\ ticks = 0 /\ boot = 0 /\ kills = 0

\* A command that will write into the directory is started.
Begin(p) ==
  /\ st[p] = "none"
  /\ ticks < MaxTicks
  /\ Overlap \/ \A q \in Pids : st[q] \notin Inside
  /\ st' = [st EXCEPT ![p] = "take"]
  /\ started' = [started EXCEPT ![p] = ticks + 1]
  /\ ticks' = ticks + 1
  /\ UNCHANGED <<file, says, seen, boot, kills>>

To(p, next) == st' = [st EXCEPT ![p] = next]
Still == UNCHANGED <<started, ticks, boot, kills>>

\* Mutant: the file is opened for writing, there or not.
CreateAnyway(p) ==
  /\ st[p] = "take"
  /\ file' = "empty" /\ To(p, "created")
  /\ UNCHANGED <<says, seen>>
  /\ Still

\* Exclusive creation: the file comes into being empty, or is there already.
CreateNew(p) ==
  /\ st[p] = "take"
  /\ IF file = "none"
     THEN file' = "empty" /\ To(p, "created")
     ELSE UNCHANGED file /\ To(p, "there")
  /\ UNCHANGED <<says, seen>>
  /\ Still

\* The directory, the file or the takeover cannot be written.
TakeFails(p) ==
  /\ st[p] \in {"take", "seize", "fill"}
  /\ To(p, "refused")
  /\ UNCHANGED <<file, says, seen>>
  /\ Still

\* The record goes in after the file is there; an error here is ignored.
Stamp(p) ==
  /\ st[p] = "created"
  /\ file' = "written" /\ says' = mine(p)
  /\ To(p, "hold")
  /\ UNCHANGED seen
  /\ Still

StampFails(p) ==
  /\ st[p] = "created"
  /\ To(p, "hold")
  /\ UNCHANGED <<file, says, seen>>
  /\ Still

\* A file that is not there any more, or holds no record, proves nothing.
Read(p) ==
  /\ st[p] = "there"
  /\ IF file = "written"
     THEN seen' = [seen EXCEPT ![p] = says] /\ To(p, "judge")
     ELSE UNCHANGED seen /\ To(p, "refused")
  /\ UNCHANGED <<file, says>>
  /\ Still

Judge(p) ==
  /\ st[p] = "judge"
  /\ To(p, IF gone(seen[p]) THEN "seize" ELSE "refused")
  /\ UNCHANGED <<file, says, seen>>
  /\ Still

\* The takeover is an ordinary write, not an exclusive one.
Seize(p) ==
  /\ st[p] = "seize"
  /\ file' = "empty"
  /\ To(p, "fill")
  /\ UNCHANGED <<says, seen>>
  /\ Still

\* Mutant: the takeover keeps the old writer's record.
FillOld(p) ==
  /\ st[p] = "fill"
  /\ file' = "written" /\ says' = seen[p]
  /\ To(p, "hold")
  /\ UNCHANGED seen
  /\ Still

Fill(p) ==
  /\ st[p] = "fill"
  /\ file' = "written" /\ says' = mine(p)
  /\ To(p, "hold")
  /\ UNCHANGED seen
  /\ Still

\* Drop: the file goes away, whoever's it is by now.
Drop(p) ==
  /\ st[p] = "hold"
  /\ file' = "none"
  /\ To(p, "dropped")
  /\ UNCHANGED <<says, seen>>
  /\ Still

\* Mutant: a refused command drops the lock on its way out too.
ExitDropping(p) ==
  /\ st[p] \in {"dropped", "refused"}
  /\ file' = "none"
  /\ To(p, "none")
  /\ UNCHANGED <<says, seen>>
  /\ Still

\* The process exits: its command is over, or was refused the directory.
Exit(p) ==
  /\ st[p] \in {"dropped", "refused"}
  /\ To(p, "none")
  /\ UNCHANGED <<file, says, seen>>
  /\ Still

\* Nothing is given back.
Kill(p) ==
  /\ st[p] # "none"
  /\ kills < MaxKills
  /\ kills' = kills + 1
  /\ To(p, "none")
  /\ UNCHANGED <<file, says, seen, started, ticks, boot>>

Reboot ==
  /\ boot < MaxBoots
  /\ boot' = boot + 1
  /\ st' = [p \in Pids |-> "none"]
  /\ ticks' = 0
  /\ UNCHANGED <<file, says, seen, started, kills>>

Take(p) ==
  \/ CreateNew(p) \/ Stamp(p) \/ StampFails(p)
  \/ Read(p) \/ Judge(p) \/ Seize(p) \/ Fill(p) \/ TakeFails(p)

Next ==
  \/ \E p \in Pids : Begin(p) \/ Take(p) \/ Drop(p) \/ Exit(p) \/ Kill(p)
  \/ Reboot

Spec == Init /\ [][Next]_vars

-----------------------------------------------------------------------------
(***************************************************************************)
(* Properties.                                                             *)
(***************************************************************************)

\* Every variable keeps its type.
TypeOK ==
  /\ file \in {"none", "empty", "written"}
  /\ says \in Held
  /\ st \in [Pids -> Inside \cup {"none", "hold", "dropped", "refused"}]
  /\ seen \in [Pids -> Held]
  /\ started \in [Pids -> 0..MaxTicks]
  /\ ticks \in 0..MaxTicks /\ boot \in 0..MaxBoots /\ kills \in 0..MaxKills

\* Two processes never hold the directory at once.
OneHolder ==
  \A p, q \in Pids : st[p] = "hold" /\ st[q] = "hold" => p = q

\* While a process holds the directory the file is there, and if there is a
\* record in it the record is that process's: nobody took it or removed it.
HolderIsNamed ==
  \A p \in Pids :
    st[p] = "hold" => file # "none" /\ (file = "written" => says = mine(p))

\* The very process that wrote a record is running still.
Running(held) == \E p \in Pids : st[p] # "none" /\ mine(p) = held

\* A record is obeyed exactly when its writer is running: a lock that names a
\* running process is never truncated by another, and nobody who has read it is
\* turned away if its writer is gone, on this boot or an earlier one and
\* whoever has its pid now.
RecordIsObeyed ==
  [][\A p \in Pids : file = "written" =>
       /\ st[p] = "seize" /\ st'[p] = "fill" => ~Running(says)
       /\ st[p] = "judge" /\ st'[p] = "refused" => Running(says)]_vars

=============================================================================
