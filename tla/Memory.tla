------------------------------- MODULE Memory -------------------------------
(***************************************************************************)
(* `cache-bench mem` (crates/cache-bench/src/mem.rs): what an engine holds *)
(* in memory with a known number of keys in it, one engine after another,  *)
(* each row on the disk before the next engine is started.                 *)
(*                                                                         *)
(* Servers are process groups on one socket path that other commands use   *)
(* too (Doctor).  A process is as large as what it started with and the    *)
(* keys it was given, and remembers its largest size; nothing else makes   *)
(* it grow.  A fill is whole when memtier's file is read as whole, which   *)
(* is at most a thousandth short (Launch).  A deadline may pass whenever   *)
(* what it is for has not happened.                                        *)
(***************************************************************************)
EXTENDS Naturals, Sequences, FiniteSetsExt, Functions

CONSTANTS
  Nobody,      \* no group
  Groups,      \* process groups; one is used again when it is gone
  ALL,         \* the engines, in the order of CacheKind::ALL
  Forking,     \* those that fork a worker
  MaxFaults    \* kills, failed writes and failed reads

ASSUME MemoryAssumption ==
  Nobody \notin Groups /\ Forking \subseteq {ALL[i] : i \in DOMAIN ALL} /\ MaxFaults \in Nat

VARIABLES
  life,    \* each group's leader: gone, starting, up, or a zombie
  worker,  \* the groups that have a worker
  runs,    \* the engine each group runs
  keys,    \* the groups a fill that was read as whole went to
  socket,  \* {the group whose socket is at the path}, or {}
  left,    \* groups whose command is gone: nobody reaps or stops them
  mem,     \* the command: where it is and what it remembers
  file,    \* memory.json: absent, torn, or whole
  rows,    \* what it says when it is whole: a row of each engine in it
  recorded,\* engines whose row was put on the disk, and not cut off by a write
           \* that failed or lost on a command that could not read it
  faults

servers == <<life, worker, runs, keys, socket, left>>
disk    == <<file, rows, recorded>>
memvars == <<servers, mem, disk, faults>>

Engines == Range(ALL)

(***************************************************************************)
(* Servers, as both commands see them.                                     *)
(***************************************************************************)
Listens(g) == life[g] = "up" \/ g \in worker
Answering  == \E g \in socket : Listens(g)

\* Something of the group is there to be signalled.
Exists(g) == life[g] # "gone" \/ g \in worker

Clears == socket' = {} /\ UNCHANGED <<life, worker, runs, keys, left>>

\* A pid that memtier or a handle still refers to is not given out again.
Spawns(g, cache) ==
  /\ ~Exists(g) /\ g \notin mem.reached
  /\ life' = [life EXCEPT ![g] = "starting"]
  /\ runs' = [runs EXCEPT ![g] = cache]
  /\ keys' = keys \ {g} /\ left' = left \ {g}
  /\ UNCHANGED <<worker, socket>>

\* The leader is reaped; whoever it leaves behind is nobody's.
Reaps(g) ==
  /\ life' = [life EXCEPT ![g] = "gone"]
  /\ left' = left \cup {g}
  /\ UNCHANGED <<worker, runs, keys, socket>>

\* TERM, the grace, KILL: the whole group, and the leader reaped.
Falls(g) ==
  /\ life' = [life EXCEPT ![g] = "gone"]
  /\ worker' = worker \ {g} /\ keys' = keys \ {g}
  /\ runs' = [runs EXCEPT ![g] = ALL[1]]
  /\ UNCHANGED <<socket, left>>

(***************************************************************************)
(* What the programs around do.                                            *)
(***************************************************************************)
Exits(g) == life' = [life EXCEPT ![g] = IF g \in left THEN "gone" ELSE "zombie"]

\* A path that is free is bound; one that is taken is refused or bound over.
Binds(g) ==
  /\ life[g] = "starting"
  /\ \/ /\ socket' = {g}
        /\ life' = [life EXCEPT ![g] = "up"]
        /\ worker' = IF runs[g] \in Forking THEN worker \cup {g} ELSE worker
     \/ /\ socket # {}
        /\ Exits(g)
        /\ UNCHANGED <<socket, worker>>
  /\ UNCHANGED <<runs, keys, left>>

Dies(g) ==
  /\ life[g] \in {"starting", "up"}
  /\ Exits(g)
  /\ UNCHANGED <<socket, worker, runs, keys, left>>

WorkerDies(g) ==
  /\ g \in worker
  /\ worker' = worker \ {g}
  /\ UNCHANGED <<life, socket, runs, keys, left>>

World == \E g \in Groups : Binds(g) \/ Dies(g) \/ WorkerDies(g)

(***************************************************************************)
(* sample::group: the sum of what its members peaked at.  A member that    *)
(* went away since it was listed is skipped; a zombie has no VmHWM line    *)
(* and fails the whole reading.                                            *)
(***************************************************************************)
FILL == 4
Members(g) == (IF life[g] = "gone" THEN {} ELSE {"leader"}) \cup (IF g \in worker THEN {"worker"} ELSE {})
Processes(g) == Cardinality(Members(g))
VmHWM(g) == 1 + (IF g \notin keys THEN 0 ELSE IF runs[g] \in Forking THEN FILL \div 2 ELSE FILL)
Peak(g) == Processes(g) * VmHWM(g)
Readable(g) == Members(g) # {} /\ life[g] # "zombie"

(***************************************************************************)
(* The report.                                                             *)
(***************************************************************************)
put(report, row) == [c \in DOMAIN report \cup {row.cache} |->
                       IF c = row.cache THEN row ELSE report[c]]

NoReport == [c \in {} |-> 0]

\* Mutant: a command begins with a report of its own.
ParsedAfresh == NoReport

Parsed == IF file = "whole" THEN rows ELSE NoReport

Idle == [pc |-> "idle", wanted |-> <<>>, me |-> Nobody, before |-> 0, after |-> 0,
         processes |-> 0, reached |-> {}, measured |-> FALSE, alive |-> FALSE,
         held |-> FALSE, report |-> NoReport]

MemInit ==
  /\ life = [g \in Groups |-> "gone"] /\ worker = {} /\ keys = {}
  /\ runs \in [Groups -> {ALL[1]}]
  /\ socket = {} /\ left = {}
  /\ mem = Idle
  /\ file = "absent" /\ rows = NoReport /\ recorded = {}
  /\ faults = 0

(***************************************************************************)
(* run: the wanted engines, one after another.                             *)
(***************************************************************************)
Starts ==
  /\ mem.pc = "idle"
  /\ file # "torn"
  /\ \E wanted \in {ALL} \cup {<<c>> : c \in Engines} :
       mem' = [Idle EXCEPT !.pc = "look", !.wanted = wanted, !.report = Parsed]
  /\ UNCHANGED <<servers, disk, faults>>

\* Every error of the read is taken for a file that is not there, and what is
\* in it will be written over by the first row.
StartsBlind ==
  /\ mem.pc = "idle"
  /\ file # "absent"
  /\ faults < MaxFaults /\ faults' = faults + 1
  /\ \E wanted \in {ALL} \cup {<<c>> : c \in Engines} :
       mem' = [Idle EXCEPT !.pc = "look", !.wanted = wanted, !.report = NoReport]
  /\ recorded' = {}
  /\ UNCHANGED <<servers, file, rows>>

Cache == Head(mem.wanted)
Goes(pc) == mem' = [mem EXCEPT !.pc = pc]
Returns == mem' = Idle

\* one: the stray check, the binaries and the version.
Looks ==
  /\ mem.pc = "look"
  /\ IF Answering THEN Returns ELSE Goes("clear")
  /\ UNCHANGED <<servers, disk, faults>>

NotThere ==
  /\ mem.pc \in {"look", "clear", "spawn"}
  /\ Returns
  /\ UNCHANGED <<servers, disk, faults>>

\* Server::start.
ClearsPath ==
  /\ mem.pc = "clear"
  /\ Clears
  /\ Goes("spawn")
  /\ UNCHANGED <<disk, faults>>

SpawnsServer(g) ==
  /\ mem.pc = "spawn"
  /\ Spawns(g, Cache)
  /\ mem' = [mem EXCEPT !.pc = "wait", !.me = g]
  /\ UNCHANGED <<disk, faults>>

IsReady ==
  /\ mem.pc = "wait"
  /\ Answering
  /\ Goes("before")
  /\ UNCHANGED <<servers, disk, faults>>

NotReady ==
  /\ mem.pc = "wait"
  /\ IF life[mem.me] = "zombie" THEN Reaps(mem.me) ELSE Falls(mem.me)
  /\ Returns
  /\ UNCHANGED <<disk, faults>>

(***************************************************************************)
(* fill_and_read: whatever it returns, the server is asked and stopped.    *)
(***************************************************************************)
Before ==
  /\ mem.pc = "before"
  /\ mem' = IF Readable(mem.me) THEN [mem EXCEPT !.pc = "fill", !.before = Peak(mem.me)]
            ELSE [mem EXCEPT !.pc = "alive"]
  /\ UNCHANGED <<servers, disk, faults>>

\* memtier connects once, to whoever is at the path then.
FillStarts ==
  /\ mem.pc = "fill"
  /\ mem' = IF Answering THEN [mem EXCEPT !.pc = "filling", !.reached = socket]
            ELSE [mem EXCEPT !.pc = "alive"]
  /\ UNCHANGED <<servers, disk, faults>>

FillEnds ==
  /\ mem.pc = "filling"
  /\ \A g \in mem.reached : Listens(g)
  /\ keys' = keys \cup mem.reached
  /\ mem' = [mem EXCEPT !.pc = "settle", !.reached = {}]
  /\ UNCHANGED <<life, worker, runs, socket, left, disk, faults>>

\* It ended short, or its hour was over.
FillFails ==
  /\ mem.pc = "filling"
  /\ mem' = [mem EXCEPT !.pc = "alive", !.reached = {}]
  /\ UNCHANGED <<servers, disk, faults>>

\* Mutant: a peak that did not move is a peak.
GrewOrNot(before, after) == after >= before

Grew(before, after) == after > before

After ==
  /\ mem.pc = "settle"
  /\ mem' = [mem EXCEPT
       !.pc = "alive",
       !.measured = Readable(mem.me) /\ Grew(mem.before, Peak(mem.me)),
       !.after = Peak(mem.me), !.processes = Processes(mem.me),
       !.held = mem.me \in keys /\ life[mem.me] = "up"]
  /\ UNCHANGED <<servers, disk, faults>>

\* Asked before the stop; a leader that has exited is reaped by asking.
Alive ==
  /\ mem.pc = "alive"
  /\ IF life[mem.me] = "zombie"
     THEN mem' = [mem EXCEPT !.pc = "unlink", !.me = Nobody] /\ Reaps(mem.me)
     ELSE mem' = [mem EXCEPT !.pc = "stop", !.alive = TRUE] /\ UNCHANGED servers
  /\ UNCHANGED <<disk, faults>>

Stops ==
  /\ mem.pc = "stop"
  /\ Falls(mem.me)
  /\ mem' = [mem EXCEPT !.pc = "unlink", !.me = Nobody]
  /\ UNCHANGED <<disk, faults>>

\* Something in the group outlived the kill: neither unlinked nor recorded.
Outlived ==
  /\ mem.pc = "stop"
  /\ mem.me \in worker
  /\ Reaps(mem.me)
  /\ mem' = [mem EXCEPT !.pc = "row", !.me = Nobody, !.measured = FALSE]
  /\ UNCHANGED <<disk, faults>>

\* The path goes, whoever's socket it is by now.
Unlinks ==
  /\ mem.pc = "unlink"
  /\ Clears
  /\ Goes("row")
  /\ UNCHANGED <<disk, faults>>

\* measured?, alive?, stopped?, in that order; the first to fail ends `run`.
Row ==
  /\ mem.pc = "row"
  /\ IF mem.measured /\ mem.alive
     THEN mem' = [Idle EXCEPT !.pc = "write", !.wanted = mem.wanted,
            !.report = put(mem.report, [cache |-> Cache, peak |-> mem.after, baseline |-> mem.before,
                                        processes |-> mem.processes, held |-> mem.held])]
     ELSE Returns
  /\ UNCHANGED <<servers, disk, faults>>

\* results::write, in its two halves.
Truncates ==
  /\ mem.pc = "write"
  /\ file' = "torn"
  /\ Goes("sync")
  /\ UNCHANGED <<servers, rows, recorded, faults>>

Syncs ==
  /\ mem.pc = "sync"
  /\ file' = "whole" /\ rows' = mem.report
  /\ recorded' = recorded \cup {Cache}
  /\ mem' = IF Len(mem.wanted) = 1 THEN Idle
            ELSE [Idle EXCEPT !.pc = "look", !.wanted = Tail(mem.wanted), !.report = mem.report]
  /\ UNCHANGED <<servers, faults>>

WriteFails ==
  /\ mem.pc = "sync"
  /\ faults < MaxFaults /\ faults' = faults + 1
  /\ recorded' = {}
  /\ Returns
  /\ UNCHANGED <<servers, file, rows>>

\* The command is killed; its server stays.
Killed ==
  /\ mem.pc # "idle"
  /\ faults < MaxFaults /\ faults' = faults + 1
  /\ left' = IF mem.me = Nobody THEN left ELSE left \cup {mem.me}
  /\ life' = [g \in Groups |-> IF g = mem.me /\ life[g] = "zombie" THEN "gone" ELSE life[g]]
  /\ recorded' = IF file = "torn" THEN {} ELSE recorded
  /\ mem' = Idle
  /\ UNCHANGED <<worker, runs, keys, socket, file, rows>>

\* Somebody removes a memory.json that no command will read.
Removed ==
  /\ mem.pc = "idle" /\ file = "torn"
  /\ file' = "absent" /\ rows' = NoReport
  /\ UNCHANGED <<servers, mem, recorded, faults>>

Mem ==
  \/ Starts \/ StartsBlind \/ Looks \/ NotThere \/ ClearsPath \/ (\E g \in Groups : SpawnsServer(g))
  \/ IsReady \/ NotReady \/ Before \/ FillStarts \/ FillEnds \/ FillFails \/ After
  \/ Alive \/ Stops \/ Outlived \/ Unlinks \/ Row \/ Truncates \/ Syncs \/ WriteFails
  \/ Killed \/ Removed

-----------------------------------------------------------------------------
(***************************************************************************)
(* Properties.                                                             *)
(***************************************************************************)
\* mem.rs: a peak is never of a server that holds some unknown part of the
\* keys.  Whoever takes the socket path or dies meanwhile, the row of an engine
\* that is one process was read from the server started for it, up, with every
\* key of the fill in it.
RowsAreOwn ==
  file = "whole" => \A c \in DOMAIN rows \ Forking : rows[c].held /\ rows[c].processes = 1

\* mem.rs: a failure on the last engine does not throw away the ones before
\* it, and a rerun of one leaves the rest: a memory.json that is whole has
\* the row of every engine that was ever recorded, short of a write that was
\* itself cut off and of a file that a command could not read.
RowsAreKept == file = "whole" => recorded \subseteq DOMAIN rows

=============================================================================
