-------------------------------- MODULE Once --------------------------------
(***************************************************************************)
(* One attempt at a cell, again and again: `once` and `measure` in         *)
(* crates/cache-bench/src/run.rs over Server and Running (cb-cache), a     *)
(* memtier pass (cb-memtier/src/drive.rs) and perf (cb-perf/src/stat.rs).  *)
(*                                                                         *)
(* The harness is one process.  Around it are the servers it has started,  *)
(* each the leader of a process group that may hold workers too, the       *)
(* socket file they all bind, memtier, perf, and the clock: a wait with a  *)
(* deadline ends by what it waits for or by `late`.  A connect has none    *)
(* (ready.rs sets its timeouts on the connection), so it may wait for ever *)
(* in the backlog of a server that accepts nothing.                        *)
(*                                                                         *)
(* A server that finds the path taken exits, as "several" do (server.rs,   *)
(* clear), or unlinks what is there and binds over it.  Assumed of the     *)
(* servers: they fork their workers after they have bound, and they have   *)
(* bound or exited by the time a pass ends.                                *)
(***************************************************************************)
EXTENDS Naturals

CONSTANTS
  Groups,  \* process groups; one is used again when it is gone
  Orphans  \* may a leader die by itself and leave its workers behind

ASSUME OnceAssumption == Orphans \in BOOLEAN

VARIABLES
  life,    \* the leader of each group
  workers, \* the groups with a process besides the leader
  sent,    \* the strongest signal sent to the group it started
  socket,  \* {the group whose socket is at the path}, or {}
  ousted,  \* groups that another bound over (history)
  pc,      \* where the harness is in its attempt
  me,      \* the group of the server it started
  child,   \* it has not reaped that server's leader
  late,    \* the deadline of its present wait has passed
  queued,  \* {the group in whose full backlog its connect waits}, or {}
  pass,    \* the memtier pass it is at
  load,    \* memtier: none, running or exited
  out,     \* what is in each pass's JSON file
  served,  \* {the group that memtier talked to in each pass}, or {}
  counters,\* the cell asks for counters
  perf,    \* perf: none, on, told to stop, or ended
  capture, \* what perf wrote: nothing or its counters
  covered, \* the passes perf was attached across
  good,    \* `measure` returned numbers
  verdict, \* how the last attempt came out
  left     \* groups nobody stops any more

world  == <<life, workers, socket, ousted, left>>
mine   == <<me, child>>
tools  == <<load, perf>>
locals == <<sent, good, pass, out, served, counters, capture, covered>>
vars   == <<world, mine, tools, locals, pc, late, queued, verdict>>

Passes == {"warmup", "sets", "gets"}
Each(v) == [p \in Passes |-> v]

\* A leader that exited and was not reaped still counts as in its group.
Runs(g) == life[g] \in {"starting", "up", "zombie"} \/ g \in workers

\* Only a process that is running can answer on the socket.
Listens(g) == life[g] = "up" \/ g \in workers
Answering == \E g \in socket : Listens(g)

\* The harness is in a connect that nothing has accepted.  The path may be
\* somebody else's by now: it is in that listener's backlog until it closes.
Hung == \E g \in queued : Listens(g)

Init ==
  /\ life = [g \in Groups |-> "gone"] /\ workers = {} /\ socket = {} /\ left = {}
  /\ ousted = {} /\ queued = {}
  /\ me \in Groups /\ child = FALSE
  /\ load = "none" /\ perf = "none"
  /\ sent = "none" /\ good = FALSE
  /\ pass = "warmup" /\ out = Each("old") /\ served = Each({})
  /\ counters = FALSE /\ capture = "nothing" /\ covered = {}
  /\ pc = "idle" /\ late = FALSE /\ verdict = "none"

\* A wait begins with its deadline ahead of it, and a poll goes on with it.
Go(next)   == pc' = next /\ late' = FALSE /\ queued' = {} /\ UNCHANGED verdict
Move(next) == Go(next) /\ UNCHANGED locals
Poll(next) == pc' = next /\ queued' = {} /\ UNCHANGED <<late, verdict, locals>>

\* `once` has returned and its locals are gone.  The next attempt may find
\* the JSON files of this one.
Over(how) ==
  /\ pc' = "idle" /\ late' = FALSE /\ queued' = {} /\ verdict' = how
  /\ sent' = "none" /\ good' = FALSE
  /\ pass' = "warmup" /\ out' = Each("old") /\ served' = Each({})
  /\ counters' = FALSE /\ capture' = "nothing" /\ covered' = {}

Fail == Over("failed")

Signal(s) ==
  /\ sent' = s
  /\ UNCHANGED <<good, pass, out, served, counters, capture, covered>>

\* try_wait or wait has collected the leader.
Reap ==
  /\ life[me] = "zombie"
  /\ life' = [life EXCEPT ![me] = "gone"]
  /\ child' = FALSE
  /\ UNCHANGED me

(***************************************************************************)
(* once, up to a server that answers.                                      *)
(***************************************************************************)
Begin ==
  /\ pc = "idle"
  /\ counters' \in BOOLEAN
  /\ pc' = "stray" /\ verdict' = "none"
  /\ UNCHANGED <<world, mine, tools, late, queued, sent, good, pass, out, served,
                 capture, covered>>

\* Mutant: nobody looks whether something answers already.
StrayCheckSkipped ==
  /\ pc = "stray"
  /\ Move("clear")
  /\ UNCHANGED <<world, mine, tools>>

\* connect finds the backlog full and waits.
Queues ==
  /\ pc \in {"stray", "knock"}
  /\ queued = {}
  /\ Answering
  /\ queued' = socket
  /\ UNCHANGED <<world, mine, tools, locals, pc, late, verdict>>

\* anybody_there: a connection that is accepted stops the run, and so does
\* one that has waited (Accepts), unless the listener goes meanwhile.
StrayCheck ==
  /\ pc = "stray"
  /\ ~Hung
  /\ IF queued = {} /\ Answering THEN Fail ELSE Move("clear")
  /\ UNCHANGED <<world, mine, tools>>

\* The binary, its version, the counters, something else at the path.
Refused ==
  /\ pc \in {"stray", "clear", "start"}
  /\ ~Hung
  /\ Fail
  /\ UNCHANGED <<world, mine, tools>>

\* clear: whatever socket is at the path is taken away, listened on or not.
Clear ==
  /\ pc = "clear"
  /\ socket' = {}
  /\ Move("start")
  /\ UNCHANGED <<life, workers, ousted, left, mine, tools>>

Start(g) ==
  /\ pc = "start"
  /\ ~Runs(g)
  /\ life' = [life EXCEPT ![g] = "starting"]
  /\ left' = left \ {g} /\ ousted' = ousted \ {g}
  /\ me' = g /\ child' = TRUE
  /\ Move("wait")
  /\ UNCHANGED <<workers, socket, tools>>

\* ready::wait, first half: an exited server is never going to answer.  The
\* handle is empty then, so dropping it kills nothing.
WaitExited ==
  /\ pc = "wait"
  /\ Reap
  /\ left' = left \cup {me}
  /\ Fail
  /\ UNCHANGED <<workers, socket, ousted, tools>>

WaitAlive ==
  /\ pc = "wait"
  /\ life[me] # "zombie"
  /\ Poll("knock")
  /\ UNCHANGED <<world, mine, tools>>

\* Second half: whoever is at the path may answer.
KnockAnswered ==
  /\ pc = "knock"
  /\ queued = {}
  /\ Answering
  /\ Move("pass")
  /\ UNCHANGED <<world, mine, tools>>

KnockAgain ==
  /\ pc = "knock"
  /\ ~Hung
  /\ ~late
  /\ Poll("wait")
  /\ UNCHANGED <<world, mine, tools>>

\* The deadline is past: Running's Drop kills the group and waits for the
\* leader, and looks at nothing after that.
KnockSilent ==
  /\ pc = "knock"
  /\ ~Hung
  /\ late
  /\ Signal("kill")
  /\ Go("drop")
  /\ UNCHANGED <<world, mine, tools>>

\* The listener takes the connection at last: a stray is there after all, or
\* the knock goes on from here, with its timeouts.
Accepts ==
  /\ Hung
  /\ \/ pc = "stray" /\ Fail
     \/ pc = "knock" /\ Move("pass")
     \/ pc = "knock" /\ ~late /\ Poll("wait")
     \/ pc = "knock" /\ late /\ Signal("kill") /\ Go("drop")
  /\ UNCHANGED <<world, mine, tools>>

DropReaps ==
  /\ pc = "drop"
  /\ Reap
  /\ Fail
  /\ UNCHANGED <<workers, socket, ousted, left, tools>>

(***************************************************************************)
(* measure: three passes, and perf across the two that are kept.           *)
(***************************************************************************)
Serving == {g \in socket : Listens(g)}

LoadStarts ==
  /\ pc = "pass"
  /\ out' = [out EXCEPT ![pass] = "none"]
  /\ served' = [served EXCEPT ![pass] = Serving]
  /\ load' = "running"
  /\ Go("load")
  /\ UNCHANGED <<world, mine, perf, sent, good, pass, counters, capture, covered>>

\* Mutant: perf is only asked to stop when its session is dropped.
MeasureFailsAsking ==
  /\ perf' = IF perf = "on" THEN "told" ELSE perf
  /\ load' = "none"
  /\ Move("stop")
  /\ UNCHANGED <<world, mine>>

\* `?` out of measure: memtier's group and perf's are dropped on the way,
\* interrupted first if it is perf, then killed and waited for.
MeasureFails ==
  /\ perf' = "none"
  /\ load' = "none"
  /\ Move("stop")
  /\ UNCHANGED <<world, mine>>

\* memtier or perf will not start, or the old file will not go.
NotStarted ==
  /\ pc \in {"pass", "attach"}
  /\ MeasureFails

\* parse::read: the JSON is all there and the operations were done.
LoadRead ==
  /\ pc = "load"
  /\ load = "exited"
  /\ out[pass] \in {"own", "old"}
  /\ load' = "none"
  /\ covered' = IF perf = "on" THEN covered \cup {pass} ELSE covered
  /\ pass' = IF pass = "warmup" THEN "sets" ELSE "gets"
  /\ Go(CASE pass = "gets"   -> IF counters THEN "finish" ELSE "alive"
          [] pass = "warmup" -> IF counters THEN "attach" ELSE "pass"
          [] pass = "sets"   -> "pass")
  /\ UNCHANGED <<world, mine, perf, sent, good, out, served, counters, capture>>

\* No file, not all of it, or not all of the operations.
LoadUnreadable ==
  /\ pc = "load"
  /\ load = "exited"
  /\ out[pass] \notin {"own", "old"}
  /\ MeasureFails

LoadTooLong ==
  /\ pc = "load"
  /\ load = "running"
  /\ late
  /\ MeasureFails

\* Session::attach, between the warmup and the measured passes.
Attach ==
  /\ pc = "attach"
  /\ perf' = "on" /\ capture' = "nothing"
  /\ Go("pass")
  /\ UNCHANGED <<world, mine, load, sent, good, pass, out, served, counters, covered>>

\* Session::finish: interrupt, a grace period, then read the capture.
Finish ==
  /\ pc = "finish"
  /\ perf' = IF perf = "on" THEN "told" ELSE perf
  /\ Move("settle")
  /\ UNCHANGED <<world, mine, load>>

\* Mutant: whatever is in the capture will do.
FinishReadsAnything ==
  /\ pc = "settle"
  /\ perf = "ended"
  /\ perf' = "none"
  /\ Move("alive")
  /\ UNCHANGED <<world, mine, load>>

FinishReads ==
  /\ pc = "settle"
  /\ perf = "ended"
  /\ capture = "counters"
  /\ perf' = "none"
  /\ Move("alive")
  /\ UNCHANGED <<world, mine, load>>

FinishFails ==
  /\ pc = "settle"
  /\ \/ perf = "ended" /\ capture = "nothing"
     \/ perf # "ended" /\ late
  /\ MeasureFails

\* Mutant: nobody looks whether the server is still up.
StillUpAnyway ==
  /\ pc = "alive"
  /\ good' = TRUE
  /\ Go("stop")
  /\ UNCHANGED <<world, mine, tools, sent, pass, out, served, counters, capture, covered>>

StillUp ==
  /\ pc = "alive"
  /\ life[me] # "zombie"
  /\ good' = TRUE
  /\ Go("stop")
  /\ UNCHANGED <<world, mine, tools, sent, pass, out, served, counters, capture, covered>>

\* It exited during its own run, and looking reaps it.
NotUp ==
  /\ pc = "alive"
  /\ Reap
  /\ left' = left \cup {me}
  /\ Move("stop")
  /\ UNCHANGED <<workers, socket, ousted, tools>>

(***************************************************************************)
(* Running::stop and Server::stop, whether the passes worked or not.       *)
(***************************************************************************)
\* Nothing is held, so nothing is signalled and nothing is confirmed.
StopNothing ==
  /\ pc = "stop"
  /\ ~child
  /\ Move("unlink")
  /\ UNCHANGED <<world, mine, tools>>

Term ==
  /\ pc = "stop"
  /\ child
  /\ Signal("term")
  /\ Go("grace")
  /\ UNCHANGED <<world, mine, tools>>

\* The leader went when it was asked to, or only because it was killed.
Stopped ==
  /\ pc \in {"grace", "reap"}
  /\ Reap
  /\ Move("confirm")
  /\ UNCHANGED <<workers, socket, ousted, left, tools>>

\* Mutant: a server that ignores the request is waited for.
KillWaits ==
  /\ pc = "grace"
  /\ late
  /\ Move("reap")
  /\ UNCHANGED <<world, mine, tools>>

Kill ==
  /\ pc = "grace"
  /\ late
  /\ Signal("kill")
  /\ Go("reap")
  /\ UNCHANGED <<world, mine, tools>>

\* settled: the group is confirmed gone, or is a stray.
Settled ==
  /\ pc = "confirm"
  /\ ~Runs(me)
  /\ Move("unlink")
  /\ UNCHANGED <<world, mine, tools>>

Stray ==
  /\ pc = "confirm"
  /\ Runs(me)
  /\ late
  /\ Fail
  /\ UNCHANGED <<world, mine, tools>>

\* The socket is taken away, and the run file is written if there is one.
Unlink ==
  /\ pc = "unlink"
  /\ socket' = {}
  /\ IF good THEN Move("write") ELSE Fail
  /\ UNCHANGED <<life, workers, ousted, left, mine, tools>>

Write ==
  /\ pc = "write"
  /\ \E how \in {"written", "failed"} : Over(how)
  /\ UNCHANGED <<world, mine, tools>>

(***************************************************************************)
(* The programs around the harness.                                        *)
(***************************************************************************)
harness == <<mine, locals, pc, late, queued, verdict>>

\* A leader whose parent is gone is reaped by init.
Exited(g) == IF child /\ g = me THEN "zombie" ELSE "gone"

\* A path that is free is bound.  One that is taken is refused, or bound over:
\* who had it still runs, and nobody reaches it any more.
Bind(g) ==
  /\ life[g] = "starting"
  /\ \/ /\ life' = [life EXCEPT ![g] = "up"]
        /\ socket' = {g} /\ ousted' = ousted \cup (socket \ {g})
     \/ /\ socket # {}
        /\ life' = [life EXCEPT ![g] = Exited(g)]
        /\ UNCHANGED <<socket, ousted>>
  /\ UNCHANGED <<workers, left, tools, harness>>

Fork(g) ==
  /\ life[g] = "up"
  /\ workers' = workers \cup {g}
  /\ UNCHANGED <<life, socket, ousted, left, tools, harness>>

LeaderExits(g) ==
  /\ life[g] \in {"starting", "up"}
  /\ life' = [life EXCEPT ![g] = Exited(g)]
  /\ workers' = IF Orphans \/ (g = me /\ sent # "none") THEN workers
                ELSE workers \ {g}
  /\ UNCHANGED <<socket, ousted, left, tools, harness>>

WorkersExit(g) ==
  /\ g \in workers
  /\ workers' = workers \ {g}
  /\ UNCHANGED <<life, socket, ousted, left, tools, harness>>

\* memtier exits: with every operation done, with fewer, or with no file.
\* The operations are done only if the server it talks to is there still.
LoadExits ==
  /\ load = "running"
  /\ load' = "exited"
  /\ \E got \in {"own", "short", out[pass]} :
       /\ got = "own" => /\ \E g \in served[pass] : Listens(g)
                         /\ life[me] # "starting"
       /\ out' = [out EXCEPT ![pass] = got]
  /\ UNCHANGED <<world, mine, perf, pc, late, queued, verdict, sent, good, pass,
                 served, counters, capture, covered>>

\* perf prints its counters when it is told to stop or its target exits, and
\* may give up with nothing at any time.
PerfExits ==
  /\ perf \in {"on", "told"}
  /\ perf' = "ended"
  /\ \/ UNCHANGED capture
     \/ /\ perf = "told" \/ life[me] # "up"
        /\ capture' = "counters"
  /\ UNCHANGED <<world, mine, load, pc, late, queued, verdict, sent, good, pass,
                 out, served, counters, covered>>

Tick ==
  /\ pc \in {"wait", "knock", "load", "settle", "grace", "confirm"}
  /\ ~late
  /\ late' = TRUE
  /\ UNCHANGED <<world, mine, tools, locals, pc, queued, verdict>>

\* The harness is killed: its children live on and nobody will stop them.
HarnessDies ==
  /\ pc # "idle"
  /\ Over("killed")
  /\ life' = IF child /\ life[me] = "zombie" THEN [life EXCEPT ![me] = "gone"] ELSE life
  /\ left' = IF child THEN left \cup {me} ELSE left
  /\ child' = FALSE
  /\ load' = "none" /\ perf' = "none"
  /\ UNCHANGED <<workers, socket, ousted, me>>

Ready == WaitExited \/ WaitAlive \/ KnockAnswered \/ KnockAgain \/ KnockSilent \/ DropReaps
Measure ==
  \/ LoadStarts \/ NotStarted \/ LoadRead \/ LoadUnreadable \/ LoadTooLong
  \/ Attach \/ Finish \/ FinishReads \/ FinishFails \/ StillUp \/ NotUp
Stop == StopNothing \/ Term \/ Stopped \/ Kill \/ Settled \/ Stray \/ Unlink

Harness ==
  \/ StrayCheck \/ Refused \/ Clear \/ \E g \in Groups : Start(g)
  \/ Ready \/ Measure \/ Stop \/ Write

Server(g) == Bind(g) \/ Fork(g) \/ LeaderExits(g) \/ WorkersExit(g)

Next ==
  \/ Begin \/ Harness \/ HarnessDies \/ Tick \/ LoadExits \/ PerfExits
  \/ Queues \/ Accepts
  \/ \E g \in Groups : Server(g)

\* The harness runs and the clock does; a leader that was killed dies.  No
\* server, memtier or perf is assumed to do anything else at all, and none to
\* accept a connection.
LeaderKilled == sent = "kill" /\ LeaderExits(me)

Spec ==
  /\ Init /\ [][Next]_vars
  /\ WF_vars(Harness) /\ WF_vars(Tick) /\ WF_vars(LeaderKilled)

-----------------------------------------------------------------------------
(***************************************************************************)
(* Properties.                                                             *)
(***************************************************************************)

\* Every variable keeps its type: the programs around the harness, its place
\* in the attempt, and what it has measured.
WorldTypes ==
  /\ life \in [Groups -> {"starting", "up", "zombie", "gone"}]
  /\ workers \subseteq Groups /\ left \subseteq Groups /\ socket \subseteq Groups
  /\ ousted \subseteq Groups
  /\ me \in Groups /\ child \in BOOLEAN
AttemptTypes ==
  /\ pc \in {"idle", "stray", "clear", "start", "wait", "knock", "drop", "pass",
             "load", "attach", "finish", "settle", "alive", "stop", "grace",
             "reap", "confirm", "unlink", "write"}
  /\ sent \in {"none", "term", "kill"} /\ late \in BOOLEAN
  /\ queued \subseteq Groups
  /\ load \in {"none", "running", "exited"} /\ perf \in {"none", "on", "told", "ended"}
  /\ counters \in BOOLEAN /\ good \in BOOLEAN /\ capture \in {"nothing", "counters"}
MeasureTypes ==
  /\ pass \in Passes /\ covered \subseteq Passes
  /\ out \in [Passes -> {"none", "short", "old", "own"}]
  /\ served \in [Passes -> SUBSET Groups]
TypeOK == WorldTypes /\ AttemptTypes /\ MeasureTypes

\* A run file holds this attempt's numbers, measured on the server this
\* attempt started: not an earlier pass's JSON, and not the answers of a
\* server a killed harness left behind, one that binds only now included.
\* `once` cannot tell when one of the two binds over the other, and then
\* nothing is said of whom that pass talked to.
BoundOver(p) == (served[p] \cup {me}) \cap ousted # {}
WrittenIsOwn ==
  pc = "write" => \A p \in Passes : out[p] = "own" /\ (served[p] = {me} \/ BoundOver(p))

\* Nothing an attempt started outlives it: a run file is written only when
\* nothing of its server's group is left, workers and a server that ignores
\* SIGTERM included, and no attempt that comes back leaves a perf attached
\* behind it, the ones that fail between the passes included.
GoneBeforeWritten ==
  /\ pc = "write" => ~Runs(me)
  /\ pc = "idle" => perf \notin {"on", "told"}

\* Nothing of another attempt runs beside a measured pass, except what
\* outlived a harness that was killed or a leader that died by itself, and
\* what was bound over, which the look for strays cannot reach.
NoCompany ==
  pc \in {"pass", "load"} =>
    \A g \in Groups \ {me} : Runs(g) => g \in left \/ g \in ousted

\* A cell that asks for counters is written with the counters of a perf that
\* was attached across both measured passes and not across the warmup.
CountersAreWhole ==
  pc = "write" /\ counters => capture = "counters" /\ covered = {"sets", "gets"}

\* An attempt ends whatever hangs once it is connected or started: a server
\* that never answers or will not stop, a memtier that never exits, a perf
\* that will not print.  Only a connect that is never accepted holds it for
\* ever, which ready.rs:25 has ATTEMPT for and no timeout is set on.
AttemptEnds == []<>(pc = "idle") \/ <>[]Hung

(***************************************************************************)
(* What the repository says and the code does not do.                      *)
(***************************************************************************)

\* cb-cache/src/supervise.rs:11: stopped or killed, the group is confirmed
\* gone before the run is called finished and the socket is removed.
ConfirmedGone == pc = "unlink" => ~Runs(me)

=============================================================================
