---------------------------- MODULE MemoryProofs ----------------------------
(***************************************************************************)
(* What memory.json says, for any engines, any number of groups, kills and *)
(* failed writes, and whatever `doctor --deep` does meanwhile; and what    *)
(* `doctor --deep` says.  None of the three invariants is inductive.       *)
(*                                                                         *)
(* - RowsAreKept: the file is replaced by what the command has in memory,  *)
(*   so a command must remember every row on the disk from the moment it   *)
(*   starts, and a file cut off must be known to be gone.                  *)
(* - RowsAreOwn: a server is its command's from the spawn to the stop,     *)
(*   since a pid that is waited for is not given out again (ServedInv),    *)
(*   and one that is a single process grows only by a fill of its own.     *)
(* - DeepMeansAnswered: as long as no other command is there, doctor's     *)
(*   server is the only one that can take the path (Alone).                *)
(***************************************************************************)
EXTENDS Doctor, FiniteSetTheorems, TLAPS

\* The command is a record of its fields, whatever is in them.
Fields(m) ==
  [pc |-> m.pc, wanted |-> m.wanted, me |-> m.me, before |-> m.before, after |-> m.after,
   processes |-> m.processes, reached |-> m.reached, measured |-> m.measured,
   alive |-> m.alive, held |-> m.held, report |-> m.report]
MemIsRecord == mem = Fields(mem)

\* A command remembers every row that was recorded.
Remembers == mem.pc # "idle" => recorded \subseteq DOMAIN mem.report

\* It is about to write the row of its engine.
HasItsRow == mem.pc \in {"write", "sync"} => Cache \in DOMAIN mem.report

\* Only a command that is writing leaves recorded rows in a torn file, and
\* where there is no file nothing was recorded.
TornIsWritten == file = "torn" => mem.pc = "sync" \/ recorded = {}
SyncIsTorn    == mem.pc = "sync" => file = "torn"
AbsentIsEmpty == file = "absent" => recorded = {}

RowsInv ==
  /\ MemIsRecord /\ file \in {"absent", "torn", "whole"}
  /\ RowsAreKept /\ Remembers /\ HasItsRow /\ TornIsWritten /\ SyncIsTorn /\ AbsentIsEmpty

LEMMA InitRows == Init => RowsInv
  BY DEF Init, MemInit, Idle, Fields, RowsInv, MemIsRecord, RowsAreKept, Remembers, HasItsRow,
         TornIsWritten, SyncIsTorn, AbsentIsEmpty

\* What moves the command along and leaves the disk and its report alone.
Onward ==
  /\ UNCHANGED disk
  /\ MemIsRecord'
  /\ \/ mem'.pc = "idle" /\ mem.pc # "sync"
     \/ /\ mem'.pc \notin {"idle", "write", "sync"} /\ mem.pc \notin {"idle", "sync"}
        /\ mem'.report = mem.report

LEMMA OnwardKeeps == RowsInv /\ Onward => RowsInv'
  BY DEF RowsInv, Onward, disk, RowsAreKept, Remembers, HasItsRow, TornIsWritten, SyncIsTorn,
         AbsentIsEmpty

LEMMA StepRows == RowsInv /\ [Next]_vars => RowsInv'
<1> SUFFICES ASSUME RowsInv, [Next]_vars PROVE RowsInv'
  OBVIOUS
<1>r. MemIsRecord
  BY DEF RowsInv
<1>i. Idle = Fields(Idle) /\ Idle.pc = "idle"
  BY DEF Idle, Fields
<1>1. CASE Starts
  <2>1. PICK wanted : mem' = [Idle EXCEPT !.pc = "look", !.wanted = wanted, !.report = Parsed]
    BY <1>1 DEF Starts
  <2>2. MemIsRecord' /\ mem'.pc = "look" /\ mem'.report = Parsed
    BY <2>1 DEF MemIsRecord, Idle, Fields
  <2>3. recorded \subseteq DOMAIN Parsed
    BY <1>1 DEF Starts, Parsed, RowsInv, RowsAreKept, AbsentIsEmpty
  <2> QED
    BY <1>1, <2>2, <2>3 DEF Starts, disk, RowsInv, RowsAreKept, Remembers, HasItsRow,
       TornIsWritten, SyncIsTorn, AbsentIsEmpty
<1>2. CASE Looks \/ NotThere \/ ClearsPath \/ IsReady \/ NotReady \/ Before \/ FillStarts
             \/ FillEnds \/ FillFails \/ After \/ Alive \/ Stops \/ Outlived \/ Unlinks
  <2>1. Onward
    BY <1>2, <1>r, <1>i DEF Onward, MemIsRecord, Fields, Looks, NotThere, ClearsPath, IsReady,
       NotReady, Before, FillStarts, FillEnds, FillFails, After, Alive, Stops, Outlived, Unlinks,
       Goes, Returns
  <2> QED
    BY <2>1, OnwardKeeps
<1>3. CASE \E g \in Groups : SpawnsServer(g)
  <2>1. Onward
    BY <1>3, <1>r DEF Onward, MemIsRecord, Fields, SpawnsServer
  <2> QED
    BY <2>1, OnwardKeeps
<1>4. CASE Row
  <2>1. CASE mem' = Idle
    BY <1>4, <1>i, <2>1, OnwardKeeps DEF Row, Onward, MemIsRecord
  <2>2. CASE mem' # Idle
    <3>1. PICK row : /\ row.cache = Cache
                     /\ mem' = [Idle EXCEPT !.pc = "write", !.wanted = mem.wanted,
                                            !.report = put(mem.report, row)]
      BY <1>4, <2>2 DEF Row, Returns
    <3>2. /\ MemIsRecord' /\ mem'.pc = "write" /\ mem'.wanted = mem.wanted
          /\ mem'.report = put(mem.report, row)
      BY <3>1 DEF MemIsRecord, Idle, Fields
    <3>3. DOMAIN mem'.report = DOMAIN mem.report \cup {Cache}
      BY <3>1, <3>2 DEF put
    <3>4. UNCHANGED disk /\ mem.pc = "row" /\ Cache' = Cache
      BY <1>4, <3>2 DEF Row, Cache
    <3> QED
      BY <3>2, <3>3, <3>4 DEF disk, RowsInv, RowsAreKept, Remembers, HasItsRow, TornIsWritten,
         SyncIsTorn, AbsentIsEmpty
  <2> QED
    BY <2>1, <2>2
<1>5. CASE Truncates
  <2>1. MemIsRecord' /\ mem'.pc = "sync" /\ mem'.report = mem.report /\ mem'.wanted = mem.wanted
    BY <1>5, <1>r DEF Truncates, Goes, MemIsRecord, Fields
  <2> QED
    BY <1>5, <2>1 DEF Truncates, RowsInv, RowsAreKept, Remembers, HasItsRow, TornIsWritten,
       SyncIsTorn, AbsentIsEmpty, Cache
<1>6. CASE Syncs
  <2>1. /\ MemIsRecord'
        /\ (mem'.pc = "idle" \/ (mem'.pc = "look" /\ mem'.report = mem.report))
    BY <1>6, <1>i DEF Syncs, MemIsRecord, Idle, Fields
  <2>2. recorded' \subseteq DOMAIN mem.report
    BY <1>6 DEF Syncs, RowsInv, Remembers, HasItsRow
  <2> QED
    BY <1>6, <2>1, <2>2 DEF Syncs, RowsInv, RowsAreKept, Remembers, HasItsRow, TornIsWritten,
       SyncIsTorn, AbsentIsEmpty
<1>7. CASE WriteFails \/ Killed
  <2>1. /\ MemIsRecord' /\ mem'.pc = "idle" /\ file' = file /\ rows' = rows
        /\ recorded' = {} \/ (recorded' = recorded /\ file # "torn")
    BY <1>7, <1>i DEF WriteFails, Killed, Returns, MemIsRecord
  <2> QED
    BY <2>1 DEF RowsInv, RowsAreKept, Remembers, HasItsRow, TornIsWritten, SyncIsTorn,
       AbsentIsEmpty
<1>8. CASE Removed
  BY <1>8 DEF Removed, RowsInv, MemIsRecord, RowsAreKept, Remembers, HasItsRow, TornIsWritten,
     SyncIsTorn, AbsentIsEmpty
<1>11. CASE StartsBlind
  <2>1. MemIsRecord' /\ mem'.pc = "look" /\ recorded' = {} /\ file' = file
    BY <1>11 DEF StartsBlind, MemIsRecord, Idle, Fields
  <2> QED
    BY <2>1 DEF RowsInv, RowsAreKept, Remembers, HasItsRow, TornIsWritten, SyncIsTorn,
       AbsentIsEmpty
<1>9. CASE UNCHANGED <<mem, disk>>
  BY <1>9 DEF disk, RowsInv, MemIsRecord, RowsAreKept, Remembers, HasItsRow, TornIsWritten,
     SyncIsTorn, AbsentIsEmpty, Cache
<1>10. Doc => UNCHANGED <<mem, disk>>
  BY DEF Doc, Checks, DeepClears, DeepSpawns, DeepAnswered, DeepNotUp, DeepStops, DeepUnlinks,
     Leaves, memvars, disk
<1> QED
  BY <1>1, <1>2, <1>3, <1>4, <1>5, <1>6, <1>7, <1>8, <1>9, <1>10, <1>11
  DEF Next, Mem, vars, memvars

\* A memory.json that is whole has the row of every engine that was ever
\* recorded, short of a write that was itself cut off and of a file that a
\* command could not read.
THEOREM RowsKept == Spec => []RowsAreKept
<1>1. RowsInv => RowsAreKept
  BY DEF RowsInv
<1> QED
  BY <1>1, InitRows, StepRows, PTL DEF Spec


-----------------------------------------------------------------------------
(***************************************************************************)
(* What a row says is of the engine it is named after.                     *)
(***************************************************************************)
\* The leaders and what they run are kept for every group.  A group has a
\* worker only under an engine that forks one, and a server that is starting
\* has neither worker nor keys: they were its predecessor's.
ServersOK ==
  /\ life \in [Groups -> {"gone", "starting", "up", "zombie"}]
  /\ runs = [g \in Groups |-> runs[g]]
  /\ socket \subseteq Groups /\ worker \subseteq Groups /\ keys \subseteq Groups
  /\ \A g \in worker : runs[g] \in Forking
  /\ \A g \in Groups : life[g] = "starting" => g \notin worker /\ g \notin keys

DocIsRecord == doc = [pc |-> doc.pc, kinds |-> doc.kinds, me |-> doc.me, answers |-> doc.answers]

\* While a command has a server, it is still to be reaped by it, and it is its
\* own: pids that are waited for are not given out again.
MemOwns == mem.me # Nobody =>
  /\ mem.me \in Groups /\ life[mem.me] # "gone" /\ mem.me \notin left
DocOwns == doc.me # Nobody =>
  /\ doc.me \in Groups /\ life[doc.me] # "gone" /\ doc.me \notin left /\ doc.me # mem.me

Served == {"wait", "before", "fill", "filling", "settle", "alive", "stop"}
OwnRuns == mem.pc \in Served => mem.me # Nobody /\ runs[mem.me] = Cache
DocServed == doc.pc \in {"wait", "stop"} => doc.me # Nobody
NotServed ==
  /\ (mem.pc \notin Served => mem.me = Nobody)
  /\ (doc.pc \notin {"wait", "stop"} => doc.me = Nobody)

\* memtier is connected to groups.
ReachedOK == mem.reached \subseteq Groups

\* A peak is compared with one that was read.
BeforeIsRead == mem.pc \in {"fill", "filling", "settle"} => mem.before \in Nat \ {0}

\* What was measured of an engine that is one process was read with its server
\* up and every key in it.
Own(c, held, processes) == c \notin Forking => held /\ processes = 1
Measured ==
  /\ mem.pc \notin {"alive", "stop", "unlink", "row"} => ~mem.measured
  /\ mem.measured => Own(Cache, mem.held, mem.processes)
AllOwn(report) == \A c \in DOMAIN report : Own(c, report[c].held, report[c].processes)
ReportIsOwn == mem.pc # "idle" => AllOwn(mem.report)

ServedInv ==
  /\ MemIsRecord /\ DocIsRecord /\ ServersOK /\ MemOwns /\ DocOwns /\ OwnRuns
  /\ DocServed /\ NotServed /\ ReachedOK
OwnInv ==
  /\ BeforeIsRead /\ Measured /\ ReportIsOwn
  /\ file \in {"absent", "torn", "whole"} /\ (file = "whole" => AllOwn(rows))

\* While nobody else has been there, doctor's is the only server that can take the path.
Alone == doc.pc # "idle" /\ doc.answers = "own" =>
  /\ mem.pc = "idle"
  /\ \A g \in Groups : life[g] = "starting" => g = doc.me
  /\ doc.pc \in {"spawn", "wait"} => socket \subseteq {doc.me}
  /\ doc.pc = "spawn" => socket = {}
DeepInv == Alone /\ doc.answers \in {"own", "beside"}

LEMMA InitServed == Init => ServedInv
  BY MemoryAssumption
  DEF Init, MemInit, Idle, Nothing, Fields, ServedInv, MemIsRecord, DocIsRecord, ServersOK, MemOwns,
      DocOwns, OwnRuns, DocServed, NotServed, ReachedOK, Served

\* The steps of the programs around, and the signals.
LEMMA WorldServed == ServedInv /\ World /\ UNCHANGED <<mem, doc>> => ServedInv'
<1> SUFFICES ASSUME ServedInv, NEW g \in Groups, Binds(g) \/ Dies(g) \/ WorkerDies(g),
                    UNCHANGED <<mem, doc>>
             PROVE  ServedInv'
  BY DEF World
<1>1. ServersOK' /\ UNCHANGED <<left, runs>>
  BY DEF ServedInv, ServersOK, Binds, Dies, WorkerDies, Exits
<1>2. \A h \in Groups : life[h] # "gone" /\ h \notin left => life'[h] # "gone"
  BY DEF ServedInv, ServersOK, Binds, Dies, WorkerDies, Exits
<1> QED
  BY <1>1, <1>2 DEF ServedInv, MemIsRecord, DocIsRecord, MemOwns, DocOwns, OwnRuns, DocServed,
     NotServed, ReachedOK, Cache, Fields

\* A new server's group is nobody else's, and nothing is left over in it.
LEMMA SpawnsOK ==
  ASSUME ServersOK, NEW g \in Groups, NEW cache, Spawns(g, cache)
  PROVE  /\ ServersOK' /\ runs'[g] = cache /\ life[g] = "gone" /\ life'[g] # "gone" /\ g \notin left'
         /\ \A h \in Groups \ {g} : life'[h] = life[h] /\ runs'[h] = runs[h] /\ (h \in left' <=> h \in left)
  BY DEF ServersOK, Spawns, Exists

\* A group that is stopped or reaped leaves the others as they are.
LEMMA EndsOK ==
  ASSUME ServersOK, NEW g \in Groups, Falls(g) \/ Reaps(g)
  PROVE  /\ ServersOK'
         /\ \A h \in Groups \ {g} : life'[h] = life[h] /\ runs'[h] = runs[h] /\ (h \in left' <=> h \in left)
  BY DEF ServersOK, Falls, Reaps

LEMMA DocStepServed == ServedInv /\ Doc => ServedInv'
<1> SUFFICES ASSUME ServedInv, Doc PROVE ServedInv'
  OBVIOUS
<1> USE DEF ServedInv
<1>m. UNCHANGED mem
  BY DEF Doc, Checks, DeepClears, DeepSpawns, DeepAnswered, DeepNotUp, DeepStops, DeepUnlinks,
     Leaves, memvars
<1>1. CASE Checks \/ DeepClears \/ DeepAnswered \/ DeepUnlinks \/ Leaves
  <2>r. DocIsRecord
    OBVIOUS
  <2>1. DocIsRecord' /\ doc'.me = doc.me /\ (doc'.pc \in {"wait", "stop"} <=> doc.pc \in {"wait", "stop"})
    <3>1. CASE Checks \/ Leaves
      <4>1. doc.pc \notin {"wait", "stop"} /\ doc.me = Nobody
        BY <3>1 DEF Checks, Leaves, NotServed
      <4>2. \E pc \in {"idle", "clear"} : \E kinds, answers :
               doc' = [pc |-> pc, kinds |-> kinds, me |-> Nobody, answers |-> answers]
        <5>1. CASE Leaves
          BY <5>1 DEF Leaves, Done, Nothing
        <5>2. CASE Checks
          BY <5>2 DEF Checks, Nothing
        <5> QED
          BY <3>1, <5>1, <5>2
      <4> QED
        BY <4>1, <4>2 DEF DocIsRecord
    <3>2. CASE DeepClears \/ DeepAnswered \/ DeepUnlinks
      BY <3>2, <2>r DEF DeepClears, DeepAnswered, DeepUnlinks, At, DocIsRecord
    <3> QED
      BY <1>1, <3>1, <3>2
  <2>2. ServersOK' /\ UNCHANGED <<life, runs, left>>
    BY <1>1 DEF Checks, DeepClears, DeepAnswered, DeepUnlinks, Leaves, memvars, servers, Clears, ServersOK
  <2> QED
    BY <1>m, <2>1, <2>2 DEF MemIsRecord, Fields, MemOwns, DocOwns, OwnRuns, DocServed, NotServed,
       ReachedOK, Cache
<1>2. ASSUME NEW g \in Groups, DeepSpawns(g) PROVE ServedInv'
  <2>1. DocIsRecord' /\ doc'.pc = "wait" /\ doc'.me = g
    BY <1>2 DEF DeepSpawns, DocIsRecord
  <2> QED
    BY <1>2, <1>m, <2>1, SpawnsOK, MemoryAssumption
    DEF DeepSpawns, MemIsRecord, Fields, MemOwns, DocOwns, OwnRuns,
       DocServed, NotServed, ReachedOK, Cache
<1>3. CASE DeepNotUp \/ DeepStops
  <2>1. doc.me \in Groups /\ doc.me # mem.me /\ (Falls(doc.me) \/ Reaps(doc.me))
    BY <1>3, MemoryAssumption DEF DeepNotUp, DeepStops, DocServed, DocOwns
  <2>2. DocIsRecord' /\ doc'.me = Nobody /\ doc'.pc \notin {"wait", "stop"}
    <3>1. DocIsRecord
      OBVIOUS
    <3>2. CASE DeepNotUp
      BY <3>2 DEF DeepNotUp, DocIsRecord, Done, Nothing
    <3>3. CASE DeepStops
      BY <3>1, <3>3 DEF DeepStops, DocIsRecord
    <3> QED
      BY <1>3, <3>2, <3>3
  <2> QED
    BY <1>m, <2>1, <2>2, EndsOK DEF MemIsRecord, Fields, MemOwns, DocOwns, OwnRuns,
       DocServed, NotServed, ReachedOK, Cache
<1> QED
  BY <1>1, <1>2, <1>3 DEF Doc

\* A command that takes an engine up, or its row, has everything else to read anew.
LEMMA Afresh ==
  ASSUME NEW pc, NEW wanted, NEW report,
         mem' = [Idle EXCEPT !.pc = pc, !.wanted = wanted, !.report = report]
  PROVE  mem' = Fields(mem') /\ mem'.pc = pc /\ mem'.me = Nobody /\ mem'.reached = {}
  BY DEF Idle, Fields

LEMMA BeginsAgain ==
  Starts \/ StartsBlind \/ Row \/ Syncs =>
    \/ mem' = Idle
    \/ \E pc \in {"look", "write"} : \E wanted, report :
         mem' = [Idle EXCEPT !.pc = pc, !.wanted = wanted, !.report = report]
<1>1. ASSUME Starts
      PROVE  \E wanted, report : mem' = [Idle EXCEPT !.pc = "look", !.wanted = wanted, !.report = report]
  BY <1>1 DEF Starts
<1>4. ASSUME StartsBlind
      PROVE  \E wanted, report : mem' = [Idle EXCEPT !.pc = "look", !.wanted = wanted, !.report = report]
  BY <1>4 DEF StartsBlind
<1>2. ASSUME Row, mem' # Idle
      PROVE  \E wanted, report : mem' = [Idle EXCEPT !.pc = "write", !.wanted = wanted, !.report = report]
  BY <1>2 DEF Row, Returns
<1>3. ASSUME Syncs, mem' # Idle
      PROVE  \E wanted, report : mem' = [Idle EXCEPT !.pc = "look", !.wanted = wanted, !.report = report]
  BY <1>3 DEF Syncs
<1> QED
  BY <1>1, <1>2, <1>3, <1>4

LEMMA MemStepServed == ServedInv /\ Mem /\ Beside => ServedInv'
<1> SUFFICES ASSUME ServedInv, Mem, Beside PROVE ServedInv'
  OBVIOUS
<1> USE DEF ServedInv
<1>d. DocIsRecord' /\ doc'.pc = doc.pc /\ doc'.me = doc.me
  BY DEF Beside, DocIsRecord
<1>i. Idle = Fields(Idle) /\ Idle.pc = "idle" /\ Idle.me = Nobody /\ Idle.reached = {}
  BY DEF Idle, Fields
<1>1. CASE Starts \/ StartsBlind \/ Looks \/ NotThere \/ ClearsPath \/ Unlinks \/ Row
             \/ Truncates \/ Syncs \/ WriteFails \/ Removed
  <2>1. ServersOK' /\ UNCHANGED <<life, runs, left>>
    BY <1>1 DEF Starts, StartsBlind, Looks, NotThere, ClearsPath, Unlinks, Row, Truncates, Syncs, WriteFails,
       Removed, servers, Clears, ServersOK
  <2>2. MemIsRecord' /\ mem.pc \notin Served /\ mem'.pc \notin Served /\ mem'.me = Nobody
        /\ ReachedOK'
    <3>1. mem.pc \notin Served /\ mem.me = Nobody /\ MemIsRecord
      BY <1>1 DEF Starts, StartsBlind, Looks, NotThere, ClearsPath, Unlinks, Row, Truncates, Syncs, WriteFails,
         Removed, NotServed, Served
    <3>2. CASE Looks \/ NotThere \/ ClearsPath \/ Unlinks \/ Truncates \/ WriteFails \/ Removed
      BY <3>1, <3>2, <1>i DEF Looks, NotThere, ClearsPath, Unlinks, Truncates, WriteFails,
         Removed, Goes, Returns, Fields, MemIsRecord, Served, ReachedOK
    <3>3. CASE Starts \/ StartsBlind \/ Row \/ Syncs
      <4>1. CASE mem' = Idle
        BY <3>1, <4>1, <1>i DEF Served, MemIsRecord, ReachedOK
      <4>2. ASSUME NEW pc \in {"look", "write"}, NEW wanted, NEW report,
                   mem' = [Idle EXCEPT !.pc = pc, !.wanted = wanted, !.report = report]
            PROVE  MemIsRecord' /\ mem'.pc \notin Served /\ mem'.me = Nobody /\ ReachedOK'
        BY <4>2, Afresh DEF Served, MemIsRecord, ReachedOK
      <4>3. \/ mem' = Idle
            \/ \E pc \in {"look", "write"} : \E wanted, report :
                 mem' = [Idle EXCEPT !.pc = pc, !.wanted = wanted, !.report = report]
        BY <3>3, BeginsAgain
      <4> QED
        BY <3>1, <4>1, <4>2, <4>3
    <3> QED
      BY <1>1, <3>1, <3>2, <3>3
  <2> QED
    BY <1>d, <2>1, <2>2 DEF MemOwns, DocOwns, OwnRuns, DocServed, NotServed, ReachedOK
<1>2. ASSUME NEW g \in Groups, SpawnsServer(g) PROVE ServedInv'
  <2>1. MemIsRecord' /\ mem'.pc = "wait" /\ mem'.me = g /\ Cache' = Cache /\ ReachedOK'
    BY <1>2 DEF SpawnsServer, MemIsRecord, Fields, Cache, ReachedOK
  <2> QED
    BY <1>2, <1>d, <2>1, SpawnsOK, MemoryAssumption DEF SpawnsServer, MemOwns, DocOwns, OwnRuns,
       DocServed, NotServed, ReachedOK, Served
<1>3. CASE IsReady \/ Before \/ FillStarts \/ FillEnds \/ FillFails \/ After
             \/ (Alive /\ life[mem.me] # "zombie")
  <2>s. ServersOK
    OBVIOUS
  <2>1. ServersOK' /\ UNCHANGED <<life, runs, left>>
    BY <1>3 DEF IsReady, Before, FillStarts, FillEnds, FillFails, After, Alive, servers, ServersOK,
       Listens, ReachedOK
  <2>2. /\ MemIsRecord' /\ mem.pc \in Served /\ mem'.pc \in Served /\ mem'.me = mem.me
        /\ mem'.wanted = mem.wanted /\ mem'.reached \subseteq mem.reached \cup socket
    <3>1. MemIsRecord
      OBVIOUS
    <3>2. CASE IsReady \/ FillStarts \/ FillEnds \/ FillFails \/ (Alive /\ life[mem.me] # "zombie")
      BY <3>1, <3>2 DEF IsReady, FillStarts, FillEnds, FillFails, Alive, Goes, Fields,
         MemIsRecord, Served
    <3>3. CASE Before
      BY <3>1, <3>3 DEF Before, Fields, MemIsRecord, Served
    <3>4. CASE After
      BY <3>1, <3>4 DEF After, Fields, MemIsRecord, Served
    <3> QED
      BY <1>3, <3>2, <3>3, <3>4
  <2>3. ReachedOK'
    BY <2>2, <2>s DEF ServersOK, ReachedOK
  <2> QED
    BY <1>d, <2>1, <2>2, <2>3 DEF MemOwns, DocOwns, OwnRuns, DocServed, NotServed, ReachedOK, Cache
<1>4. CASE NotReady \/ (Alive /\ life[mem.me] = "zombie") \/ Stops \/ Outlived
  <2>1. mem.me \in Groups /\ mem.me # doc.me /\ (Falls(mem.me) \/ Reaps(mem.me))
    BY <1>4, MemoryAssumption DEF NotReady, Alive, Stops, Outlived, OwnRuns, Served, MemOwns, DocOwns
  <2>2. MemIsRecord' /\ mem'.me = Nobody /\ mem'.pc \notin Served /\ ReachedOK'
    BY <1>4, <1>i DEF NotReady, Alive, Stops, Outlived, Returns, Fields, MemIsRecord, Served, ReachedOK
  <2> QED
    BY <1>d, <2>1, <2>2, EndsOK DEF MemOwns, DocOwns, OwnRuns, DocServed, NotServed, ReachedOK
<1>5. CASE Killed
  <2>1. /\ ServersOK' /\ UNCHANGED runs
        /\ \A h \in Groups \ {mem.me} : life'[h] = life[h] /\ (h \in left' <=> h \in left)
    BY <1>5 DEF Killed, ServersOK
  <2>2. MemIsRecord' /\ mem'.me = Nobody /\ mem'.pc \notin Served /\ ReachedOK'
    BY <1>5, <1>i DEF Killed, MemIsRecord, Served, ReachedOK
  <2> QED
    BY <1>d, <2>1, <2>2 DEF MemOwns, DocOwns, OwnRuns, DocServed, NotServed, ReachedOK
<1> QED
  BY <1>1, <1>2, <1>3, <1>4, <1>5 DEF Mem

LEMMA StepServed == ServedInv /\ [Next]_vars => ServedInv'
<1>1. ServedInv /\ UNCHANGED vars => ServedInv'
  BY DEF vars, memvars, servers, ServedInv, MemIsRecord, Fields, DocIsRecord, ServersOK, MemOwns, DocOwns,
     OwnRuns, DocServed, NotServed, ReachedOK, Cache
<1> QED
  BY <1>1, WorldServed, DocStepServed, MemStepServed DEF Next

LEMMA InitOwn == Init => OwnInv
  BY DEF Init, MemInit, Idle, OwnInv, BeforeIsRead, Measured, ReportIsOwn

\* An engine that forks no worker is one process, and what it has grown by is
\* a fill of its own.
LEMMA GrownIsFilled ==
  ASSUME ServersOK, NEW g \in Groups, runs[g] \notin Forking, Readable(g)
  PROVE  /\ Processes(g) = 1 /\ Peak(g) \in Nat \ {0}
         /\ \A before \in Nat \ {0} : Grew(before, Peak(g)) => g \in keys /\ life[g] = "up"
<1>1. Members(g) = {"leader"} /\ life[g] \in {"starting", "up"}
  BY DEF ServersOK, Readable, Members
<1>2. Processes(g) = 1
  BY <1>1, FS_Singleton DEF Processes
<1>3. Peak(g) = 1 + (IF g \notin keys THEN 0 ELSE 4)
  BY <1>2 DEF Peak, VmHWM, FILL
<1> QED
  BY <1>1, <1>2, <1>3 DEF Grew, ServersOK

LEMMA PeakIsRead ==
  ASSUME ServersOK, NEW g \in Groups, Readable(g)
  PROVE  Peak(g) \in Nat \ {0}
<1>1. Members(g) \in {{"leader"}, {"worker"}, {"leader"} \cup {"worker"}}
  BY DEF Members, Readable
<1>2. Processes(g) \in {1, 2}
  <2>1. IsFiniteSet({"leader"}) /\ Cardinality({"leader"}) = 1 /\ Cardinality({"worker"}) = 1
    BY FS_Singleton
  <2>2. Cardinality({"leader"} \cup {"worker"}) = 2
    BY <2>1, FS_AddElement
  <2> QED
    BY <1>1, <2>1, <2>2 DEF Processes
<1>3. VmHWM(g) \in {1, 3, 5}
  BY DEF VmHWM, FILL
<1> QED
  BY <1>2, <1>3 DEF Peak

LEMMA StepOwn == OwnInv /\ ServedInv /\ ServedInv' /\ [Next]_vars => OwnInv'
<1> SUFFICES ASSUME OwnInv, ServedInv, ServedInv', [Next]_vars PROVE OwnInv'
  OBVIOUS
<1>r. MemIsRecord /\ ServersOK
  BY DEF ServedInv
<1> USE DEF OwnInv
<1>1. CASE Starts
  <2>1. PICK wanted : mem' = [Idle EXCEPT !.pc = "look", !.wanted = wanted, !.report = Parsed]
    BY <1>1 DEF Starts
  <2>2. mem'.pc = "look" /\ mem'.report = Parsed /\ ~mem'.measured
    BY <2>1 DEF Idle
  <2>3. AllOwn(Parsed)
    BY DEF Parsed, NoReport, AllOwn
  <2> QED
    BY <1>1, <2>2, <2>3 DEF Starts, disk, BeforeIsRead, Measured, ReportIsOwn
<1>13. CASE StartsBlind
  <2>1. mem'.pc = "look" /\ mem'.report = NoReport /\ ~mem'.measured
    BY <1>13 DEF StartsBlind, Idle
  <2>2. AllOwn(NoReport)
    BY DEF NoReport, AllOwn
  <2> QED
    BY <1>13, <2>1, <2>2 DEF StartsBlind, BeforeIsRead, Measured, ReportIsOwn
<1>2. CASE mem' = Idle /\ rows' = rows /\ file' = file
  BY <1>2 DEF Idle, BeforeIsRead, Measured, ReportIsOwn
<1>3. CASE NotThere \/ NotReady \/ WriteFails \/ Killed
  BY <1>2, <1>3 DEF NotThere, NotReady, WriteFails, Killed, Returns, disk
<1>4. CASE Looks \/ ClearsPath \/ IsReady \/ FillStarts \/ FillEnds \/ FillFails
             \/ Alive \/ Stops \/ Unlinks \/ Truncates \/ (\E g \in Groups : SpawnsServer(g))
  <2>1. CASE mem' = Idle
    BY <1>2, <1>4, <2>1 DEF Looks, disk, ClearsPath, IsReady, FillStarts, FillEnds, FillFails,
       Alive, Stops, Unlinks, Truncates, SpawnsServer, Goes, Idle, MemIsRecord, Fields
  <2>2. CASE mem' # Idle
    <3>1. /\ mem'.wanted = mem.wanted /\ mem'.held = mem.held /\ mem'.measured = mem.measured
          /\ mem'.processes = mem.processes /\ mem'.report = mem.report /\ mem'.before = mem.before
          /\ mem.pc \in {"alive", "stop", "unlink", "row"} => mem'.pc \in {"alive", "stop", "unlink", "row"}
          /\ mem'.pc \in {"fill", "filling", "settle"} => mem.pc \in {"fill", "filling", "settle"}
          /\ mem.pc # "idle" /\ rows' = rows /\ file' \in {file, "torn"}
      <4>1. CASE Looks \/ ClearsPath \/ IsReady \/ Unlinks \/ Truncates
                   \/ (\E g \in Groups : SpawnsServer(g))
        BY <1>r, <2>2, <4>1 DEF Looks, disk, ClearsPath, IsReady, Unlinks, Truncates, SpawnsServer,
           Goes, Returns, MemIsRecord, Fields
      <4>2. CASE FillStarts \/ FillEnds \/ FillFails \/ Alive \/ Stops
        BY <1>r, <4>2 DEF FillStarts, FillEnds, FillFails, Alive, Stops, disk, Goes, MemIsRecord, Fields
      <4> QED
        BY <1>4, <4>1, <4>2
    <3> QED
      BY <3>1 DEF BeforeIsRead, Measured, ReportIsOwn, Cache
  <2> QED
    BY <2>1, <2>2
<1>5. CASE Before
  <2>1. mem.me \in Groups
    BY <1>5 DEF ServedInv, OwnRuns, Served, Before, MemOwns
  <2>2. /\ mem'.wanted = mem.wanted /\ ~mem'.measured /\ mem'.report = mem.report /\ mem'.pc # "idle"
        /\ mem'.pc = "fill" => Readable(mem.me) /\ mem'.before = Peak(mem.me)
        /\ mem'.pc \in {"fill", "alive"}
    BY <1>5, <1>r DEF Before, MemIsRecord, Fields, Measured
  <2> QED
    BY <1>5, <1>r, <2>1, <2>2, PeakIsRead DEF Before, disk, BeforeIsRead, Measured, ReportIsOwn
<1>6. CASE After
  <2>1. mem.me \in Groups /\ runs[mem.me] = Cache
    BY <1>6 DEF ServedInv, OwnRuns, Served, After, MemOwns
  <2>2. /\ mem'.wanted = mem.wanted /\ mem'.report = mem.report /\ mem'.pc = "alive"
        /\ mem'.measured => Readable(mem.me) /\ Grew(mem.before, Peak(mem.me))
        /\ mem'.processes = Processes(mem.me) /\ mem'.held = (mem.me \in keys /\ life[mem.me] = "up")
    BY <1>6, <1>r DEF After, MemIsRecord, Fields
  <2>3. mem.before \in Nat \ {0}
    BY <1>6 DEF After, BeforeIsRead
  <2>4. mem'.measured => Own(Cache, mem'.held, mem'.processes)
    BY <1>r, <2>1, <2>2, <2>3, GrownIsFilled DEF Own
  <2> QED
    BY <1>6, <2>2, <2>4 DEF After, disk, BeforeIsRead, Measured, ReportIsOwn, Cache
<1>7. CASE Outlived
  <2>1. mem'.pc = "row" /\ ~mem'.measured /\ mem'.report = mem.report
    BY <1>7, <1>r DEF Outlived, MemIsRecord, Fields
  <2> QED
    BY <1>7, <2>1 DEF Outlived, disk, BeforeIsRead, Measured, ReportIsOwn
<1>8. CASE Row
  <2>1. CASE ~(mem.measured /\ mem.alive)
    BY <1>2, <1>8, <2>1 DEF Row, Returns, disk
  <2>2. CASE mem.measured /\ mem.alive
    <3> DEFINE row == [cache |-> Cache, peak |-> mem.after, baseline |-> mem.before,
                       processes |-> mem.processes, held |-> mem.held]
    <3>1. mem' = [Idle EXCEPT !.pc = "write", !.wanted = mem.wanted, !.report = put(mem.report, row)]
      BY <1>8, <2>2 DEF Row
    <3>2. mem'.pc = "write" /\ ~mem'.measured /\ mem'.report = put(mem.report, row)
      BY <3>1 DEF Idle
    <3>3. Own(Cache, row.held, row.processes) /\ row.cache = Cache
      BY <2>2 DEF Measured
    <3>4. AllOwn(mem.report)
      BY <1>8 DEF Row, ReportIsOwn
    <3> HIDE DEF row
    <3>5. AllOwn(put(mem.report, row))
      BY <3>3, <3>4 DEF put, AllOwn
    <3> QED
      BY <1>8, <3>2, <3>5 DEF Row, disk, BeforeIsRead, Measured, ReportIsOwn
  <2> QED
    BY <2>1, <2>2
<1>9. CASE Syncs
  <2>1. ~mem'.measured /\ (mem'.pc = "idle" \/ (mem'.pc = "look" /\ mem'.report = mem.report))
    BY <1>9 DEF Syncs, Idle
  <2>2. file' = "whole" /\ rows' = mem.report /\ AllOwn(mem.report)
    BY <1>9 DEF Syncs, ReportIsOwn
  <2> QED
    BY <2>1, <2>2 DEF BeforeIsRead, Measured, ReportIsOwn
<1>10. CASE Removed
  BY <1>10 DEF Removed, BeforeIsRead, Measured, ReportIsOwn, Cache
<1>11. CASE UNCHANGED <<mem, disk>>
  BY <1>11 DEF disk, BeforeIsRead, Measured, ReportIsOwn, Cache
<1>12. Doc => UNCHANGED <<mem, disk>>
  BY DEF Doc, Checks, DeepClears, DeepSpawns, DeepAnswered, DeepNotUp, DeepStops, DeepUnlinks,
     Leaves, memvars, disk
<1> QED
  BY <1>1, <1>3, <1>4, <1>5, <1>6, <1>7, <1>8, <1>9, <1>10, <1>11, <1>12, <1>13
  DEF Next, Mem, vars, memvars

\* The row of an engine that is one process was read from the server started
\* for it, up, with the whole fill in it, whoever takes the socket path or dies
\* meanwhile.
THEOREM RowsOwn == Spec => []RowsAreOwn
<1>1. OwnInv => RowsAreOwn
  BY DEF OwnInv, RowsAreOwn, AllOwn, Own
<1>2. Init => OwnInv /\ ServedInv
  BY InitOwn, InitServed
<1>3. (OwnInv /\ ServedInv) /\ [Next]_vars => (OwnInv /\ ServedInv)'
  BY StepOwn, StepServed
<1> QED
  BY <1>1, <1>2, <1>3, PTL DEF Spec

LEMMA InitDeep == Init => DeepInv
  BY DEF Init, Nothing, DeepInv, Alone

LEMMA StepDeep == DeepInv /\ ServedInv /\ [Next]_vars => DeepInv'
<1> SUFFICES ASSUME DeepInv, ServedInv, [Next]_vars PROVE DeepInv'
  OBVIOUS
<1>r. DocIsRecord /\ ServersOK
  BY DEF ServedInv
<1> USE DEF DeepInv
<1>1. CASE Mem /\ Beside
  <2>1. /\ doc'.pc = doc.pc /\ (doc.pc # "idle" => doc'.answers = "beside")
        /\ doc'.answers \in {"own", "beside"}
    BY <1>1, <1>r DEF Beside, DocIsRecord
  <2> QED
    BY <2>1 DEF Alone
<1>2. CASE World /\ UNCHANGED <<mem, disk, faults, doc>>
  <2>1. PICK g \in Groups : Binds(g) \/ Dies(g) \/ WorkerDies(g)
    BY <1>2 DEF World
  <2>2. /\ \A h \in Groups : life'[h] = "starting" => life[h] = "starting"
        /\ socket' = socket \/ (life[g] = "starting" /\ socket' = {g})
    BY <2>1, <1>r DEF Binds, Dies, WorkerDies, Exits, ServersOK
  <2>3. doc.pc = "spawn" => doc.me = Nobody
    BY DEF ServedInv, NotServed
  <2> QED
    BY <1>2, <2>1, <2>2, <2>3, MemoryAssumption DEF Alone
<1>3. CASE Checks
  BY <1>3, <1>r DEF Checks, Nothing, Alone, memvars, servers
<1>4. CASE DeepClears \/ DeepUnlinks
  <2>1. /\ doc'.pc \in {"spawn", "clear", "done"} /\ doc'.me = doc.me /\ doc'.answers = doc.answers
        /\ doc.pc # "idle" /\ socket' = {} /\ life' = life /\ mem' = mem
    BY <1>4, <1>r DEF DeepClears, DeepUnlinks, Clears, At, DocIsRecord
  <2> QED
    BY <2>1 DEF Alone
<1>5. ASSUME NEW g \in Groups, DeepSpawns(g) PROVE DeepInv'
  <2>1. /\ doc.pc = "spawn" /\ doc'.pc = "wait" /\ doc'.me = g /\ doc'.answers = doc.answers
        /\ doc.me = Nobody
    BY <1>5, <1>r DEF DeepSpawns, DocIsRecord, ServedInv, NotServed
  <2>2. /\ \A h \in Groups \ {g} : life'[h] = life[h]
        /\ socket' = socket /\ mem' = mem
    BY <1>5, <1>r DEF DeepSpawns, Spawns, ServersOK
  <2> QED
    BY <2>1, <2>2, MemoryAssumption DEF Alone
<1>6. CASE DeepAnswered
  <2>1. doc.answers = "own" => socket = {doc.me}
    BY <1>6 DEF DeepAnswered, Answering, Alone
  <2>2. doc'.pc = "stop" /\ doc'.answers = doc.answers /\ doc'.me = doc.me
    BY <1>6, <1>r, <2>1 DEF DeepAnswered, DocIsRecord
  <2> QED
    BY <1>6, <2>2 DEF DeepAnswered, Alone, memvars, servers
<1>7. CASE DeepNotUp \/ Leaves
  BY <1>7 DEF DeepNotUp, Leaves, Done, Nothing, Alone
<1>8. CASE DeepStops
  <2>1. /\ doc'.pc = "unlink" /\ doc'.answers = doc.answers /\ doc'.me = Nobody
        /\ doc.pc # "idle" /\ mem' = mem
    BY <1>8, <1>r DEF DeepStops, DocIsRecord
  <2>2. \A h \in Groups : life'[h] = "starting" => life[h] = "starting" /\ h # doc.me
    BY <1>8, <1>r DEF DeepStops, Falls, ServersOK
  <2> QED
    BY <2>1, <2>2 DEF Alone
<1>9. CASE UNCHANGED vars
  BY <1>9 DEF vars, memvars, servers, Alone
<1> QED
  BY <1>1, <1>2, <1>3, <1>4, <1>5, <1>6, <1>7, <1>8, <1>9 DEF Next, Doc

\* What `doctor --deep` called up and answered was the engine it started,
\* unless another command was there at the same time.
THEOREM DeepAnswers == Spec => []DeepMeansAnswered
<1>1. DeepInv => DeepMeansAnswered
  BY DEF DeepInv, DeepMeansAnswered
<1>2. Init => DeepInv /\ ServedInv
  BY InitDeep, InitServed
<1>3. (DeepInv /\ ServedInv) /\ [Next]_vars => (DeepInv /\ ServedInv)'
  BY StepDeep, StepServed
<1> QED
  BY <1>1, <1>2, <1>3, PTL DEF Spec

=============================================================================
