----------------------------- MODULE OnceProofs -----------------------------
(***************************************************************************)
(* What `once` promises of a run file, and of what is left running when it *)
(* returns, for any number of process groups and attempts, any kills, and  *)
(* whatever servers, memtier and perf do meanwhile.                        *)
(*                                                                         *)
(* None of it is inductive.  Nothing in `once` says who answers on the     *)
(* socket; it follows from who has the path: what could answer is at it or *)
(* was bound over there, and it is cleared only when nothing of this       *)
(* harness's own is left to answer (HandleInv), and from looking, after    *)
(* the last pass, whether the server that was started is still up          *)
(* (PassesAreOwn).                                                         *)
(***************************************************************************)
EXTENDS Once, TLAPS

-----------------------------------------------------------------------------
\* Which server is whose.

\* Where the harness has a leader that it has not reaped.
Holding ==
  {"wait", "knock", "drop", "pass", "load", "attach", "finish", "settle", "alive", "grace", "reap"}

\* The handle is held up to the reaping; at "stop" it is not if the leader
\* exited during its own run, and nobody stops its group then.
HandleKept ==
  /\ pc # "stop" => (child <=> pc \in Holding)
  /\ pc = "stop" /\ ~child => me \in left

\* A leader of this harness is there until it is reaped, and any other that
\* is there is one that nobody stops any more.
LeadersKnown ==
  /\ child => life[me] # "gone" /\ me \notin left
  /\ \A g \in Groups : life[g] = "zombie" => child /\ g = me
  /\ \A g \in Groups : life[g] # "gone" => g \in left \/ (child /\ g = me)

\* A group that is somebody's and could answer has the path or was bound over.
AnswersAtPath == \A g \in Groups \ left : Listens(g) => socket = {g} \/ g \in ousted

\* The look for strays is in its backlog then, if it waits at all.
WaitsForIt ==
  /\ queued # {} => pc \in {"stray", "knock"}
  /\ queued # {} /\ pc = "stray" =>
       \A g \in Groups \ left : Listens(g) => g \in queued \/ g \in ousted

\* Past the look for strays, what runs is the attempt's own, or is left, or
\* was where no look can reach it.
Stays(g) == Runs(g) => g \in left \/ g \in ousted
Alone ==
  /\ pc \notin {"idle", "stray"} => \A g \in Groups \ {me} : Stays(g)
  /\ pc \in {"clear", "start", "unlink", "write"} => \A g \in Groups : Stays(g)

HandleInv ==
  TypeOK /\ HandleKept /\ LeadersKnown /\ AnswersAtPath /\ WaitsForIt /\ Alone

-----------------------------------------------------------------------------
\* What was measured.
Full == {"sets", "gets"}

\* The passes that have been read.
Done ==
  IF pc \in {"finish", "settle", "alive"} THEN Passes
  ELSE IF pass = "warmup" THEN {} ELSE IF pass = "sets" THEN {"warmup"} ELSE {"warmup", "sets"}

\* The server had bound or exited, and if it is up it is who was talked to,
\* unless it or the other one was bound over.
Own(p) == life[me] # "starting" /\ (life[me] = "up" => served[p] = {me} \/ BoundOver(p))

ToolsInPlace ==
  /\ load # "none" => pc = "load"
  /\ perf # "none" => counters /\ pc \in {"pass", "load", "finish", "settle"}
  /\ pc \in {"idle", "stray", "clear", "start", "wait", "knock"} => pass = "warmup"

PassesAreOwn ==
  /\ pc \in {"pass", "load", "attach", "finish", "settle", "alive"}
       => \A p \in Done : out[p] = "own" /\ Own(p)
  /\ pc = "load" => /\ served[pass] \subseteq socket \cup ousted
                    /\ out[pass] # "old"
                    /\ out[pass] = "own" => Own(pass)
  /\ pc = "attach" => pass = "sets" /\ counters
  /\ pc \in {"finish", "settle", "alive"} => pass = "gets"

\* perf has been across what was measured since it was attached, or it ended
\* with its target, or it has nothing.
PerfFollows ==
  /\ covered # {} \/ perf # "none" => pass # "warmup"
  /\ pc = "attach" => covered = {}
  /\ counters /\ pass # "warmup" /\ pc \in {"pass", "load", "finish"} =>
       /\ perf \in {"on", "ended"}
       /\ perf = "on" => covered = Done \ {"warmup"} /\ capture = "nothing"
       /\ perf = "ended" => capture = "nothing" \/ life[me] = "zombie"
  /\ counters /\ pc = "settle" =>
       /\ perf = "told" => covered = Full
       /\ perf = "told" \/ perf = "ended"
       /\ perf = "ended" => capture = "nothing" \/ life[me] = "zombie" \/ covered = Full
  /\ counters /\ pc = "alive" =>
       capture = "counters" /\ (life[me] = "zombie" \/ covered = Full)

GoodIsWhole ==
  good =>
    /\ pc \in {"stop", "grace", "reap", "confirm", "unlink", "write"}
    /\ pc = "stop" => child
    /\ pc \in {"unlink", "write"} => ~Runs(me)
    /\ \A p \in Passes : out[p] = "own" /\ (served[p] = {me} \/ BoundOver(p))
    /\ counters => capture = "counters" /\ covered = Full

WriteIsGood == pc = "write" => good

MeasureInv == ToolsInPlace /\ PassesAreOwn /\ PerfFollows /\ GoodIsWhole /\ WriteIsGood

-----------------------------------------------------------------------------
\* Where reading a pass leads.
LEMMA ReadGoes ==
  ASSUME LoadRead, pass \in Passes
  PROVE  /\ pc = "load" /\ load = "exited" /\ out[pass] \in {"own", "old"} /\ load' = "none"
         /\ covered' = IF perf = "on" THEN covered \cup {pass} ELSE covered
         /\ \/ pass = "warmup" /\ pass' = "sets" /\ pc' = "attach" /\ counters
            \/ pass = "warmup" /\ pass' = "sets" /\ pc' = "pass" /\ ~counters
            \/ pass = "sets" /\ pass' = "gets" /\ pc' = "pass"
            \/ pass = "gets" /\ pass' = "gets" /\ pc' = "finish" /\ counters
            \/ pass = "gets" /\ pass' = "gets" /\ pc' = "alive" /\ ~counters
         /\ late' = FALSE
         /\ queued' = {}
         /\ UNCHANGED <<verdict, life, workers, socket, ousted, left, me, child, perf, sent, good, out,
                        served, counters, capture>>
  BY DEF LoadRead, Go, Passes, world, mine

LEMMA InitHandle == Init => HandleInv
  BY DEF Init, HandleInv, TypeOK, WorldTypes, AttemptTypes, MeasureTypes, HandleKept,
     LeadersKnown, AnswersAtPath, WaitsForIt, Alone, Stays, Listens, Runs, Holding, Each, Passes

LEMMA InitMeasure == Init => MeasureInv
  BY DEF Init, MeasureInv, ToolsInPlace, PassesAreOwn, PerfFollows, GoodIsWhole, WriteIsGood

\* The types.
LEMMA StepWorldTypes == TypeOK /\ [Next]_vars => WorldTypes'
<1> SUFFICES ASSUME TypeOK, [Next]_vars PROVE WorldTypes'
  OBVIOUS
<1> USE DEF Go, Move, Poll, Over, Fail, Signal, Reap, MeasureFails, world, mine, tools, locals,
        harness, Exited, TypeOK, WorldTypes
<1>1. CASE (Begin \/ StrayCheck \/ Refused \/ Clear) \/ \E g \in Groups : Start(g)
  BY <1>1 DEF Begin, StrayCheck, Refused, Clear, Start
<1>2. CASE Ready
  BY <1>2 DEF Ready, WaitExited, WaitAlive, KnockAnswered, KnockAgain, KnockSilent, DropReaps
<1>3. CASE LoadRead
  BY <1>3, ReadGoes DEF MeasureTypes
<1>4. CASE Measure /\ ~LoadRead
  BY <1>4 DEF Measure, LoadStarts, NotStarted, LoadUnreadable, LoadTooLong, Attach, Finish,
     FinishReads, FinishFails, StillUp, NotUp
<1>5. CASE Stop
  BY <1>5 DEF Stop, StopNothing, Term, Stopped, Kill, Settled, Stray, Unlink
<1>6. CASE Write \/ HarnessDies \/ Tick \/ LoadExits \/ PerfExits
  BY <1>6 DEF Write, HarnessDies, Tick, LoadExits, PerfExits
<1>7. CASE \E g \in Groups : Server(g)
  BY <1>7 DEF Server, Bind, Fork, LeaderExits, WorkersExit
<1>8. CASE Queues \/ Accepts
  BY <1>8 DEF Queues, Accepts
<1>9. CASE UNCHANGED vars
  BY <1>9 DEF vars
<1> QED
  BY <1>1, <1>2, <1>3, <1>4, <1>5, <1>6, <1>7, <1>8, <1>9 DEF Next, Harness

LEMMA StepAttemptTypes == TypeOK /\ [Next]_vars => AttemptTypes'
<1> SUFFICES ASSUME TypeOK, [Next]_vars PROVE AttemptTypes'
  OBVIOUS
<1> USE DEF Go, Move, Poll, Over, Fail, Signal, Reap, MeasureFails, world, mine, tools, locals,
        harness, TypeOK, AttemptTypes
<1>1. CASE (Begin \/ StrayCheck \/ Refused \/ Clear) \/ \E g \in Groups : Start(g)
  <2>1. CASE Begin \/ StrayCheck \/ Refused
    BY <2>1 DEF Begin, StrayCheck, Refused
  <2>2. CASE Clear
    BY <2>2 DEF Clear
  <2>3. CASE \E g \in Groups : Start(g)
    BY <2>3 DEF Start
  <2> QED
    BY <1>1, <2>1, <2>2, <2>3
<1>2. CASE Ready
  <2>1. CASE WaitExited \/ WaitAlive
    BY <2>1 DEF WaitExited, WaitAlive
  <2>2. CASE KnockAnswered \/ KnockAgain
    BY <2>2 DEF KnockAnswered, KnockAgain
  <2>3. CASE KnockSilent \/ DropReaps
    BY <2>3 DEF KnockSilent, DropReaps
  <2> QED
    BY <1>2, <2>1, <2>2, <2>3 DEF Ready
<1>3. CASE LoadRead
  BY <1>3, ReadGoes DEF MeasureTypes
<1>4. CASE Measure /\ ~LoadRead
  BY <1>4 DEF Measure, LoadStarts, NotStarted, LoadUnreadable, LoadTooLong, Attach, Finish,
     FinishReads, FinishFails, StillUp, NotUp
<1>5. CASE Stop
  <2>1. CASE StopNothing \/ Term
    BY <2>1 DEF StopNothing, Term
  <2>2. CASE Stopped \/ Kill
    BY <2>2 DEF Stopped, Kill
  <2>3. CASE Settled \/ Stray \/ Unlink
    BY <2>3 DEF Settled, Stray, Unlink
  <2> QED
    BY <1>5, <2>1, <2>2, <2>3 DEF Stop
<1>6. CASE Write \/ HarnessDies \/ Tick \/ LoadExits \/ PerfExits
  <2>1. CASE Write \/ HarnessDies
    BY <2>1 DEF Write, HarnessDies
  <2>2. CASE Tick
    BY <2>2 DEF Tick
  <2>3. CASE LoadExits
    BY <2>3 DEF LoadExits
  <2>4. CASE PerfExits
    BY <2>4 DEF PerfExits
  <2> QED
    BY <1>6, <2>1, <2>2, <2>3, <2>4
<1>7. CASE \E g \in Groups : Server(g)
  BY <1>7 DEF Server, Bind, Fork, LeaderExits, WorkersExit
<1>8. CASE Queues \/ Accepts
  <2>1. CASE Queues
    BY <2>1 DEF Queues, WorldTypes
  <2>2. CASE Accepts
    BY <2>2 DEF Accepts
  <2> QED
    BY <1>8, <2>1, <2>2
<1>9. CASE UNCHANGED vars
  BY <1>9 DEF vars
<1> QED
  BY <1>1, <1>2, <1>3, <1>4, <1>5, <1>6, <1>7, <1>8, <1>9 DEF Next, Harness

LEMMA StepMeasureTypes == TypeOK /\ [Next]_vars => MeasureTypes'
<1> SUFFICES ASSUME TypeOK, [Next]_vars PROVE MeasureTypes'
  OBVIOUS
<1> USE DEF Go, Move, Poll, Over, Fail, Signal, Reap, MeasureFails, world, mine, tools, locals,
        harness, Each, TypeOK, WorldTypes, MeasureTypes, Passes, Serving
<1>1. CASE (Begin \/ StrayCheck \/ Refused \/ Clear) \/ \E g \in Groups : Start(g)
  BY <1>1 DEF Begin, StrayCheck, Refused, Clear, Start
<1>2. CASE Ready
  <2>1. CASE WaitExited
    BY <2>1 DEF WaitExited
  <2>2. CASE WaitAlive \/ KnockAnswered \/ KnockAgain
    BY <2>2 DEF WaitAlive, KnockAnswered, KnockAgain
  <2>3. CASE KnockSilent
    BY <2>3 DEF KnockSilent
  <2>4. CASE DropReaps
    BY <2>4 DEF DropReaps
  <2> QED
    BY <1>2, <2>1, <2>2, <2>3, <2>4 DEF Ready
<1>3. CASE LoadRead
  BY <1>3, ReadGoes
<1>4. CASE Measure /\ ~LoadRead
  <2>1. CASE LoadStarts
    BY <2>1 DEF LoadStarts
  <2>2. CASE NotStarted \/ LoadUnreadable \/ LoadTooLong
    BY <2>2 DEF NotStarted, LoadUnreadable, LoadTooLong
  <2>3. CASE Attach \/ Finish \/ FinishReads \/ FinishFails
    BY <2>3 DEF Attach, Finish, FinishReads, FinishFails
  <2>4. CASE StillUp \/ NotUp
    BY <2>4 DEF StillUp, NotUp
  <2> QED
    BY <1>4, <2>1, <2>2, <2>3, <2>4 DEF Measure
<1>5. CASE Stop
  BY <1>5 DEF Stop, StopNothing, Term, Stopped, Kill, Settled, Stray, Unlink
<1>6. CASE Write \/ HarnessDies \/ Tick \/ LoadExits \/ PerfExits
  <2>1. CASE Write \/ HarnessDies
    BY <2>1 DEF Write, HarnessDies
  <2>2. CASE Tick \/ PerfExits
    BY <2>2 DEF Tick, PerfExits
  <2>3. CASE LoadExits
    BY <2>3 DEF LoadExits
  <2> QED
    BY <1>6, <2>1, <2>2, <2>3
<1>7. CASE \E g \in Groups : Server(g)
  BY <1>7 DEF Server, Bind, Fork, LeaderExits, WorkersExit
<1>8. CASE Queues \/ Accepts
  <2>1. CASE Queues
    BY <2>1 DEF Queues
  <2>2. CASE Accepts
    BY <2>2 DEF Accepts
  <2> QED
    BY <1>8, <2>1, <2>2
<1>9. CASE UNCHANGED vars
  BY <1>9 DEF vars
<1> QED
  BY <1>1, <1>2, <1>3, <1>4, <1>5, <1>6, <1>7, <1>8, <1>9 DEF Next, Harness

\* The handle.
LEMMA StepHandleKept == HandleInv /\ [Next]_vars => HandleKept'
<1> SUFFICES ASSUME HandleInv, [Next]_vars PROVE HandleKept'
  OBVIOUS
<1> USE DEF Go, Move, Poll, Over, Fail, Signal, Reap, MeasureFails, world, mine, tools, locals,
        harness, Each, Exited, HandleInv, TypeOK, WorldTypes, AttemptTypes, MeasureTypes,
        HandleKept, LeadersKnown, AnswersAtPath, WaitsForIt, Alone, Stays, Listens, Runs, Holding, Answering, Hung
<1>1. CASE (Begin \/ StrayCheck \/ Refused \/ Clear) \/ \E g \in Groups : Start(g)
  BY <1>1 DEF Begin, StrayCheck, Refused, Clear, Start
<1>2. CASE Ready
  BY <1>2 DEF Ready, WaitExited, WaitAlive, KnockAnswered, KnockAgain, KnockSilent, DropReaps
<1>3. CASE LoadRead
  BY <1>3, ReadGoes
<1>4. CASE Measure /\ ~LoadRead
  BY <1>4 DEF Measure, LoadStarts, NotStarted, LoadUnreadable, LoadTooLong, Attach, Finish,
     FinishReads, FinishFails, StillUp, NotUp
<1>5. CASE Stop
  BY <1>5 DEF Stop, StopNothing, Term, Stopped, Kill, Settled, Stray, Unlink
<1>6. CASE Write \/ HarnessDies \/ Tick \/ LoadExits \/ PerfExits
  BY <1>6 DEF Write, HarnessDies, Tick, LoadExits, PerfExits
<1>7. CASE \E g \in Groups : Server(g)
  BY <1>7 DEF Server, Bind, Fork, LeaderExits, WorkersExit
<1>8. CASE Queues \/ Accepts
  BY <1>8 DEF Queues, Accepts
<1>9. CASE UNCHANGED vars
  BY <1>9 DEF vars
<1> QED
  BY <1>1, <1>2, <1>3, <1>4, <1>5, <1>6, <1>7, <1>8, <1>9 DEF Next, Harness

LEMMA StepLeadersKnown == HandleInv /\ [Next]_vars => LeadersKnown'
<1> SUFFICES ASSUME HandleInv, [Next]_vars PROVE LeadersKnown'
  OBVIOUS
<1> USE DEF Go, Move, Poll, Over, Fail, Signal, Reap, MeasureFails, world, mine, tools, locals,
        harness, Each, Exited, HandleInv, TypeOK, WorldTypes, AttemptTypes, MeasureTypes,
        HandleKept, LeadersKnown, AnswersAtPath, WaitsForIt, Alone, Stays, Listens, Runs, Holding, Answering, Hung
<1>1. CASE (Begin \/ StrayCheck \/ Refused \/ Clear) \/ \E g \in Groups : Start(g)
  BY <1>1 DEF Begin, StrayCheck, Refused, Clear, Start
<1>2. CASE Ready
  BY <1>2 DEF Ready, WaitExited, WaitAlive, KnockAnswered, KnockAgain, KnockSilent, DropReaps
<1>3. CASE LoadRead
  BY <1>3, ReadGoes
<1>4. CASE Measure /\ ~LoadRead
  BY <1>4 DEF Measure, LoadStarts, NotStarted, LoadUnreadable, LoadTooLong, Attach, Finish,
     FinishReads, FinishFails, StillUp, NotUp
<1>5. CASE Stop
  BY <1>5 DEF Stop, StopNothing, Term, Stopped, Kill, Settled, Stray, Unlink
<1>6. CASE Write \/ HarnessDies \/ Tick \/ LoadExits \/ PerfExits
  BY <1>6 DEF Write, HarnessDies, Tick, LoadExits, PerfExits
<1>7. CASE \E g \in Groups : Server(g)
  BY <1>7 DEF Server, Bind, Fork, LeaderExits, WorkersExit
<1>8. CASE Queues \/ Accepts
  BY <1>8 DEF Queues, Accepts
<1>9. CASE UNCHANGED vars
  BY <1>9 DEF vars
<1> QED
  BY <1>1, <1>2, <1>3, <1>4, <1>5, <1>6, <1>7, <1>8, <1>9 DEF Next, Harness

LEMMA StepAnswersAtPath == HandleInv /\ [Next]_vars => AnswersAtPath'
<1> SUFFICES ASSUME HandleInv, [Next]_vars PROVE AnswersAtPath'
  OBVIOUS
<1> USE DEF Go, Move, Poll, Over, Fail, Signal, Reap, MeasureFails, world, mine, tools, locals,
        harness, Each, Exited, HandleInv, TypeOK, WorldTypes, AttemptTypes, MeasureTypes,
        HandleKept, LeadersKnown, AnswersAtPath, WaitsForIt, Alone, Stays, Listens, Runs, Holding, Answering, Hung
<1>1. CASE (Begin \/ StrayCheck \/ Refused \/ Clear) \/ \E g \in Groups : Start(g)
  BY <1>1 DEF Begin, StrayCheck, Refused, Clear, Start
<1>2. CASE Ready
  BY <1>2 DEF Ready, WaitExited, WaitAlive, KnockAnswered, KnockAgain, KnockSilent, DropReaps
<1>3. CASE LoadRead
  BY <1>3, ReadGoes
<1>4. CASE Measure /\ ~LoadRead
  BY <1>4 DEF Measure, LoadStarts, NotStarted, LoadUnreadable, LoadTooLong, Attach, Finish,
     FinishReads, FinishFails, StillUp, NotUp
<1>5. CASE Stop
  BY <1>5 DEF Stop, StopNothing, Term, Stopped, Kill, Settled, Stray, Unlink
<1>6. CASE Write \/ HarnessDies \/ Tick \/ LoadExits \/ PerfExits
  BY <1>6 DEF Write, HarnessDies, Tick, LoadExits, PerfExits
<1>7. CASE \E g \in Groups : Server(g)
  BY <1>7 DEF Server, Bind, Fork, LeaderExits, WorkersExit
<1>8. CASE Queues \/ Accepts
  BY <1>8 DEF Queues, Accepts
<1>9. CASE UNCHANGED vars
  BY <1>9 DEF vars
<1> QED
  BY <1>1, <1>2, <1>3, <1>4, <1>5, <1>6, <1>7, <1>8, <1>9 DEF Next, Harness

LEMMA StepWaitsForIt == HandleInv /\ [Next]_vars => WaitsForIt'
<1> SUFFICES ASSUME HandleInv, [Next]_vars PROVE WaitsForIt'
  OBVIOUS
<1> USE DEF Go, Move, Poll, Over, Fail, Signal, Reap, MeasureFails, world, mine, tools, locals,
        harness, Each, Exited, HandleInv, TypeOK, WorldTypes, AttemptTypes, MeasureTypes,
        HandleKept, LeadersKnown, AnswersAtPath, WaitsForIt, Alone, Stays, Listens, Runs, Holding, Answering, Hung
<1>1. CASE (Begin \/ StrayCheck \/ Refused \/ Clear) \/ \E g \in Groups : Start(g)
  <2>1. CASE Begin
    BY <2>1 DEF Begin
  <2>2. CASE StrayCheck \/ Refused \/ Clear \/ \E g \in Groups : Start(g)
    <3>1. queued' = {}
      BY <2>2 DEF StrayCheck, Refused, Clear, Start
    <3> QED
      BY <3>1
  <2> QED
    BY <1>1, <2>1, <2>2
<1>2. CASE Ready
  BY <1>2 DEF Ready, WaitExited, WaitAlive, KnockAnswered, KnockAgain, KnockSilent, DropReaps
<1>3. CASE LoadRead
  BY <1>3, ReadGoes
<1>4. CASE Measure /\ ~LoadRead
  BY <1>4 DEF Measure, LoadStarts, NotStarted, LoadUnreadable, LoadTooLong, Attach, Finish,
     FinishReads, FinishFails, StillUp, NotUp
<1>5. CASE Stop
  BY <1>5 DEF Stop, StopNothing, Term, Stopped, Kill, Settled, Stray, Unlink
<1>6. CASE Write \/ HarnessDies \/ Tick \/ LoadExits \/ PerfExits
  BY <1>6 DEF Write, HarnessDies, Tick, LoadExits, PerfExits
<1>7. CASE \E g \in Groups : Server(g)
  BY <1>7 DEF Server, Bind, Fork, LeaderExits, WorkersExit
<1>8. CASE Queues \/ Accepts
  BY <1>8 DEF Queues, Accepts
<1>9. CASE UNCHANGED vars
  BY <1>9 DEF vars
<1> QED
  BY <1>1, <1>2, <1>3, <1>4, <1>5, <1>6, <1>7, <1>8, <1>9 DEF Next, Harness

LEMMA StepAlone == HandleInv /\ [Next]_vars => Alone'
<1> SUFFICES ASSUME HandleInv, [Next]_vars PROVE Alone'
  OBVIOUS
<1> USE DEF Go, Move, Poll, Over, Fail, Signal, Reap, MeasureFails, world, mine, tools, locals,
        harness, Each, Exited, HandleInv, TypeOK, WorldTypes, AttemptTypes, MeasureTypes,
        HandleKept, LeadersKnown, AnswersAtPath, WaitsForIt, Alone, Stays, Listens, Runs, Holding, Answering, Hung
<1>1. CASE (Begin \/ StrayCheck \/ Refused \/ Clear) \/ \E g \in Groups : Start(g)
  BY <1>1 DEF Begin, StrayCheck, Refused, Clear, Start
<1>2. CASE Ready
  BY <1>2 DEF Ready, WaitExited, WaitAlive, KnockAnswered, KnockAgain, KnockSilent, DropReaps
<1>3. CASE LoadRead
  BY <1>3, ReadGoes
<1>4. CASE Measure /\ ~LoadRead
  BY <1>4 DEF Measure, LoadStarts, NotStarted, LoadUnreadable, LoadTooLong, Attach, Finish,
     FinishReads, FinishFails, StillUp, NotUp
<1>5. CASE Stop
  BY <1>5 DEF Stop, StopNothing, Term, Stopped, Kill, Settled, Stray, Unlink
<1>6. CASE Write \/ HarnessDies \/ Tick \/ LoadExits \/ PerfExits
  BY <1>6 DEF Write, HarnessDies, Tick, LoadExits, PerfExits
<1>7. CASE \E g \in Groups : Server(g)
  BY <1>7 DEF Server, Bind, Fork, LeaderExits, WorkersExit
<1>8. CASE Queues \/ Accepts
  BY <1>8 DEF Queues, Accepts
<1>9. CASE UNCHANGED vars
  BY <1>9 DEF vars
<1> QED
  BY <1>1, <1>2, <1>3, <1>4, <1>5, <1>6, <1>7, <1>8, <1>9 DEF Next, Harness

\* The measurement.
LEMMA StepToolsInPlace == HandleInv /\ MeasureInv /\ [Next]_vars => ToolsInPlace'
<1> SUFFICES ASSUME HandleInv, MeasureInv, [Next]_vars PROVE ToolsInPlace'
  OBVIOUS
<1> USE DEF Go, Move, Poll, Over, Fail, Signal, Reap, MeasureFails, world, mine, tools, locals,
        harness, Each, Exited, HandleInv, TypeOK, WorldTypes, AttemptTypes, MeasureTypes,
        HandleKept, LeadersKnown, AnswersAtPath, WaitsForIt, Listens, Runs, Holding, MeasureInv,
        ToolsInPlace, PassesAreOwn, PerfFollows, GoodIsWhole, WriteIsGood, Done, Own, BoundOver, Full,
        Passes, Serving
<1>1. CASE (Begin \/ StrayCheck \/ Refused \/ Clear) \/ \E g \in Groups : Start(g)
  BY <1>1 DEF Begin, StrayCheck, Refused, Clear, Start
<1>2. CASE Ready
  BY <1>2 DEF Ready, WaitExited, WaitAlive, KnockAnswered, KnockAgain, KnockSilent, DropReaps
<1>3. CASE LoadRead
  BY <1>3, ReadGoes
<1>4. CASE Measure /\ ~LoadRead
  BY <1>4 DEF Measure, LoadStarts, NotStarted, LoadUnreadable, LoadTooLong, Attach, Finish,
     FinishReads, FinishFails, StillUp, NotUp
<1>5. CASE Stop
  BY <1>5 DEF Stop, StopNothing, Term, Stopped, Kill, Settled, Stray, Unlink
<1>6. CASE Write \/ HarnessDies \/ Tick \/ LoadExits \/ PerfExits
  BY <1>6 DEF Write, HarnessDies, Tick, LoadExits, PerfExits
<1>7. CASE \E g \in Groups : Server(g)
  BY <1>7 DEF Server, Bind, Fork, LeaderExits, WorkersExit
<1>8. CASE Queues \/ Accepts
  BY <1>8 DEF Queues, Accepts
<1>9. CASE UNCHANGED vars
  BY <1>9 DEF vars
<1> QED
  BY <1>1, <1>2, <1>3, <1>4, <1>5, <1>6, <1>7, <1>8, <1>9 DEF Next, Harness

LEMMA StepPassesAreOwn == HandleInv /\ MeasureInv /\ [Next]_vars => PassesAreOwn'
<1> SUFFICES ASSUME HandleInv, MeasureInv, [Next]_vars PROVE PassesAreOwn'
  OBVIOUS
<1> USE DEF Go, Move, Poll, Over, Fail, Signal, Reap, MeasureFails, world, mine, tools, locals,
        harness, Each, Exited, HandleInv, TypeOK, WorldTypes, AttemptTypes, MeasureTypes,
        HandleKept, LeadersKnown, AnswersAtPath, WaitsForIt, Listens, Runs, Holding, MeasureInv,
        ToolsInPlace, PassesAreOwn, PerfFollows, GoodIsWhole, WriteIsGood, Done, Own, BoundOver, Full,
        Passes, Serving
<1>1. CASE (Begin \/ StrayCheck \/ Refused \/ Clear) \/ \E g \in Groups : Start(g)
  BY <1>1 DEF Begin, StrayCheck, Refused, Clear, Start
<1>2. CASE Ready
  BY <1>2 DEF Ready, WaitExited, WaitAlive, KnockAnswered, KnockAgain, KnockSilent, DropReaps
<1>3. CASE LoadRead
  <2>1. CASE pass = "warmup"
    BY <2>1, <1>3, ReadGoes
  <2>2. CASE pass = "sets"
    BY <2>2, <1>3, ReadGoes
  <2>3. CASE pass = "gets"
    BY <2>3, <1>3, ReadGoes
  <2> QED
    BY <2>1, <2>2, <2>3
<1>4. CASE Measure /\ ~LoadRead
  BY <1>4 DEF Measure, LoadStarts, NotStarted, LoadUnreadable, LoadTooLong, Attach, Finish,
     FinishReads, FinishFails, StillUp, NotUp
<1>5. CASE Stop
  BY <1>5 DEF Stop, StopNothing, Term, Stopped, Kill, Settled, Stray, Unlink
<1>6. CASE Write \/ HarnessDies \/ Tick \/ LoadExits \/ PerfExits
  BY <1>6 DEF Write, HarnessDies, Tick, LoadExits, PerfExits
<1>7. CASE \E g \in Groups : Server(g)
  BY <1>7 DEF Server, Bind, Fork, LeaderExits, WorkersExit
<1>8. CASE Queues \/ Accepts
  BY <1>8 DEF Queues, Accepts
<1>9. CASE UNCHANGED vars
  BY <1>9 DEF vars
<1> QED
  BY <1>1, <1>2, <1>3, <1>4, <1>5, <1>6, <1>7, <1>8, <1>9 DEF Next, Harness

LEMMA StepPerfFollows == HandleInv /\ MeasureInv /\ [Next]_vars => PerfFollows'
<1> SUFFICES ASSUME HandleInv, MeasureInv, [Next]_vars PROVE PerfFollows'
  OBVIOUS
<1> USE DEF Go, Move, Poll, Over, Fail, Signal, Reap, MeasureFails, world, mine, tools, locals,
        harness, Each, Exited, HandleInv, TypeOK, WorldTypes, AttemptTypes, MeasureTypes,
        HandleKept, LeadersKnown, AnswersAtPath, WaitsForIt, Listens, Runs, Holding, MeasureInv,
        ToolsInPlace, PassesAreOwn, PerfFollows, GoodIsWhole, WriteIsGood, Done, Own, BoundOver, Full,
        Passes, Serving
<1>1. CASE (Begin \/ StrayCheck \/ Refused \/ Clear) \/ \E g \in Groups : Start(g)
  BY <1>1 DEF Begin, StrayCheck, Refused, Clear, Start
<1>2. CASE Ready
  BY <1>2 DEF Ready, WaitExited, WaitAlive, KnockAnswered, KnockAgain, KnockSilent, DropReaps
<1>3. CASE LoadRead
  <2>1. CASE pass = "warmup"
    BY <2>1, <1>3, ReadGoes
  <2>2. CASE pass = "sets"
    BY <2>2, <1>3, ReadGoes
  <2>3. CASE pass = "gets"
    BY <2>3, <1>3, ReadGoes
  <2> QED
    BY <2>1, <2>2, <2>3
<1>4. CASE Measure /\ ~LoadRead
  <2>1. CASE LoadStarts \/ NotStarted \/ LoadUnreadable \/ LoadTooLong
    BY <2>1 DEF LoadStarts, NotStarted, LoadUnreadable, LoadTooLong
  <2>2. CASE Attach
    BY <2>2 DEF Attach
  <2>3. CASE Finish
    BY <2>3 DEF Finish
  <2>4. CASE FinishReads
    BY <2>4 DEF FinishReads
  <2>5. CASE FinishFails
    BY <2>5 DEF FinishFails
  <2>6. CASE StillUp \/ NotUp
    BY <2>6 DEF StillUp, NotUp
  <2> QED
    BY <1>4, <2>1, <2>2, <2>3, <2>4, <2>5, <2>6 DEF Measure
<1>5. CASE Stop
  BY <1>5 DEF Stop, StopNothing, Term, Stopped, Kill, Settled, Stray, Unlink
<1>6. CASE Write \/ HarnessDies \/ Tick \/ LoadExits \/ PerfExits
  BY <1>6 DEF Write, HarnessDies, Tick, LoadExits, PerfExits
<1>7. CASE \E g \in Groups : Server(g)
  <2>1. CASE \E g \in Groups : Bind(g)
    BY <2>1 DEF Bind
  <2>2. CASE \E g \in Groups : Fork(g)
    BY <2>2 DEF Fork
  <2>3. CASE \E g \in Groups : LeaderExits(g)
    BY <2>3 DEF LeaderExits
  <2>4. CASE \E g \in Groups : WorkersExit(g)
    BY <2>4 DEF WorkersExit
  <2> QED
    BY <1>7, <2>1, <2>2, <2>3, <2>4 DEF Server
<1>8. CASE Queues \/ Accepts
  BY <1>8 DEF Queues, Accepts
<1>9. CASE UNCHANGED vars
  BY <1>9 DEF vars
<1> QED
  BY <1>1, <1>2, <1>3, <1>4, <1>5, <1>6, <1>7, <1>8, <1>9 DEF Next, Harness

LEMMA StepGoodIsWhole == HandleInv /\ MeasureInv /\ [Next]_vars => GoodIsWhole'
<1> SUFFICES ASSUME HandleInv, MeasureInv, [Next]_vars PROVE GoodIsWhole'
  OBVIOUS
<1> USE DEF Go, Move, Poll, Over, Fail, Signal, Reap, MeasureFails, world, mine, tools, locals,
        harness, Each, Exited, HandleInv, TypeOK, WorldTypes, AttemptTypes, MeasureTypes,
        HandleKept, LeadersKnown, AnswersAtPath, WaitsForIt, Listens, Runs, Holding, MeasureInv,
        ToolsInPlace, PassesAreOwn, PerfFollows, GoodIsWhole, WriteIsGood, Done, Own, BoundOver, Full,
        Passes, Serving
<1>1. CASE (Begin \/ StrayCheck \/ Refused \/ Clear) \/ \E g \in Groups : Start(g)
  BY <1>1 DEF Begin, StrayCheck, Refused, Clear, Start
<1>2. CASE Ready
  BY <1>2 DEF Ready, WaitExited, WaitAlive, KnockAnswered, KnockAgain, KnockSilent, DropReaps
<1>3. CASE LoadRead
  BY <1>3, ReadGoes
<1>4. CASE Measure /\ ~LoadRead
  <2>1. CASE LoadStarts \/ NotStarted \/ LoadUnreadable \/ LoadTooLong
    BY <2>1 DEF LoadStarts, NotStarted, LoadUnreadable, LoadTooLong
  <2>2. CASE Attach \/ Finish
    BY <2>2 DEF Attach, Finish
  <2>3. CASE FinishReads \/ FinishFails
    BY <2>3 DEF FinishReads, FinishFails
  <2>4. CASE StillUp
    BY <2>4 DEF StillUp
  <2>5. CASE NotUp
    BY <2>5 DEF NotUp
  <2> QED
    BY <1>4, <2>1, <2>2, <2>3, <2>4, <2>5 DEF Measure
<1>5. CASE Stop
  <2>1. CASE StopNothing \/ Term \/ Stopped
    BY <2>1 DEF StopNothing, Term, Stopped
  <2>2. CASE Kill
    BY <2>2 DEF Kill
  <2>3. CASE Settled
    BY <2>3 DEF Settled
  <2>4. CASE Stray
    BY <2>4 DEF Stray
  <2>5. CASE Unlink
    BY <2>5 DEF Unlink
  <2> QED
    BY <1>5, <2>1, <2>2, <2>3, <2>4, <2>5 DEF Stop
<1>6. CASE Write \/ HarnessDies \/ Tick \/ LoadExits \/ PerfExits
  BY <1>6 DEF Write, HarnessDies, Tick, LoadExits, PerfExits
<1>7. CASE \E g \in Groups : Server(g)
  <2>1. CASE \E g \in Groups : Bind(g)
    BY <2>1 DEF Bind
  <2>2. CASE \E g \in Groups : Fork(g)
    BY <2>2 DEF Fork
  <2>3. CASE \E g \in Groups : LeaderExits(g)
    BY <2>3 DEF LeaderExits
  <2>4. CASE \E g \in Groups : WorkersExit(g)
    BY <2>4 DEF WorkersExit
  <2> QED
    BY <1>7, <2>1, <2>2, <2>3, <2>4 DEF Server
<1>8. CASE Queues \/ Accepts
  BY <1>8 DEF Queues, Accepts
<1>9. CASE UNCHANGED vars
  BY <1>9 DEF vars
<1> QED
  BY <1>1, <1>2, <1>3, <1>4, <1>5, <1>6, <1>7, <1>8, <1>9 DEF Next, Harness

LEMMA StepWriteIsGood == HandleInv /\ MeasureInv /\ [Next]_vars => WriteIsGood'
<1> SUFFICES ASSUME HandleInv, MeasureInv, [Next]_vars PROVE WriteIsGood'
  OBVIOUS
<1> USE DEF Go, Move, Poll, Over, Fail, Signal, Reap, MeasureFails, world, mine, tools, locals,
        harness, Each, Exited, HandleInv, TypeOK, WorldTypes, AttemptTypes, MeasureTypes,
        HandleKept, LeadersKnown, AnswersAtPath, WaitsForIt, Listens, Runs, Holding, MeasureInv,
        ToolsInPlace, PassesAreOwn, PerfFollows, GoodIsWhole, WriteIsGood, Done, Own, BoundOver, Full,
        Passes, Serving
<1>1. CASE (Begin \/ StrayCheck \/ Refused \/ Clear) \/ \E g \in Groups : Start(g)
  BY <1>1 DEF Begin, StrayCheck, Refused, Clear, Start
<1>2. CASE Ready
  BY <1>2 DEF Ready, WaitExited, WaitAlive, KnockAnswered, KnockAgain, KnockSilent, DropReaps
<1>3. CASE LoadRead
  BY <1>3, ReadGoes
<1>4. CASE Measure /\ ~LoadRead
  BY <1>4 DEF Measure, LoadStarts, NotStarted, LoadUnreadable, LoadTooLong, Attach, Finish,
     FinishReads, FinishFails, StillUp, NotUp
<1>5. CASE Stop
  BY <1>5 DEF Stop, StopNothing, Term, Stopped, Kill, Settled, Stray, Unlink
<1>6. CASE Write \/ HarnessDies \/ Tick \/ LoadExits \/ PerfExits
  BY <1>6 DEF Write, HarnessDies, Tick, LoadExits, PerfExits
<1>7. CASE \E g \in Groups : Server(g)
  BY <1>7 DEF Server, Bind, Fork, LeaderExits, WorkersExit
<1>8. CASE Queues \/ Accepts
  BY <1>8 DEF Queues, Accepts
<1>9. CASE UNCHANGED vars
  BY <1>9 DEF vars
<1> QED
  BY <1>1, <1>2, <1>3, <1>4, <1>5, <1>6, <1>7, <1>8, <1>9 DEF Next, Harness

-----------------------------------------------------------------------------
LEMMA HandleHolds == Spec => []HandleInv
<1>1. HandleInv /\ [Next]_vars => HandleInv'
  BY StepWorldTypes, StepAttemptTypes, StepMeasureTypes, StepHandleKept, StepLeadersKnown,
     StepAnswersAtPath, StepWaitsForIt, StepAlone DEF HandleInv, TypeOK
<1> QED
  BY <1>1, InitHandle, PTL DEF Spec

LEMMA MeasureHolds == Spec => []MeasureInv
<1>1. HandleInv /\ MeasureInv /\ [Next]_vars => MeasureInv'
  BY StepToolsInPlace, StepPassesAreOwn, StepPerfFollows, StepGoodIsWhole, StepWriteIsGood
  DEF MeasureInv
<1> QED
  BY <1>1, InitMeasure, HandleHolds, PTL DEF Spec

\* A run file is written with this attempt's numbers, and every pass it holds
\* was measured on the server this attempt started or on one that bound over
\* the path, or was bound over, for any number of groups and attempts.
THEOREM OwnIsWritten == Spec => []WrittenIsOwn
<1>1. MeasureInv => WrittenIsOwn
  BY DEF MeasureInv, WriteIsGood, GoodIsWhole, WrittenIsOwn, BoundOver
<1> QED
  BY <1>1, MeasureHolds, PTL

\* It is written when nothing of its server's group is left, and no attempt
\* that comes back leaves a perf behind it.
THEOREM GoneWhenWritten == Spec => []GoneBeforeWritten
<1>1. MeasureInv => GoneBeforeWritten
  BY DEF MeasureInv, WriteIsGood, GoodIsWhole, ToolsInPlace, GoneBeforeWritten
<1> QED
  BY <1>1, MeasureHolds, PTL

\* It is written with counters of both measured passes and no other.
THEOREM WrittenWithCounters == Spec => []CountersAreWhole
<1>1. MeasureInv => CountersAreWhole
  BY DEF MeasureInv, WriteIsGood, GoodIsWhole, Full, CountersAreWhole
<1> QED
  BY <1>1, MeasureHolds, PTL

\* Nothing of another attempt runs beside a pass but what outlived a killed
\* harness or a leader that died by itself, or was bound over.
THEOREM PassesAreAlone == Spec => []NoCompany
<1>1. HandleInv => NoCompany
  BY DEF HandleInv, Alone, Stays, NoCompany
<1> QED
  BY <1>1, HandleHolds, PTL

=============================================================================
