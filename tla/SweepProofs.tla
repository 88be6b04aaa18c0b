---------------------------- MODULE SweepProofs ----------------------------
(***************************************************************************)
(* What holds of the sweep for every plan, every limit and any number of   *)
(* kills and failed writes, by induction over its steps.                   *)
(*                                                                         *)
(* Beside the types, none of the properties is inductive by itself.  What  *)
(* carries them is a division of the plan at the cell the loop is at.      *)
(* Behind it every cell of the engines asked for is accounted for: whole,  *)
(* counted as failed, or its engine put down.  Ahead of it every cell left *)
(* to measure is still owed: it has no whole file and has tries left.      *)
(***************************************************************************)
EXTENDS SweepRefines, FiniteSetTheorems, TLAPS

-----------------------------------------------------------------------------
(***************************************************************************)
(* The failure file.                                                       *)
(***************************************************************************)

LEMMA NothingType == Nothing \in Failures
  BY DEF Nothing, Failures

\* One failure raises one count by one and touches nothing else.
LEMMA FailedEffect ==
  ASSUME NEW f \in Failures, NEW c \in Cells
  PROVE  /\ failed(f, c) \in Failures
         /\ failed(f, c).abandoned = f.abandoned
         /\ failed(f, c).attempts[c] = f.attempts[c] + 1
         /\ \A d \in Cells \ {c} : failed(f, c).attempts[d] = f.attempts[d]
  BY DEF failed, Failures

\* A measured cell has no failures, and no other cell is touched.
LEMMA MeasuredEffect ==
  ASSUME NEW f \in Failures, NEW S \in SUBSET Cells
  PROVE  /\ measured(f, S) \in Failures
         /\ measured(f, S).abandoned = f.abandoned
         /\ \A c \in S : measured(f, S).attempts[c] = 0
         /\ \A c \in Cells \ S : measured(f, S).attempts[c] = f.attempts[c]
  BY DEF measured, Failures

LEMMA AbandonEffect ==
  ASSUME NEW f \in Failures, NEW e \in Engines
  PROVE  /\ abandon(f, e) \in Failures
         /\ abandon(f, e).attempts = f.attempts
         /\ abandon(f, e).abandoned = f.abandoned \cup {e}
  BY DEF abandon, Failures

LEMMA ReconsiderEffect ==
  ASSUME NEW f \in Failures
  PROVE  /\ reconsider(f) \in Failures
         /\ reconsider(f).attempts = f.attempts
         /\ reconsider(f).abandoned = {}
  BY DEF reconsider, Failures

LEMMA TryAgainEffect ==
  ASSUME NEW f \in Failures
  PROVE  /\ try_again(f) \in Failures
         /\ try_again(f).abandoned = f.abandoned
         /\ \A c \in Cells : try_again(f).attempts[c] = 0
  BY DEF try_again, Failures

LEMMA AttemptsAreCounted ==
  ASSUME NEW f \in Failures, NEW c \in Cells
  PROVE  f.attempts[c] \in Nat
  BY DEF Failures

-----------------------------------------------------------------------------
(***************************************************************************)
(* Types, and what each place in the loop implies.                         *)
(***************************************************************************)

\* A process that is not sweeping remembers nothing of a sweep.
Resting ==
  pc \in {"idle", "hand"}
    => todo = {} /\ failures = Nothing /\ proven = {} /\ given_up = {}

\* An attempt is at a cell of the plan that was left to measure.
Attempted == pc \in {"once", "write", "note"} => at \in 1..Len(Plan) /\ Here \in todo

\* The file written by hand is torn until it is written.
HandTorn == pc = "hand" => \A c \in target : runs[c] = "torn"

Base == TypeOK /\ Resting /\ Attempted /\ HandTorn

LEMMA PlanFacts ==
  /\ Len(Plan) \in Nat
  /\ \A i \in 1..Len(Plan) : Plan[i] \in Cells
  /\ \A c \in Cells : c.cache \in Engines
<1>1. Len(Plan) \in Nat /\ \A i \in 1..Len(Plan) : Plan[i] \in Cells
  BY PlanAssumption
<1>2. \A c \in Cells : c.cache \in Engines
  BY DEF Cells
<1> QED
  BY <1>1, <1>2

LEMMA Places == 0 \in 0..PATIENCE /\ 1 \in 1..(Len(Plan) + 1) /\ 0 \in 0..MaxFaults
<1>1. Len(Plan) \in Nat /\ PATIENCE \in Nat /\ MaxFaults \in Nat
  BY LimitsAssumption, PlanFacts
<1> QED
  BY <1>1

LEMMA InitBase == Init => Base
  BY LimitsAssumption, NothingType
  DEF Init, Base, TypeOK, Resting, Attempted, HandTorn, FileState, PlanAssumption

\* Coming home from any command keeps the types.
LEMMA LeaveBase ==
  ASSUME Base,
         \E why \in {"ok", "missing", "stopped", "killed", "failed by hand"} : Leave(why),
         runs' \in [Cells -> FileState], recordFile' = recordFile,
         recorded' = recorded, journal' = journal, faults' \in 0..MaxFaults
  PROVE  Base'
<1>1. PICK why \in {"ok", "missing", "stopped", "killed", "failed by hand"} : Leave(why)
  OBVIOUS
<1>a. /\ pc' = "idle" /\ exit' = why /\ asked' = {} /\ failures' \in Failures /\ todo' = {}
      /\ at' = 1 /\ looks' = 0
      /\ proven' = {} /\ given_up' = {} /\ in_a_row' = 0 /\ last' = {} /\ target' = {}
  BY <1>1, NothingType DEF Leave
<1>b. at' \in 1..(Len(Plan) + 1) /\ looks' \in 0..PATIENCE
  BY <1>a, Places
<1>c. recorded' \in Failures /\ recordFile' \in FileState /\ journal' \subseteq Cells
  BY DEF Base, TypeOK
<1>2. TypeOK'
  BY <1>a, <1>b, <1>c DEF TypeOK
<1>3. Resting' /\ Attempted' /\ HandTorn'
  BY DEF Leave, Resting, Attempted, HandTorn
<1> QED
  BY <1>2, <1>3 DEF Base

\* What a failed attempt does to the session's memory.
LEMMA CountFailureEffect ==
  ASSUME Base, NEW c \in Cells, CountFailure(c)
  PROVE  /\ failures' \in Failures
         /\ failures'.attempts[c] = failures.attempts[c] + 1
         /\ \A d \in Cells \ {c} : failures'.attempts[d] = failures.attempts[d]
         /\ in_a_row' \in Nat
         /\ last' \subseteq Engines
         /\ proven' = proven
         /\ \/ given_up' = given_up /\ failures'.abandoned = failures.abandoned
            \/ /\ c.cache \notin proven
               /\ given_up' = given_up \cup {c.cache}
               /\ failures'.abandoned = failures.abandoned \cup {c.cache}
<1> DEFINE f == failed(failures, c)
<1>1. failures \in Failures /\ in_a_row \in Nat /\ c.cache \in Engines
  BY PlanFacts DEF Base, TypeOK
<1>2. /\ f \in Failures
      /\ f.abandoned = failures.abandoned
      /\ f.attempts[c] = failures.attempts[c] + 1
      /\ \A d \in Cells \ {c} : f.attempts[d] = failures.attempts[d]
  BY <1>1, FailedEffect
<1>3. /\ abandon(f, c.cache) \in Failures
      /\ abandon(f, c.cache).attempts = f.attempts
      /\ abandon(f, c.cache).abandoned = f.abandoned \cup {c.cache}
  BY <1>1, <1>2, AbandonEffect
<1>4. in_a_row' \in Nat /\ last' = {c.cache} /\ proven' = proven
  BY <1>1 DEF CountFailure
<1>5. \/ given_up' = given_up /\ failures' = f
      \/ /\ c.cache \notin proven
         /\ given_up' = given_up \cup {c.cache} /\ failures' = abandon(f, c.cache)
  BY DEF CountFailure, put_down
<1> HIDE DEF f
<1> QED
  BY <1>1, <1>2, <1>3, <1>4, <1>5

\* What a measured one does.
LEMMA CountMeasuredEffect ==
  ASSUME Base, NEW c \in Cells, CountMeasured(c)
  PROVE  /\ failures' \in Failures
         /\ failures'.abandoned = failures.abandoned
         /\ failures'.attempts[c] = 0
         /\ \A d \in Cells \ {c} : failures'.attempts[d] = failures.attempts[d]
         /\ in_a_row' = 0
         /\ proven' = proven \cup {c.cache}
         /\ given_up' = given_up /\ last' = last
<1>1. failures \in Failures /\ {c} \in SUBSET Cells
  BY DEF Base, TypeOK
<1>2. /\ failures' = measured(failures, {c}) /\ in_a_row' = 0
      /\ proven' = proven \cup {c.cache} /\ given_up' = given_up /\ last' = last
  BY DEF CountMeasured
<1> QED
  BY <1>1, <1>2, MeasuredEffect

\* What a session knows when it has sorted out what is left.
LEMMA StartEffect ==
  ASSUME Base, NEW mine \in SUBSET Engines, NEW retry \in BOOLEAN, Start(mine, retry)
  PROVE  /\ failures' \in Failures
         /\ failures'.abandoned = {}
         /\ todo' \subseteq Cells /\ proven' \subseteq Engines
         /\ \A c \in Cells : \/ failures'.attempts[c] = 0
                             \/ failures'.attempts[c] = recorded.attempts[c]
         /\ \A c \in todo' : runs[c] # "whole" /\ failures'.attempts[c] < TRIES
         /\ \A c \in Cells : c.cache \in mine =>
              \/ runs[c] = "whole" /\ c.cache \in proven'
              \/ c \in todo'
              \/ failures'.attempts[c] >= TRIES
         /\ \A e \in proven' : \E c \in Cells : c.cache = e /\ runs[c] = "whole"
<1> DEFINE r == reconsider(recorded)
           f == IF retry THEN try_again(r) ELSE r
           here == {c \in Cells : c.cache \in mine}
           kept == {c \in here : done(c)}
<1>1. recorded \in Failures
  BY DEF Base, TypeOK
<1>2. r \in Failures /\ r.attempts = recorded.attempts /\ r.abandoned = {}
  BY <1>1, ReconsiderEffect
<1>3. /\ f \in Failures /\ f.abandoned = {}
      /\ \A c \in Cells : f.attempts[c] = 0 \/ f.attempts[c] = recorded.attempts[c]
  BY <1>2, TryAgainEffect
<1>4. /\ failures' = measured(f, kept)
      /\ proven' = {c.cache : c \in kept}
      /\ todo' = {c \in here \ kept : worth_trying(f, c)}
  BY DEF Start, WhatsLeft
<1>5. kept \in SUBSET Cells
  OBVIOUS
<1>6. /\ failures' \in Failures /\ failures'.abandoned = {}
      /\ \A c \in kept : failures'.attempts[c] = 0
      /\ \A c \in Cells \ kept : failures'.attempts[c] = f.attempts[c]
  BY <1>3, <1>4, <1>5, MeasuredEffect
<1>7. \A c \in Cells : f.attempts[c] \in Nat
  BY <1>3 DEF Failures
<1> HIDE DEF f, r
<1>8. \A c \in todo' : runs[c] # "whole" /\ failures'.attempts[c] < TRIES
  BY <1>4, <1>6 DEF worth_trying, done
<1>9. \A c \in Cells : c.cache \in mine =>
              \/ runs[c] = "whole" /\ c.cache \in proven'
              \/ c \in todo'
              \/ failures'.attempts[c] >= TRIES
  BY <1>4, <1>6, <1>7, LimitsAssumption DEF worth_trying, done
<1>10. \A e \in proven' : \E c \in Cells : c.cache = e /\ runs[c] = "whole"
  BY <1>4 DEF done
<1> QED
  BY <1>3, <1>4, <1>6, <1>8, <1>9, <1>10, PlanFacts

LEMMA StepBase == Base /\ [Next]_vars => Base'
<1> SUFFICES ASSUME Base, [Next]_vars
             PROVE  Base'
  OBVIOUS
<1>a. Len(Plan) \in Nat /\ PATIENCE \in Nat /\ MaxFaults \in Nat /\ RetryFlags \subseteq BOOLEAN
  BY PlanFacts, LimitsAssumption
<1>h. at \in 1..Len(Plan) => at + 1 \in 1..(Len(Plan) + 1)
  BY <1>a
<1>t. at \in 1..(Len(Plan) + 1) /\ looks \in 0..PATIENCE /\ faults \in 0..MaxFaults
  BY DEF Base, TypeOK
<1>i. pc \in {"once", "write", "note"} => Here \in Cells
  BY DEF Base, TypeOK, Attempted
<1>e. /\ \A c \in Cells : c.cache \in Engines
      /\ last \subseteq Engines /\ proven \subseteq Engines /\ given_up \subseteq Engines
  BY PlanFacts DEF Base, TypeOK
<1>j. ASSUME NEW kind, Fault(kind)
      PROVE  faults' \in 0..MaxFaults
  BY <1>j, <1>a, <1>t DEF Fault
<1>r. runs \in [Cells -> FileState]
  BY DEF Base, TypeOK
<1>k. FileState = {"absent", "torn", "whole"}
  BY DEF FileState
<1>1. ASSUME NEW mine \in (SUBSET Engines) \ {{}}, NEW retry \in RetryFlags, Start(mine, retry)
      PROVE  Base'
  <2>1. mine \in SUBSET Engines /\ retry \in BOOLEAN
    BY <1>a
  <2>2. failures' \in Failures /\ todo' \subseteq Cells /\ proven' \subseteq Engines
    BY <1>1, <2>1, StartEffect
  <2>3. /\ pc' = "keep" /\ exit' = "none" /\ asked' = mine /\ at' = 1 /\ looks' = 0
        /\ given_up' = {} /\ in_a_row' = 0 /\ last' = {}
        /\ UNCHANGED <<runs, recordFile, recorded, journal, target, faults>>
    BY <1>1 DEF Start, disk
  <2>4. at' \in 1..(Len(Plan) + 1) /\ looks' \in 0..PATIENCE
    BY <2>3, Places
  <2> QED
    BY <2>1, <2>2, <2>3, <2>4 DEF Base, TypeOK, Resting, Attempted, HandTorn
<1>2. CASE Refuse
  BY <1>2 DEF Base, TypeOK, Resting, Attempted, HandTorn, Refuse, disk, memory, Here
<1>3. CASE KeepTruncate
  BY <1>3, <1>k, NothingType DEF Base, TypeOK, Resting, Attempted, HandTorn, KeepTruncate, memory, Here
<1>4. CASE KeepFill
  BY <1>4, <1>k DEF Base, TypeOK, Resting, Attempted, HandTorn, KeepFill, memory, Here
<1>5. CASE KeepFails
  BY <1>5, <1>j DEF Base, TypeOK, Resting, Attempted, HandTorn, KeepFails, disk, memory, Here
<1>6. CASE PassOver
  <2>1. at \in 1..Len(Plan)
    BY <1>6, <1>a, <1>t DEF PassOver
  <2> QED
    BY <1>6, <1>h, <2>1 DEF Base, TypeOK, Resting, Attempted, HandTorn, PassOver, disk
<1>7. CASE LookQuiet
  <2>1. /\ looks' = 0 /\ pc' = "once" /\ at' = at /\ todo' = todo
        /\ at \in 1..Len(Plan) /\ Here \in todo
    BY <1>7, <1>a, <1>t DEF LookQuiet, Attempting
  <2>2. looks' \in 0..PATIENCE
    BY <2>1, <1>a
  <2> QED
    BY <1>7, <2>1, <2>2 DEF Base, TypeOK, Resting, Attempted, HandTorn, LookQuiet, disk, Here
<1>8. CASE LookBusy
  <2>1. looks + 1 \in 0..PATIENCE
    BY <1>8, <1>a, <1>t DEF LookBusy
  <2> QED
    BY <1>8, <2>1 DEF Base, TypeOK, Resting, Attempted, HandTorn, LookBusy, disk, Here
<1>9. CASE StillBusy
  <2>1. Leave("stopped") /\ UNCHANGED <<disk, faults>>
    BY <1>9 DEF StillBusy
  <2> QED
    BY <2>1, <1>r, <1>t, LeaveBase DEF disk
<1>10. CASE OnceFails
  <2>1. CountFailure(Here) /\ Here \in Cells
    BY <1>10, <1>i DEF OnceFails
  <2>2. /\ failures' \in Failures /\ in_a_row' \in Nat /\ last' \subseteq Engines
        /\ proven' = proven /\ given_up' \subseteq Engines
    BY <2>1, <1>e, CountFailureEffect
  <2> QED
    BY <1>10, <2>2 DEF Base, TypeOK, Resting, Attempted, HandTorn, OnceFails, disk, Here
<1>11. CASE WriteStarts
  BY <1>11, <1>i, <1>k DEF Base, TypeOK, Resting, Attempted, HandTorn, WriteStarts, memory, Here
<1>12. CASE WriteDone
  <2>1. CountMeasured(Here) /\ Here \in Cells
    BY <1>12, <1>i DEF WriteDone
  <2>2. /\ failures' \in Failures /\ in_a_row' \in Nat /\ last' \subseteq Engines
        /\ proven' \subseteq Engines /\ given_up' \subseteq Engines
    BY <2>1, <1>e, CountMeasuredEffect
  <2> QED
    BY <1>12, <2>2, <1>k DEF Base, TypeOK, Resting, Attempted, HandTorn, WriteDone, Here
<1>13. CASE WriteFails
  <2>1. CountFailure(Here) /\ Here \in Cells
    BY <1>13, <1>i DEF WriteFails
  <2>2. /\ failures' \in Failures /\ in_a_row' \in Nat /\ last' \subseteq Engines
        /\ proven' = proven /\ given_up' \subseteq Engines
    BY <2>1, <1>e, CountFailureEffect
  <2>3. runs' \in [Cells -> FileState]
    BY <1>13, <1>k DEF Base, TypeOK, Resting, Attempted, HandTorn, WriteFails
  <2> QED
    BY <1>13, <2>2, <2>3, <1>j DEF Base, TypeOK, Resting, Attempted, HandTorn, WriteFails, Here
<1>14. CASE Note
  <2>1. journal' \subseteq Cells /\ at' \in 1..(Len(Plan) + 1) /\ pc' = "keep"
    BY <1>14, <1>h, <1>i DEF Base, TypeOK, Attempted, Note
  <2> QED
    BY <1>14, <2>1 DEF Base, TypeOK, Resting, Attempted, HandTorn, Note
<1>15. CASE NoteFails
  <2>1. at' \in 1..(Len(Plan) + 1) /\ pc' = "keep" /\ faults' \in 0..MaxFaults
    BY <1>15, <1>h, <1>j, <1>i DEF NoteFails, Attempted, Base
  <2> QED
    BY <1>15, <2>1 DEF Base, TypeOK, Resting, Attempted, HandTorn, NoteFails, disk
<1>16. CASE Return
  <2>1. /\ \E why \in {"ok", "missing"} : Leave(why)
        /\ UNCHANGED <<disk, faults>>
    BY <1>16 DEF Return
  <2> QED
    BY <2>1, <1>r, <1>t, LeaveBase DEF disk
<1>17. ASSUME NEW c \in Cells, HandSkips(c)
       PROVE  Base'
  BY <1>17 DEF Base, TypeOK, Resting, Attempted, HandTorn, HandSkips, disk, memory, Here
<1>18. ASSUME NEW c \in Cells, NEW force \in ForceFlags, HandStarts(c, force)
       PROVE  Base'
  BY <1>18, <1>k DEF Base, TypeOK, Resting, Attempted, HandTorn, HandStarts, memory, Here
<1>19. CASE HandDone
  BY <1>19, <1>k DEF Base, TypeOK, Resting, Attempted, HandTorn, HandDone, memory, Here
<1>20. CASE HandFails
  <2>1. runs' \in [Cells -> FileState]
    BY <1>20, <1>k DEF Base, TypeOK, Resting, Attempted, HandTorn, HandFails
  <2> QED
    BY <1>20, <1>j, <2>1, LeaveBase DEF HandFails
<1>21. CASE Kill
  <2>1. Leave("killed") /\ UNCHANGED disk /\ faults' \in 0..MaxFaults
    BY <1>21, <1>j DEF Kill
  <2> QED
    BY <2>1, <1>r, LeaveBase DEF disk
<1>22. CASE UNCHANGED vars
  BY <1>22 DEF Base, TypeOK, Resting, Attempted, HandTorn, vars, disk, memory, Here
<1> QED
  BY <1>1, <1>2, <1>3, <1>4, <1>5, <1>6, <1>7, <1>8, <1>9, <1>10, <1>11, <1>12, <1>13,
     <1>14, <1>15, <1>16, <1>17, <1>18, <1>19, <1>20, <1>21, <1>22
  DEF Next, Operator, Session, Keep, Look, Attempt

\* Every variable keeps its type in every behaviour of the sweep.
THEOREM TypeCorrect == Spec => []TypeOK
<1>1. Init => Base
  BY InitBase
<1>2. Base /\ [Next]_vars => Base'
  BY StepBase
<1>3. Base => TypeOK
  BY DEF Base
<1> QED
  BY <1>1, <1>2, <1>3, PTL DEF Spec

-----------------------------------------------------------------------------
(***************************************************************************)
(* Behind the cell the loop is at, and ahead of it.                        *)
(***************************************************************************)
\* What is ahead and left to measure has no whole file and a try to spend.
Owed ==
  \A i \in 1..Len(Plan) :
    Ahead(i) /\ Plan[i] \in todo =>
      runs[Plan[i]] # "whole" /\ failures.attempts[Plan[i]] < TRIES

\* The session put an engine down only if its failure file says so.
GivenUpIsNamed == given_up \subseteq failures.abandoned

AccountedFor(c) ==
  \/ runs[c] = "whole"
  \/ failures.attempts[c] > 0
  \/ c.cache \in failures.abandoned
  \/ c \in todo /\ \E i \in 1..Len(Plan) : Ahead(i) /\ Plan[i] = c

\* Every cell asked for is ahead, or accounted for.
Accounted ==
  pc \notin {"idle", "hand"} => \A c \in Cells : c.cache \in asked => AccountedFor(c)

Inv ==
  Base /\ TriesAreCapped /\ Owed /\ ProvenIsOnDisk /\ GivenUpIsNamed /\ Accounted

-----------------------------------------------------------------------------
(***************************************************************************)
(* The steps of the sweep, by what they do to the state Inv speaks of.     *)
(***************************************************************************)
sweep == <<asked, failures, todo, proven, given_up, in_a_row, last>>

Outside(p) == p \in {"idle", "hand"}

\* At most the file of this cell is written or truncated.
HandTouches(c) == \A d \in Cells \ {c} : runs'[d] = runs[d]

KeepsWhole == \A c \in Cells : runs[c] = "whole" => runs'[c] = "whole"

\* A session begins.
Begun ==
  \E mine \in (SUBSET Engines) \ {{}}, retry \in BOOLEAN : Start(mine, retry)

\* Nothing but the failure file, or the place within one cell, changes.
Framed ==
  /\ UNCHANGED <<runs, sweep, at>>
  /\ \/ recorded' = recorded
     \/ ~Outside(pc) /\ recorded' \in {Nothing, failures}
  /\ pc' = "note" <=> pc = "note"
  /\ Outside(pc') <=> Outside(pc)
  /\ pc' \in {"once", "write"} => pc' = pc \/ Attempting
  /\ pc' = "hand" => pc = "hand" /\ target' = target

\* The loop goes on to the next cell: past one it leaves, or after a line.
Passed ==
  /\ pc = "next" /\ ~Attempting /\ at <= Len(Plan)
  /\ pc' = "next" /\ at' = at + 1
  /\ UNCHANGED <<runs, recorded, sweep>>

Noted ==
  /\ pc = "note"
  /\ pc' = "keep" /\ at' = at + 1
  /\ UNCHANGED <<runs, recorded, sweep>>

\* An attempt starts its file, fails, or succeeds.
Opened ==
  /\ pc = "once"
  /\ pc' = "write"
  /\ runs' = [runs EXCEPT ![Here] = "torn"]
  /\ UNCHANGED <<recorded, sweep, at>>

Missed ==
  /\ pc \in {"once", "write"}
  /\ pc' = "note"
  /\ CountFailure(Here)
  /\ \A c \in Cells \ {Here} : runs'[c] = runs[c]
  /\ pc = "once" => runs' = runs
  /\ UNCHANGED <<recorded, asked, todo, at>>

Finished ==
  /\ pc = "write"
  /\ pc' = "note"
  /\ CountMeasured(Here)
  /\ runs' = [runs EXCEPT ![Here] = "whole"]
  /\ UNCHANGED <<recorded, asked, todo, at>>

\* A session is over, with what it remembered.
Forgotten == in_a_row' = 0 /\ last' = {} /\ asked' = {}

Ended ==
  /\ ~Outside(pc) /\ pc' = "idle"
  /\ runs' = runs /\ Forgotten

\* `run` begins or ends, with or without its file.
Handled ==
  /\ Outside(pc)
  /\ Forgotten \/ UNCHANGED <<in_a_row, last, asked>>
  /\ \/ pc = "idle" /\ \E c \in Cells : target' = {c} /\ HandTouches(c)
     \/ pc = "hand" /\ pc' = "idle" /\ \A c \in Cells : target = {c} => HandTouches(c)

Rested ==
  /\ Outside(pc')
  /\ recorded' = recorded
  /\ pc = "idle" \/ KeepsWhole
  /\ Ended \/ Handled
  /\ Return \/ exit' \notin {"ok", "missing"}

LEMMA StepKinds ==
  ASSUME Base, [Next]_vars
  PROVE  \/ Begun \/ Framed \/ Passed \/ Noted
         \/ Opened \/ Missed \/ Finished \/ Rested
<1> USE DEF sweep, Outside
<1>r. runs \in [Cells -> FileState]
  BY DEF Base, TypeOK
<1>1. ASSUME NEW mine \in (SUBSET Engines) \ {{}}, NEW retry \in RetryFlags, Start(mine, retry)
      PROVE  Begun
  BY <1>1, LimitsAssumption DEF Begun
<1>2. Refuse => Framed
  BY DEF Refuse, Framed, disk, memory
<1>3. KeepTruncate => Framed
  BY DEF KeepTruncate, Framed, memory
<1>4. KeepFill => Framed
  BY DEF KeepFill, Framed, memory
<1>5. KeepFails => Framed
  BY DEF KeepFails, Framed, disk, memory
<1>6. PassOver => Passed
  BY DEF PassOver, Passed, disk
<1>7. LookQuiet => Framed
  BY DEF LookQuiet, Framed, disk
<1>8. LookBusy => Framed
  BY DEF LookBusy, Framed, disk
<1>9. StillBusy => Rested
  BY DEF StillBusy, Leave, Rested, KeepsWhole, disk, Ended, Forgotten
<1>10. OnceFails => Missed
  BY DEF OnceFails, Missed, disk
<1>11. WriteStarts => Opened
  BY DEF WriteStarts, Opened, memory
<1>12. WriteDone => Finished
  BY DEF WriteDone, Finished
<1>13. WriteFails => Missed
  BY <1>r DEF WriteFails, Missed
<1>14. Note => Noted
  BY DEF Note, Noted
<1>15. NoteFails => Noted
  BY DEF NoteFails, Noted, disk
<1>16. Return => Rested
  BY DEF Return, Leave, Rested, KeepsWhole, disk, Ended, Forgotten
<1>17. ASSUME NEW c \in Cells, HandSkips(c)
       PROVE  Framed
  BY <1>17 DEF HandSkips, Framed, disk, memory
<1>18. ASSUME NEW c \in Cells, NEW force \in ForceFlags, HandStarts(c, force)
       PROVE  Rested
  BY <1>18, <1>r DEF HandStarts, Rested, Handled, HandTouches, memory
<1>19. HandDone => Rested
  BY <1>r DEF HandDone, Rested, KeepsWhole, Handled, HandTouches, memory
<1>20. HandFails => Rested
  BY <1>r DEF HandFails, Leave, Rested, KeepsWhole, Base, HandTorn, Handled, Forgotten, HandTouches
<1>21. Kill => Rested
  BY DEF Kill, Leave, Rested, KeepsWhole, disk, Ended, Handled, Forgotten, HandTouches
<1>22. UNCHANGED vars => Framed
  BY DEF vars, Framed, disk, memory
<1> QED
  BY <1>1, <1>2, <1>3, <1>4, <1>5, <1>6, <1>7, <1>8, <1>9, <1>10, <1>11, <1>12, <1>13,
     <1>14, <1>15, <1>16, <1>17, <1>18, <1>19, <1>20, <1>21, <1>22
  DEF Next, Operator, Session, Keep, Look, Attempt

LEMMA InitInv == Init => Inv
<1> SUFFICES ASSUME Init PROVE Inv
  OBVIOUS
<1>1. Base
  BY InitBase
<1>2. TriesAreCapped
  BY LimitsAssumption DEF Init, TriesAreCapped, Nothing
<1>3. Owed /\ ProvenIsOnDisk /\ GivenUpIsNamed /\ Accounted
  BY DEF Init, Owed, ProvenIsOnDisk, GivenUpIsNamed, Accounted
<1> QED
  BY <1>1, <1>2, <1>3 DEF Inv

\* The cell of an attempt was left to measure, and is still owed.
LEMMA HereIsOwed ==
  ASSUME Base, Owed, pc \in {"once", "write"}
  PROVE  /\ at \in 1..Len(Plan) /\ Here \in todo /\ Here \in Cells
         /\ runs[Here] # "whole" /\ failures.attempts[Here] < TRIES
<1>1. at \in 1..Len(Plan) /\ Here \in todo
  BY DEF Base, Attempted
<1>2. Here \in Cells /\ Here = Plan[at]
  BY <1>1, PlanFacts DEF Here
<1>3. Ahead(at)
  BY DEF Ahead
<1> QED
  BY <1>1, <1>2, <1>3 DEF Owed

LEMMA StepInv == Inv /\ [Next]_vars => Inv'
<1> SUFFICES ASSUME Inv, [Next]_vars PROVE Inv'
  OBVIOUS
<1>b. Base /\ Base'
  BY StepBase DEF Inv
<1>c. TriesAreCapped /\ Owed /\ ProvenIsOnDisk /\ GivenUpIsNamed /\ Accounted
  BY DEF Inv
<1>t. /\ failures \in Failures /\ recorded \in Failures
      /\ failures' \in Failures /\ recorded' \in Failures
      /\ runs \in [Cells -> FileState] /\ runs' \in [Cells -> FileState]
      /\ todo \subseteq Cells /\ at \in 1..(Len(Plan) + 1)
  BY <1>b DEF Base, TypeOK
<1>n. \A c \in Cells : failures.attempts[c] \in Nat /\ recorded.attempts[c] \in Nat
  BY <1>t DEF Failures
<1>z. Len(Plan) \in Nat /\ TRIES \in Nat /\ TRIES > 0
  BY LimitsAssumption, PlanFacts
<1>p. \A i \in 1..Len(Plan) : Plan[i] \in Cells
  BY PlanFacts
<1>u. \A i, j \in 1..Len(Plan) : Plan[i] = Plan[j] => i = j
  BY PlanAssumption
<1>1. CASE Begun
  <2>1. PICK mine \in (SUBSET Engines) \ {{}}, retry \in BOOLEAN : Start(mine, retry)
    BY <1>1 DEF Begun
  <2>2. /\ failures'.abandoned = {}
        /\ \A c \in Cells : \/ failures'.attempts[c] = 0
                            \/ failures'.attempts[c] = recorded.attempts[c]
        /\ \A c \in todo' : runs[c] # "whole" /\ failures'.attempts[c] < TRIES
        /\ \A c \in Cells : c.cache \in mine =>
             \/ runs[c] = "whole" /\ c.cache \in proven'
             \/ c \in todo'
             \/ failures'.attempts[c] >= TRIES
        /\ \A e \in proven' : \E c \in Cells : c.cache = e /\ runs[c] = "whole"
    BY <1>b, <2>1, StartEffect
  <2>3. /\ asked' = mine /\ at' = 1 /\ given_up' = {} /\ pc' = "keep"
        /\ runs' = runs /\ recorded' = recorded
    BY <2>1 DEF Start, disk
  <2>4. TriesAreCapped'
    BY <1>c, <1>z, <2>2, <2>3 DEF TriesAreCapped
  <2>5. Owed'
    BY <2>2, <2>3 DEF Owed
  <2>6. ProvenIsOnDisk' /\ GivenUpIsNamed'
    BY <2>2, <2>3 DEF ProvenIsOnDisk, GivenUpIsNamed
  <2>7. Accounted'
    <3> SUFFICES ASSUME NEW c \in Cells, c.cache \in mine
                 PROVE  AccountedFor(c)'
      BY <2>3 DEF Accounted
    <3>1. PICK i \in 1..Len(Plan) : Plan[i] = c
      BY PlanAssumption
    <3>2. Ahead(i)'
      BY <2>3, <1>z DEF Ahead
    <3>3. failures'.attempts[c] \in Nat
      BY <1>t DEF Failures
    <3> QED
      BY <2>2, <2>3, <3>1, <3>2, <3>3, <1>z DEF AccountedFor
  <2> QED
    BY <1>b, <2>4, <2>5, <2>6, <2>7 DEF Inv
<1>2. CASE Framed
  <2>1. /\ runs' = runs /\ asked' = asked /\ failures' = failures /\ todo' = todo
        /\ proven' = proven /\ given_up' = given_up /\ at' = at
        /\ recorded' \in {recorded, Nothing, failures}
        /\ pc' = "note" <=> pc = "note"
        /\ pc' \in {"idle", "hand"} <=> pc \in {"idle", "hand"}
    BY <1>2 DEF Framed, sweep, Outside
  <2>2. TriesAreCapped'
    BY <1>c, <1>z, <2>1 DEF TriesAreCapped, Nothing
  <2>3. \A i : Ahead(i)' <=> Ahead(i)
    BY <2>1 DEF Ahead
  <2>4. Owed'
    BY <1>c, <2>1, <2>3 DEF Owed
  <2>5. ProvenIsOnDisk' /\ GivenUpIsNamed'
    BY <1>c, <2>1 DEF ProvenIsOnDisk, GivenUpIsNamed
  <2>6. Accounted'
    BY <1>c, <2>1, <2>3 DEF Accounted, AccountedFor
  <2> QED
    BY <1>b, <2>2, <2>4, <2>5, <2>6 DEF Inv
<1>3. CASE Passed \/ Noted
  <2>1. /\ runs' = runs /\ asked' = asked /\ failures' = failures /\ todo' = todo
        /\ proven' = proven /\ given_up' = given_up /\ recorded' = recorded
        /\ at' = at + 1 /\ pc' # "note" /\ pc \notin {"idle", "hand"}
    BY <1>3 DEF Passed, Noted, sweep
  <2>2. TriesAreCapped' /\ ProvenIsOnDisk' /\ GivenUpIsNamed'
    BY <1>c, <2>1 DEF TriesAreCapped, ProvenIsOnDisk, GivenUpIsNamed
  <2>3. \A i \in 1..Len(Plan) : Ahead(i)' <=> i > at
    BY <1>t, <1>z, <2>1 DEF Ahead
  <2>4. Owed'
    BY <1>c, <2>1, <2>3 DEF Owed, Ahead
  <2>5. Accounted'
    <3> SUFFICES ASSUME NEW c \in Cells, c.cache \in asked
                 PROVE  AccountedFor(c)'
      BY <2>1 DEF Accounted
    <3>1. AccountedFor(c)
      BY <1>c, <2>1 DEF Accounted
    <3>2. CASE c \in todo /\ \E i \in 1..Len(Plan) : Ahead(i) /\ Plan[i] = c
      <4>1. PICK i \in 1..Len(Plan) : Ahead(i) /\ Plan[i] = c
        BY <3>2
      <4>2. CASE i > at
        BY <2>1, <2>3, <3>2, <4>1, <4>2 DEF AccountedFor
      <4>3. CASE i = at /\ pc # "note"
        <5>1. Here = c /\ Passed
          BY <1>3, <4>1, <4>3 DEF Here, Noted
        <5>2. c.cache \in given_up
          BY <3>2, <5>1 DEF Passed, Attempting
        <5> QED
          BY <1>c, <2>1, <5>2 DEF GivenUpIsNamed, AccountedFor
      <4> QED
        BY <4>1, <4>2, <4>3 DEF Ahead
    <3> QED
      BY <2>1, <3>1, <3>2 DEF AccountedFor
  <2> QED
    BY <1>b, <2>2, <2>4, <2>5 DEF Inv
<1>4. CASE Opened
  <2>1. /\ asked' = asked /\ failures' = failures /\ todo' = todo /\ at' = at
        /\ proven' = proven /\ given_up' = given_up /\ recorded' = recorded
        /\ pc = "once" /\ pc' = "write" /\ runs' = [runs EXCEPT ![Here] = "torn"]
    BY <1>4 DEF Opened, sweep
  <2>2. Here \in Cells /\ runs[Here] # "whole"
    BY <1>b, <1>c, <2>1, HereIsOwed
  <2>3. \A c \in Cells : runs'[c] = "whole" <=> runs[c] = "whole"
    BY <1>t, <2>1, <2>2
  <2>4. TriesAreCapped' /\ ProvenIsOnDisk' /\ GivenUpIsNamed'
    BY <1>c, <2>1, <2>3 DEF TriesAreCapped, ProvenIsOnDisk, GivenUpIsNamed
  <2>5. \A i : Ahead(i)' <=> Ahead(i)
    BY <2>1 DEF Ahead
  <2>6. Owed'
    BY <1>c, <1>p, <2>1, <2>3, <2>5 DEF Owed
  <2>7. Accounted'
    BY <1>c, <2>1, <2>3, <2>5 DEF Accounted, AccountedFor
  <2> QED
    BY <1>b, <2>4, <2>6, <2>7 DEF Inv
<1>5. CASE Missed
  <2>1. /\ asked' = asked /\ todo' = todo /\ at' = at /\ recorded' = recorded
        /\ pc \in {"once", "write"} /\ pc' = "note"
        /\ CountFailure(Here)
        /\ \A c \in Cells \ {Here} : runs'[c] = runs[c]
    BY <1>5 DEF Missed
  <2>2. /\ at \in 1..Len(Plan) /\ Here \in Cells /\ runs[Here] # "whole"
        /\ failures.attempts[Here] < TRIES
    BY <1>b, <1>c, <2>1, HereIsOwed
  <2>3. /\ failures'.attempts[Here] = failures.attempts[Here] + 1
        /\ \A d \in Cells \ {Here} : failures'.attempts[d] = failures.attempts[d]
        /\ proven' = proven
        /\ \/ given_up' = given_up /\ failures'.abandoned = failures.abandoned
           \/ /\ given_up' = given_up \cup {Here.cache}
              /\ failures'.abandoned = failures.abandoned \cup {Here.cache}
    BY <1>b, <2>1, <2>2, CountFailureEffect
  <2>4. TriesAreCapped'
    BY <1>c, <1>n, <1>z, <2>1, <2>2, <2>3 DEF TriesAreCapped
  <2>5. \A i \in 1..Len(Plan) : Ahead(i)' <=> i > at
    BY <2>1 DEF Ahead
  <2>6. \A i \in 1..Len(Plan) : i > at => Plan[i] \in Cells \ {Here} /\ Ahead(i)
    BY <1>p, <1>u, <2>2 DEF Here, Ahead
  <2>7. Owed'
    BY <1>c, <2>1, <2>3, <2>5, <2>6 DEF Owed
  <2>8. ProvenIsOnDisk' /\ GivenUpIsNamed'
    BY <1>c, <2>1, <2>2, <2>3 DEF ProvenIsOnDisk, GivenUpIsNamed
  <2>9. Accounted'
    <3> SUFFICES ASSUME NEW c \in Cells, c.cache \in asked
                 PROVE  AccountedFor(c)'
      BY <2>1 DEF Accounted
    <3>1. AccountedFor(c)
      BY <1>c, <2>1 DEF Accounted
    <3>2. CASE c = Here
      BY <1>n, <2>2, <2>3, <3>2 DEF AccountedFor
    <3>3. CASE c # Here
      <4>1. \A i \in 1..Len(Plan) : Ahead(i) /\ Plan[i] = c => i > at
        BY <3>3 DEF Ahead, Here
      <4> QED
        BY <2>1, <2>3, <2>5, <3>1, <3>3, <4>1 DEF AccountedFor
    <3> QED
      BY <3>2, <3>3
  <2> QED
    BY <1>b, <2>4, <2>7, <2>8, <2>9 DEF Inv
<1>6. CASE Finished
  <2>1. /\ asked' = asked /\ todo' = todo /\ at' = at /\ recorded' = recorded
        /\ pc = "write" /\ pc' = "note"
        /\ CountMeasured(Here)
        /\ runs' = [runs EXCEPT ![Here] = "whole"]
    BY <1>6 DEF Finished
  <2>2. at \in 1..Len(Plan) /\ Here \in Cells
    BY <1>b, <1>c, <2>1, HereIsOwed
  <2>3. /\ failures'.abandoned = failures.abandoned
        /\ failures'.attempts[Here] = 0
        /\ \A d \in Cells \ {Here} : failures'.attempts[d] = failures.attempts[d]
        /\ proven' = proven \cup {Here.cache}
        /\ given_up' = given_up
    BY <1>b, <2>1, <2>2, CountMeasuredEffect
  <2>r. /\ runs'[Here] = "whole"
        /\ \A c \in Cells \ {Here} : runs'[c] = runs[c]
    BY <1>t, <2>1, <2>2
  <2>4. TriesAreCapped'
    BY <1>c, <1>z, <2>1, <2>3 DEF TriesAreCapped
  <2>5. \A i \in 1..Len(Plan) : Ahead(i)' <=> i > at
    BY <2>1 DEF Ahead
  <2>6. \A i \in 1..Len(Plan) : i > at => Plan[i] \in Cells \ {Here} /\ Ahead(i)
    BY <1>p, <1>u, <2>2 DEF Here, Ahead
  <2>7. Owed'
    BY <1>c, <2>1, <2>3, <2>5, <2>6, <2>r DEF Owed
  <2>8. ProvenIsOnDisk' /\ GivenUpIsNamed'
    BY <1>c, <2>2, <2>3, <2>r DEF ProvenIsOnDisk, GivenUpIsNamed
  <2>9. Accounted'
    <3> SUFFICES ASSUME NEW c \in Cells, c.cache \in asked
                 PROVE  AccountedFor(c)'
      BY <2>1 DEF Accounted
    <3>1. AccountedFor(c)
      BY <1>c, <2>1 DEF Accounted
    <3>2. CASE c = Here
      BY <2>r, <3>2 DEF AccountedFor
    <3>3. CASE c # Here
      <4>1. \A i \in 1..Len(Plan) : Ahead(i) /\ Plan[i] = c => i > at
        BY <3>3 DEF Ahead, Here
      <4> QED
        BY <2>1, <2>3, <2>5, <2>r, <3>1, <3>3, <4>1 DEF AccountedFor
    <3> QED
      BY <3>2, <3>3
  <2> QED
    BY <1>b, <2>4, <2>7, <2>8, <2>9 DEF Inv
<1>7. CASE Rested
  <2>1. recorded' = recorded /\ pc' \in {"idle", "hand"}
    BY <1>7 DEF Rested, Outside
  <2>2. todo' = {} /\ failures' = Nothing /\ proven' = {} /\ given_up' = {}
    BY <1>b, <2>1 DEF Base, Resting
  <2>3. TriesAreCapped'
    BY <1>c, <1>z, <2>1, <2>2 DEF TriesAreCapped, Nothing
  <2>4. Owed' /\ ProvenIsOnDisk' /\ GivenUpIsNamed' /\ Accounted'
    BY <2>1, <2>2 DEF Owed, ProvenIsOnDisk, GivenUpIsNamed, Accounted
  <2> QED
    BY <1>b, <2>3, <2>4 DEF Inv
<1> QED
  BY <1>1, <1>2, <1>3, <1>4, <1>5, <1>6, <1>7, <1>b, StepKinds

LEMMA InvAlways == Spec => []Inv
<1>1. Init => Inv
  BY InitInv
<1>2. Inv /\ [Next]_vars => Inv'
  BY StepInv
<1> QED
  BY <1>1, <1>2, PTL DEF Spec

-----------------------------------------------------------------------------
(***************************************************************************)
(* What follows.                                                           *)
(***************************************************************************)

\* No cell is ever attempted past its tries, here or on the disk.
THEOREM TriesCapped == Spec => []TriesAreCapped
<1>1. Inv => TriesAreCapped
  BY DEF Inv
<1> QED
  BY <1>1, InvAlways, PTL

\* An engine taken to run on this machine has a whole file to show for it.
THEOREM ProvenOnDisk == Spec => []ProvenIsOnDisk
<1>1. Inv => ProvenIsOnDisk
  BY DEF Inv
<1> QED
  BY <1>1, InvAlways, PTL

\* A sweep, killed and restarted however often, never truncates a whole file.
THEOREM WholeFilesKept == Spec => WholeFilesAreKept
<1> DEFINE Safe == \A c \in Cells : runs[c] = "whole" /\ runs'[c] # "whole" => pc = "idle"
<1>1. ASSUME Inv, [Next]_vars
      PROVE  Safe
  <2>1. Base /\ Owed /\ runs \in [Cells -> FileState]
    BY <1>1 DEF Inv, Base, TypeOK
  <2>2. \/ Begun \/ Framed \/ Passed \/ Noted
        \/ Opened \/ Missed \/ Finished \/ Rested
    BY <1>1, <2>1, StepKinds
  <2>3. CASE Begun \/ Framed \/ Passed \/ Noted
    BY <2>3 DEF Begun, Start, Framed, Passed, Noted, disk
  <2>4. CASE Opened \/ Missed \/ Finished
    <3>1. runs[Here] # "whole"
      BY <2>1, <2>4, HereIsOwed DEF Opened, Missed, Finished
    <3>2. \A c \in Cells \ {Here} : runs'[c] = runs[c]
      BY <2>1, <2>4 DEF Opened, Missed, Finished
    <3> QED
      BY <3>1, <3>2
  <2>5. CASE Rested
    BY <2>5 DEF Rested, KeepsWhole
  <2> QED
    BY <2>2, <2>3, <2>4, <2>5
<1>2. Inv /\ [Next]_vars => [Safe]_vars
  BY <1>1
<1> QED
  BY <1>2, InvAlways, PTL DEF Spec, WholeFilesAreKept

-----------------------------------------------------------------------------
(***************************************************************************)
(* What a sweep reports.                                                   *)
(***************************************************************************)

\* A process that is still running has reported nothing.
Unreported == pc # "idle" => exit = "none"

\* Any step that is not the return of a sweep reports neither of its results.
LEMMA OnlyReturnReports ==
  ASSUME Unreported, [Next]_vars
  PROVE  /\ Unreported'
         /\ pc # "idle" /\ exit' \in {"ok", "missing"}
              => Return
<1>1. CASE Return
  BY <1>1 DEF Return, Leave, Unreported
<1>2. CASE Operator
  BY <1>2 DEF Operator, Start, Refuse, HandSkips, HandStarts, Unreported
<1>3. CASE Keep \/ PassOver \/ Note \/ NoteFails
  BY <1>3 DEF Keep, KeepTruncate, KeepFill, KeepFails, PassOver, Note, NoteFails, Unreported
<1>4. CASE Look
  BY <1>4 DEF Look, LookQuiet, LookBusy, StillBusy, Leave, Unreported
<1>5. CASE Attempt
  BY <1>5 DEF Attempt, OnceFails, WriteStarts, WriteDone, WriteFails, Unreported
<1>6. CASE HandDone \/ HandFails \/ Kill
  BY <1>6 DEF HandDone, HandFails, Kill, Leave, Unreported
<1>7. CASE UNCHANGED vars
  BY <1>7 DEF vars, Unreported
<1> QED
  BY <1>1, <1>2, <1>3, <1>4, <1>5, <1>6, <1>7 DEF Next, Session

LEMMA UnreportedAlways == Spec => []Unreported
<1>1. Init => Unreported
  BY DEF Init, Unreported
<1>2. Unreported /\ [Next]_vars => Unreported'
  BY OnlyReturnReports
<1> QED
  BY <1>1, <1>2, PTL DEF Spec

\* At the end of the matrix nothing is ahead, so everything is accounted for.
LEMMA EndAccounts ==
  ASSUME Inv, Return, NEW c \in Cells, c.cache \in asked
  PROVE  \/ runs[c] = "whole"
         \/ failures.attempts[c] > 0
         \/ c.cache \in failures.abandoned
<1>1. pc = "next" /\ at > Len(Plan)
  BY DEF Return
<1>2. AccountedFor(c)
  BY <1>1 DEF Inv, Accounted
<1>3. at \in 1..(Len(Plan) + 1) /\ Len(Plan) \in Nat
  BY PlanFacts DEF Inv, Base, TypeOK
<1>4. \A i \in 1..Len(Plan) : ~Ahead(i)
  BY <1>1, <1>3 DEF Ahead
<1> QED
  BY <1>2, <1>4 DEF AccountedFor

\* A sweep names every hole it leaves in what it was asked for.
THEOREM HolesNamed == Spec => HolesAreNamed
<1> DEFINE Named == pc # "idle" /\ exit' \in {"ok", "missing"}
                      => \A c \in Cells :
                           c.cache \in asked => \/ runs[c] = "whole"
                                                \/ failures.attempts[c] > 0
                                                \/ c.cache \in failures.abandoned
<1>1. Inv /\ Unreported /\ [Next]_vars => Named
  BY OnlyReturnReports, EndAccounts
<1>2. Inv /\ Unreported /\ [Next]_vars => [Named]_vars
  BY <1>1
<1> QED
  BY <1>2, InvAlways, UnreportedAlways, PTL DEF Spec, HolesAreNamed

\* A sweep that reports success left a whole file for every cell asked for.
THEOREM OkIsMeasured == Spec => OkMeansMeasured
<1> DEFINE Whole == pc # "idle" /\ exit' = "ok"
                      => \A c \in Cells : c.cache \in asked => runs[c] = "whole"
<1>1. ASSUME Inv, Unreported, [Next]_vars
      PROVE  Whole
  <2> SUFFICES ASSUME pc # "idle", exit' = "ok", NEW c \in Cells, c.cache \in asked
               PROVE  runs[c] = "whole"
    OBVIOUS
  <2>1. Return
    BY <1>1, OnlyReturnReports
  <2>2. is_empty(failures)
    BY <2>1 DEF Return, Leave
  <2>3. failures.attempts[c] = 0 /\ failures.abandoned = {}
    BY <2>2 DEF is_empty
  <2> QED
    BY <1>1, <2>1, <2>3, EndAccounts
<1>2. Inv /\ Unreported /\ [Next]_vars => [Whole]_vars
  BY <1>1
<1> QED
  BY <1>2, InvAlways, UnreportedAlways, PTL DEF Spec, OkMeansMeasured

-----------------------------------------------------------------------------
(***************************************************************************)
(* What the journal says, where no write fails.                            *)
(***************************************************************************)

\* A counted failure has its line, or is the one whose line comes next.
Noticed ==
  /\ JournalNamesEveryFailure
  /\ \A c \in Cells :
       failures.attempts[c] > 0 => c \in journal \/ (pc = "note" /\ c = Here)

LEMMA StepNoticed ==
  ASSUME "write" \notin Faults, Inv, Noticed, [Next]_vars
  PROVE  Noticed'
<1>b. Base /\ Base' /\ Owed
  BY StepBase DEF Inv
<1>t. /\ failures \in Failures /\ recorded \in Failures /\ recorded' \in Failures
      /\ failures' \in Failures
  BY <1>b DEF Base, TypeOK
<1>j. /\ \A c \in Cells : recorded.attempts[c] > 0 => c \in journal
      /\ \A c \in Cells :
           failures.attempts[c] > 0 => c \in journal \/ (pc = "note" /\ c = Here)
  BY DEF Noticed, JournalNamesEveryFailure
<1>n. \A c \in Cells : Nothing.attempts[c] = 0
  BY DEF Nothing
<1> USE DEF Noticed, JournalNamesEveryFailure
<1>1. ASSUME NEW mine \in (SUBSET Engines) \ {{}}, NEW retry \in RetryFlags, Start(mine, retry)
      PROVE  Noticed'
  <2>1. mine \in SUBSET Engines /\ retry \in BOOLEAN
    BY <1>1, LimitsAssumption
  <2>2. \A c \in Cells : \/ failures'.attempts[c] = 0
                         \/ failures'.attempts[c] = recorded.attempts[c]
    BY <1>1, <1>b, <2>1, StartEffect
  <2>3. recorded' = recorded /\ journal' = journal
    BY <1>1 DEF Start, disk
  <2> QED
    BY <1>j, <2>2, <2>3
<1>2. CASE Refuse \/ PassOver \/ LookQuiet \/ LookBusy \/ HandDone
  <2>1. recorded' = recorded /\ journal' = journal /\ failures' = failures /\ pc # "note"
    BY <1>2 DEF Refuse, PassOver, LookQuiet, LookBusy, HandDone, disk, memory
  <2> QED
    BY <1>j, <2>1
<1>3. CASE KeepTruncate \/ KeepFill
  <2>1. /\ journal' = journal /\ failures' = failures /\ pc # "note"
        /\ recorded' = Nothing \/ recorded' = failures
    BY <1>3 DEF KeepTruncate, KeepFill, memory
  <2> QED
    BY <1>j, <1>n, <2>1
<1>4. CASE StillBusy \/ Return \/ Kill
  <2>1. recorded' = recorded /\ journal' = journal /\ failures' = Nothing
    BY <1>4 DEF StillBusy, Return, Kill, Leave, disk
  <2> QED
    BY <1>j, <1>n, <2>1
<1>5. CASE OnceFails
  <2>1. Here \in Cells /\ pc = "once"
    BY <1>5, <1>b, HereIsOwed DEF OnceFails
  <2>2. /\ \A d \in Cells \ {Here} : failures'.attempts[d] = failures.attempts[d]
        /\ recorded' = recorded /\ journal' = journal /\ pc' = "note" /\ Here' = Here
    BY <1>5, <1>b, <2>1, CountFailureEffect DEF OnceFails, disk, Here
  <2> QED
    BY <1>j, <2>1, <2>2
<1>6. CASE WriteStarts
  <2>1. recorded' = recorded /\ journal' = journal /\ failures' = failures /\ pc # "note"
    BY <1>6 DEF WriteStarts, memory
  <2> QED
    BY <1>j, <2>1
<1>7. CASE WriteDone
  <2>1. Here \in Cells /\ pc = "write"
    BY <1>7, <1>b, HereIsOwed DEF WriteDone
  <2>2. /\ \A d \in Cells \ {Here} : failures'.attempts[d] = failures.attempts[d]
        /\ failures'.attempts[Here] = 0
        /\ recorded' = recorded /\ journal' = journal
    BY <1>7, <1>b, <2>1, CountMeasuredEffect DEF WriteDone
  <2> QED
    BY <1>j, <2>1, <2>2
<1>8. CASE Note
  <2>1. /\ journal' = journal \cup {Here} /\ recorded' = recorded /\ failures' = failures
    BY <1>8 DEF Note
  <2> QED
    BY <1>j, <2>1
<1>9. ~KeepFails /\ ~WriteFails /\ ~NoteFails /\ ~HandFails
  BY DEF KeepFails, WriteFails, NoteFails, HandFails, Fault
<1>10. ASSUME NEW c \in Cells, HandSkips(c) PROVE Noticed'
  <2>1. recorded' = recorded /\ journal' = journal /\ failures' = failures /\ pc # "note"
    BY <1>10 DEF HandSkips, disk, memory
  <2> QED
    BY <1>j, <2>1
<1>11. ASSUME NEW c \in Cells, NEW force \in ForceFlags, HandStarts(c, force) PROVE Noticed'
  <2>1. recorded' = recorded /\ journal' = journal /\ failures' = failures /\ pc # "note"
    BY <1>11 DEF HandStarts, memory
  <2> QED
    BY <1>j, <2>1
<1>12. CASE UNCHANGED vars
  <2>1. /\ recorded' = recorded /\ journal' = journal /\ failures' = failures
        /\ pc' = pc /\ Here' = Here
    BY <1>12 DEF vars, disk, memory, Here
  <2> QED
    BY <1>j, <2>1
<1> QED
  BY <1>1, <1>2, <1>3, <1>4, <1>5, <1>6, <1>7, <1>8, <1>9, <1>10, <1>11, <1>12
  DEF Next, Operator, Session, Keep, Look, Attempt

\* Killed wherever it is, a sweep whose writes succeed never has a failure in
\* failures.json that the journal does not tell of.
THEOREM FailuresAreJournalled ==
  ASSUME "write" \notin Faults
  PROVE  Spec => []JournalNamesEveryFailure
<1>1. Init => Noticed
  BY DEF Init, Noticed, JournalNamesEveryFailure, Nothing
<1>2. Inv /\ Noticed /\ [Next]_vars => Noticed'
  BY StepNoticed
<1>3. Noticed => JournalNamesEveryFailure
  BY DEF Noticed
<1> QED
  BY <1>1, <1>2, <1>3, InvAlways, PTL DEF Spec

-----------------------------------------------------------------------------
(***************************************************************************)
(* The sweep implements the campaign, for every plan, every limit and any  *)
(* number of kills and failed writes.                                      *)
(*                                                                         *)
(* Beside what carries its safety (Inv), the simulation needs to know why  *)
(* an engine is put down: that the failures in a row are failures of       *)
(* different cells of one engine behind the place in the plan, and that an *)
(* engine with a measurement is known to run.                              *)
(***************************************************************************)

\* A session sweeps some engine, and nothing is swept between sessions.
Asking == asked = {} <=> Outside(pc)

\* What is left to measure was asked for.
TodoIsAsked == \A c \in todo : c.cache \in asked

\* An attempt is at a cell whose engine has not been put down.
AttemptIsOpen == pc \in {"once", "write"} => Attempting

\* The failure file and the loop agree on what has been put down.
DownIsNamed == failures.abandoned = given_up

\* An engine that was asked for and has a measurement is known to run.
MeasuredIsProven ==
  ~Outside(pc) => \A c \in Cells :
    c.cache \in asked /\ runs[c] = "whole" /\ failures.attempts[c] = 0
      => c.cache \in proven

\* The cells of the engine that failed last that have failed and are behind.
Behind(c) == \E i \in 1..Len(Plan) : ~Ahead(i) /\ Plan[i] = c
Streak == {c \in Cells : c.cache \in last /\ failures.attempts[c] > 0 /\ Behind(c)}

StreakIsOwn ==
  /\ last = {} \/ \E e \in Engines : last = {e}
  /\ Outside(pc) \/ in_a_row <= Cardinality(Streak)

\* The file written by hand is one cell's.
HandIsOne == pc = "hand" => \E c \in Cells : target = {c}

Known ==
  Asking /\ TodoIsAsked /\ AttemptIsOpen /\ DownIsNamed /\ MeasuredIsProven
         /\ StreakIsOwn /\ HandIsOne

-----------------------------------------------------------------------------

LEMMA CellsFinite == IsFiniteSet(Cells)
<1>1. Len(Plan) \in Nat
  BY PlanFacts
<1>2. IsFiniteSet(1..Len(Plan))
  BY <1>1, FS_Interval
<1>3. Plan \in [1..Len(Plan) -> Cells]
  BY PlanAssumption
<1>4. Plan \in Surjection(1..Len(Plan), Cells)
  BY <1>3, PlanAssumption DEF Surjection
<1> QED
  BY <1>2, <1>4, FS_Surjection

LEMMA StreakFinite == IsFiniteSet(Streak) /\ IsFiniteSet(Streak')
  BY CellsFinite, FS_Subset DEF Streak

LEMMA InitKnown == Init => Known
<1> SUFFICES ASSUME Init PROVE Known
  OBVIOUS
<1>1. Asking /\ TodoIsAsked /\ AttemptIsOpen /\ HandIsOne
  BY DEF Init, Asking, Outside, TodoIsAsked, AttemptIsOpen, HandIsOne
<1>2. DownIsNamed /\ MeasuredIsProven /\ StreakIsOwn
  BY DEF Init, Nothing, Outside, DownIsNamed, MeasuredIsProven, StreakIsOwn
<1> QED
  BY <1>1, <1>2 DEF Known

\* When a failed attempt puts its engine down.
LEMMA FailureInARow ==
  ASSUME Base, NEW c \in Cells, CountFailure(c)
  PROVE  /\ last' = {c.cache}
         /\ in_a_row' = IF c.cache \in last THEN in_a_row + 1 ELSE 1
         /\ \/ given_up' = given_up /\ failures'.abandoned = failures.abandoned
            \/ in_a_row' >= GIVE_UP /\ c.cache \notin proven
<1>1. failed(failures, c).abandoned = failures.abandoned
  BY FailedEffect DEF Base, TypeOK
<1>2. last' = {c.cache} /\ in_a_row' = IF c.cache \in last THEN in_a_row + 1 ELSE 1
  BY DEF CountFailure
<1>3. \/ given_up' = given_up /\ failures' = failed(failures, c)
      \/ in_a_row' >= GIVE_UP /\ c.cache \notin proven
  BY <1>2 DEF CountFailure, put_down
<1> QED
  BY <1>1, <1>2, <1>3

\* The sorting out at the start of a session, in full.
LEMMA SortedOut ==
  ASSUME Base, NEW mine \in SUBSET Engines, NEW retry \in BOOLEAN, Start(mine, retry)
  PROVE  \E past \in {recorded.attempts, [c \in Cells |-> 0]} :
           /\ failures'.attempts = [c \in Cells |->
                IF runs[c] = "whole" /\ c.cache \in mine THEN 0 ELSE past[c]]
           /\ failures'.abandoned = {}
           /\ todo' = {c \in Cells : runs[c] # "whole" /\ c.cache \in mine
                                       /\ failures'.attempts[c] < TRIES}
           /\ proven' = {c.cache : c \in {d \in Cells : runs[d] = "whole" /\ d.cache \in mine}}
<1> DEFINE r == reconsider(recorded)
           f == IF retry THEN try_again(r) ELSE r
           here == {c \in Cells : c.cache \in mine}
           kept == {c \in here : done(c)}
<1>1. recorded \in Failures
  BY DEF Base, TypeOK
<1>2. r = [attempts |-> recorded.attempts, abandoned |-> {}]
  BY <1>1 DEF reconsider, Failures
<1>3. f = [attempts |-> IF retry THEN [c \in Cells |-> 0] ELSE recorded.attempts,
           abandoned |-> {}]
  BY <1>2 DEF try_again
<1>4. /\ failures' = measured(f, kept)
      /\ proven' = {c.cache : c \in kept}
      /\ todo' = {c \in here \ kept : worth_trying(f, c)}
  BY DEF Start, WhatsLeft
<1>5. PICK past \in {recorded.attempts, [c \in Cells |-> 0]} :
        f = [attempts |-> past, abandoned |-> {}]
  BY <1>3
<1> HIDE DEF f, r
<1>6. /\ failures'.attempts = [c \in Cells |-> IF c \in kept THEN 0 ELSE past[c]]
      /\ failures'.abandoned = {}
  BY <1>4, <1>5 DEF measured
<1>7. kept = {d \in Cells : runs[d] = "whole" /\ d.cache \in mine}
  BY DEF done
<1>8. todo' = {c \in Cells : runs[c] # "whole" /\ c.cache \in mine /\ past[c] < TRIES}
  BY <1>4, <1>5 DEF worth_trying, done
<1>9. \A c \in Cells : runs[c] # "whole" => failures'.attempts[c] = past[c]
  BY <1>6, <1>7
<1> QED
  BY <1>4, <1>6, <1>7, <1>8, <1>9

LEMMA StepKnown == Inv /\ Known /\ [Next]_vars => Known'
<1> SUFFICES ASSUME Inv, Known, [Next]_vars PROVE Known'
  OBVIOUS
<1>b. /\ Base /\ Base' /\ Inv' /\ Owed /\ GivenUpIsNamed
      /\ Asking /\ TodoIsAsked /\ AttemptIsOpen /\ DownIsNamed /\ MeasuredIsProven
      /\ StreakIsOwn /\ HandIsOne
  BY StepInv DEF Inv, Known
<1>t. /\ failures \in Failures /\ failures' \in Failures
      /\ runs \in [Cells -> FileState] /\ todo \subseteq Cells
      /\ at \in 1..(Len(Plan) + 1) /\ in_a_row \in Nat /\ Len(Plan) \in Nat
  BY <1>b, PlanFacts DEF Base, TypeOK
<1>n. \A c \in Cells : failures.attempts[c] \in Nat /\ failures'.attempts[c] \in Nat
  BY <1>t DEF Failures
<1>p. \A i \in 1..Len(Plan) : Plan[i] \in Cells /\ Plan[i].cache \in Engines
  BY PlanFacts
<1>f. Cardinality(Streak) \in Nat /\ Cardinality(Streak') \in Nat
  BY StreakFinite, FS_CardinalityType
<1>1. CASE Begun
  <2>1. PICK mine \in (SUBSET Engines) \ {{}}, retry \in BOOLEAN : Start(mine, retry)
    BY <1>1 DEF Begun
  <2>2. /\ asked' = mine /\ given_up' = {} /\ pc' = "keep" /\ in_a_row' = 0 /\ last' = {}
        /\ runs' = runs
    BY <2>1 DEF Start, disk
  <2>s. mine \in SUBSET Engines /\ mine # {}
    BY <2>1
  <2>3. PICK past \in {recorded.attempts, [c \in Cells |-> 0]} :
          /\ failures'.attempts = [c \in Cells |->
               IF runs[c] = "whole" /\ c.cache \in mine THEN 0 ELSE past[c]]
          /\ failures'.abandoned = {}
          /\ todo' = {c \in Cells : runs[c] # "whole" /\ c.cache \in mine
                                      /\ failures'.attempts[c] < TRIES}
          /\ proven' = {c.cache : c \in {d \in Cells : runs[d] = "whole" /\ d.cache \in mine}}
    BY <1>b, <2>1, <2>s, SortedOut
  <2>4. Asking' /\ AttemptIsOpen' /\ HandIsOne'
    BY <2>2, <2>s DEF Asking, AttemptIsOpen, HandIsOne, Outside
  <2>7. TodoIsAsked' /\ DownIsNamed'
    BY <2>2, <2>3 DEF TodoIsAsked, DownIsNamed
  <2>5. MeasuredIsProven'
    BY <2>2, <2>3 DEF MeasuredIsProven
  <2>6. StreakIsOwn'
    BY <1>f, <2>2 DEF StreakIsOwn
  <2> QED
    BY <2>4, <2>5, <2>6, <2>7 DEF Known
<1>2. CASE Framed
  <2>1. /\ runs' = runs /\ asked' = asked /\ failures' = failures /\ todo' = todo
        /\ proven' = proven /\ given_up' = given_up /\ at' = at
        /\ in_a_row' = in_a_row /\ last' = last
        /\ pc' = "note" <=> pc = "note"
        /\ Outside(pc') <=> Outside(pc)
        /\ pc' \in {"once", "write"} => pc' = pc \/ Attempting
    BY <1>2 DEF Framed, sweep
  <2>2. Asking' /\ TodoIsAsked' /\ DownIsNamed' /\ MeasuredIsProven'
    BY <1>b, <2>1 DEF Asking, TodoIsAsked, DownIsNamed, MeasuredIsProven
  <2>3. AttemptIsOpen'
    BY <1>b, <2>1 DEF AttemptIsOpen, Attempting, Here
  <2>4. Streak' = Streak
    BY <2>1 DEF Streak, Behind, Ahead
  <2>5. StreakIsOwn'
    BY <1>b, <2>1, <2>4 DEF StreakIsOwn
  <2>6. HandIsOne'
    BY <1>b, <1>2 DEF Framed, HandIsOne
  <2> QED
    BY <2>2, <2>3, <2>5, <2>6 DEF Known
<1>3. CASE Passed \/ Noted
  <2>1. /\ runs' = runs /\ asked' = asked /\ failures' = failures /\ todo' = todo
        /\ proven' = proven /\ given_up' = given_up
        /\ in_a_row' = in_a_row /\ last' = last /\ at' = at + 1
        /\ pc' \in {"next", "keep"} /\ ~Outside(pc)
    BY <1>3 DEF Passed, Noted, sweep, Outside
  <2>2. Asking' /\ TodoIsAsked' /\ DownIsNamed' /\ MeasuredIsProven'
    BY <1>b, <2>1 DEF Asking, TodoIsAsked, DownIsNamed, MeasuredIsProven, Outside
  <2>3. AttemptIsOpen' /\ HandIsOne'
    BY <2>1 DEF AttemptIsOpen, HandIsOne
  <2>4. \A i \in 1..Len(Plan) : ~Ahead(i) => ~Ahead(i)'
    BY <1>t, <2>1 DEF Ahead
  <2>5. Streak \subseteq Streak'
    BY <2>1, <2>4 DEF Streak, Behind
  <2>6. Cardinality(Streak) <= Cardinality(Streak')
    BY <2>5, StreakFinite, FS_Subset
  <2>7. StreakIsOwn'
    BY <1>b, <1>t, <1>f, <2>1, <2>6 DEF StreakIsOwn
  <2> QED
    BY <2>2, <2>3, <2>7 DEF Known
<1>4. CASE Opened
  <2>1. /\ asked' = asked /\ failures' = failures /\ todo' = todo /\ at' = at
        /\ proven' = proven /\ given_up' = given_up
        /\ in_a_row' = in_a_row /\ last' = last
        /\ pc = "once" /\ pc' = "write" /\ runs' = [runs EXCEPT ![Here] = "torn"]
    BY <1>4 DEF Opened, sweep
  <2>2. \A c \in Cells : runs'[c] = "whole" => runs[c] = "whole"
    BY <1>t, <2>1
  <2>3. Asking' /\ TodoIsAsked' /\ DownIsNamed' /\ HandIsOne'
    BY <1>b, <2>1 DEF Asking, TodoIsAsked, DownIsNamed, HandIsOne, Outside
  <2>4. AttemptIsOpen'
    BY <1>b, <2>1 DEF AttemptIsOpen, Attempting, Here
  <2>5. MeasuredIsProven'
    BY <1>b, <2>1, <2>2 DEF MeasuredIsProven, Outside
  <2>6. Streak' = Streak
    BY <2>1 DEF Streak, Behind, Ahead
  <2>7. StreakIsOwn'
    BY <1>b, <2>1, <2>6 DEF StreakIsOwn, Outside
  <2> QED
    BY <2>3, <2>4, <2>5, <2>7 DEF Known
<1>h. ASSUME pc \in {"once", "write"}
      PROVE  /\ at \in 1..Len(Plan) /\ Here \in todo /\ Here \in Cells
             /\ Here.cache \in Engines /\ Here = Plan[at]
  BY <1>h, <1>b, <1>p, HereIsOwed DEF Here
<1>5. CASE Missed
  <2>1. /\ asked' = asked /\ todo' = todo /\ at' = at
        /\ pc \in {"once", "write"} /\ pc' = "note"
        /\ CountFailure(Here)
        /\ \A c \in Cells \ {Here} : runs'[c] = runs[c]
    BY <1>5 DEF Missed
  <2>2. /\ at \in 1..Len(Plan) /\ Here \in todo /\ Here \in Cells
        /\ Here.cache \in Engines /\ Here = Plan[at]
    BY <1>h, <2>1
  <2>3. /\ failures'.attempts[Here] = failures.attempts[Here] + 1
        /\ \A d \in Cells \ {Here} : failures'.attempts[d] = failures.attempts[d]
        /\ proven' = proven
        /\ \/ given_up' = given_up /\ failures'.abandoned = failures.abandoned
           \/ /\ given_up' = given_up \cup {Here.cache}
              /\ failures'.abandoned = failures.abandoned \cup {Here.cache}
    BY <1>b, <2>1, <2>2, CountFailureEffect
  <2>4. /\ last' = {Here.cache}
        /\ in_a_row' = IF Here.cache \in last THEN in_a_row + 1 ELSE 1
    BY <1>b, <2>1, <2>2, FailureInARow
  <2>5. Asking' /\ TodoIsAsked' /\ AttemptIsOpen' /\ HandIsOne'
    BY <1>b, <2>1 DEF Asking, TodoIsAsked, AttemptIsOpen, HandIsOne, Outside
  <2>6. DownIsNamed'
    BY <1>b, <2>3 DEF DownIsNamed
  <2>7. MeasuredIsProven'
    BY <1>b, <1>n, <2>1, <2>2, <2>3 DEF MeasuredIsProven, Outside
  <2>8. StreakIsOwn'
    <3>1. Here \notin Streak
      <4>1. \A i \in 1..Len(Plan) : Plan[i] = Here => Ahead(i)
        BY <2>1, <2>2, PlanAssumption DEF Ahead
      <4> QED
        BY <4>1 DEF Streak, Behind
    <3>2. Here \in Streak'
      <4>1. ~Ahead(at)'
        BY <1>t, <2>1 DEF Ahead
      <4> QED
        BY <1>n, <2>1, <2>2, <2>3, <2>4, <4>1 DEF Streak, Behind
    <3>3. CASE Here.cache \in last
      <4>1. last = {Here.cache}
        BY <1>b, <3>3 DEF StreakIsOwn
      <4>2. \A i \in 1..Len(Plan) : ~Ahead(i) => ~Ahead(i)'
        BY <1>t, <2>1 DEF Ahead
      <4>3. Streak \cup {Here} \subseteq Streak'
        BY <2>3, <2>4, <3>1, <3>2, <4>1, <4>2 DEF Streak, Behind
      <4>4. Cardinality(Streak \cup {Here}) = Cardinality(Streak) + 1
        BY <3>1, StreakFinite, FS_AddElement
      <4>5. Cardinality(Streak \cup {Here}) <= Cardinality(Streak')
        BY <4>3, StreakFinite, FS_Subset
      <4>6. in_a_row <= Cardinality(Streak)
        BY <1>b, <2>1 DEF StreakIsOwn, Outside
      <4>7. in_a_row + 1 <= Cardinality(Streak')
        BY <1>f, <1>t, <4>4, <4>5, <4>6
      <4> QED
        BY <2>2, <2>4, <3>3, <4>7 DEF StreakIsOwn
    <3>4. CASE Here.cache \notin last
      <4>1. Streak' # {}
        BY <3>2
      <4>2. Cardinality(Streak') # 0
        BY <4>1, StreakFinite, FS_EmptySet
      <4>3. 1 <= Cardinality(Streak')
        BY <1>f, <4>2
      <4> QED
        BY <2>2, <2>4, <3>4, <4>3 DEF StreakIsOwn
    <3> QED
      BY <3>3, <3>4
  <2> QED
    BY <2>5, <2>6, <2>7, <2>8 DEF Known
<1>6. CASE Finished
  <2>1. /\ asked' = asked /\ todo' = todo /\ at' = at
        /\ pc = "write" /\ pc' = "note"
        /\ CountMeasured(Here)
        /\ runs' = [runs EXCEPT ![Here] = "whole"]
    BY <1>6 DEF Finished
  <2>2. Here \in Cells
    BY <1>h, <2>1
  <2>3. /\ failures'.abandoned = failures.abandoned
        /\ failures'.attempts[Here] = 0
        /\ \A d \in Cells \ {Here} : failures'.attempts[d] = failures.attempts[d]
        /\ proven' = proven \cup {Here.cache}
        /\ given_up' = given_up /\ in_a_row' = 0 /\ last' = last
    BY <1>b, <2>1, <2>2, CountMeasuredEffect
  <2>r. \A c \in Cells \ {Here} : runs'[c] = runs[c]
    BY <1>t, <2>1, <2>2
  <2>4. Asking' /\ TodoIsAsked' /\ AttemptIsOpen' /\ DownIsNamed' /\ HandIsOne'
    BY <1>b, <2>1, <2>3
    DEF Asking, TodoIsAsked, AttemptIsOpen, DownIsNamed, HandIsOne, Outside
  <2>5. MeasuredIsProven'
    BY <1>b, <2>1, <2>2, <2>3, <2>r DEF MeasuredIsProven, Outside
  <2>6. StreakIsOwn'
    BY <1>b, <1>f, <2>3 DEF StreakIsOwn
  <2> QED
    BY <2>4, <2>5, <2>6 DEF Known
<1>7. CASE Rested
  <2>1. Outside(pc') /\ (Ended \/ Handled)
    BY <1>7 DEF Rested
  <2>2. todo' = {} /\ failures' = Nothing /\ given_up' = {}
    BY <1>b, <2>1 DEF Base, Resting, Outside
  <2>3. Asking'
    BY <1>b, <2>1 DEF Asking, Ended, Handled, Forgotten
  <2>4. TodoIsAsked' /\ DownIsNamed' /\ MeasuredIsProven'
    BY <2>1, <2>2 DEF TodoIsAsked, DownIsNamed, MeasuredIsProven, Nothing
  <2>5. AttemptIsOpen'
    BY <2>1 DEF AttemptIsOpen, Outside
  <2>6. HandIsOne'
    BY <2>1 DEF Ended, Handled, HandIsOne
  <2>7. StreakIsOwn'
    BY <1>b, <2>1 DEF StreakIsOwn, Ended, Handled, Forgotten
  <2> QED
    BY <2>3, <2>4, <2>5, <2>6, <2>7 DEF Known
<1> QED
  BY <1>1, <1>2, <1>3, <1>4, <1>5, <1>6, <1>7, <1>b, StepKinds

-----------------------------------------------------------------------------
(***************************************************************************)
(* The simulation.                                                         *)
(***************************************************************************)

\* Every step of the sweep is a step of the campaign, or none.
Follows == [Promise!Next]_(Promise!campaign)

LEMMA InitPromised == Init => Promise!Init
  BY DEF Init, Nothing, Results, Owing, Verdict, Promise!Init, Promise!Untried

\* Only a sweep that returns gives a verdict.
LEMMA VerdictIsReturns ==
  ASSUME Unreported, [Next]_vars
  PROVE  /\ pc # "idle" => Verdict = "none"
         /\ pc' # "idle" => Verdict' = "none"
         /\ Return \/ Verdict' \in {"none", Verdict}
<1>1. pc # "idle" => Verdict = "none"
  BY DEF Unreported, Verdict
<1>2. pc' # "idle" => Verdict' = "none"
  BY OnlyReturnReports DEF Unreported, Verdict
<1>3. CASE pc # "idle"
  <2>1. Return \/ exit' \notin {"ok", "missing"}
    BY <1>3, OnlyReturnReports
  <2>2. exit' \notin {"ok", "missing"} => Verdict' = "none"
    BY DEF Verdict
  <2> QED
    BY <1>1, <1>2, <2>1, <2>2
<1>4. CASE pc = "idle"
  <2>1. CASE UNCHANGED vars
    <3>1. exit' = exit
      BY <2>1 DEF vars
    <3> QED
      BY <1>1, <1>2, <3>1 DEF Verdict
  <2>2. CASE Operator
    BY <1>1, <1>2, <2>2 DEF Operator, Start, Refuse, HandSkips, HandStarts, Verdict
  <2>3. Operator \/ UNCHANGED vars
    BY <1>4 DEF Next, Session, Keep, KeepTruncate, KeepFill, KeepFails, PassOver, Look,
      LookQuiet, LookBusy, StillBusy, Attempt, OnceFails, WriteStarts, WriteDone, WriteFails,
      Note, NoteFails, Return, HandDone, HandFails, Kill
  <2> QED
    BY <2>1, <2>2, <2>3
<1> QED
  BY <1>1, <1>2, <1>3, <1>4

\* The cell the loop is at is owed until it is counted or passed over.
LEMMA HereIsSettled ==
  ASSUME Base, at \in 1..Len(Plan), Here \in todo, pc # "note", todo' = todo,
         \A i \in 1..Len(Plan) : Ahead(i)' <=> i > at
  PROVE  Here \in Owing /\ Owing' = Owing \ {Here}
<1>1. Ahead(at) /\ Plan[at] = Here
  BY DEF Ahead, Here
<1>2. \A i \in 1..Len(Plan) : Ahead(i) => i > at \/ i = at
  BY DEF Ahead
<1>3. \A i \in 1..Len(Plan) : i > at => Ahead(i) /\ Plan[i] # Here
  BY <1>1, PlanAssumption DEF Ahead
<1>4. Here \in Owing
  BY <1>1 DEF Owing
<1>5. ASSUME NEW c \in todo
      PROVE  c \in Owing' <=> c \in Owing /\ c # Here
  BY <1>1, <1>2, <1>3, <1>5 DEF Owing
<1>6. Owing' \subseteq todo /\ Owing \subseteq todo
  BY DEF Owing
<1> QED
  BY <1>4, <1>5, <1>6

\* Campaign counts as this module does.
LEMMA SameCardinality == \A S : Promise!Cardinality(S) = Cardinality(S)
  BY DEF Cardinality, Promise!Cardinality

\* An attempt is settled as success or failure of a cell that is owed.
LEMMA AttemptFollows ==
  ASSUME Inv, Known, Unreported, [Next]_vars, Missed \/ Finished
  PROVE  Promise!Next
<1>b. /\ Base /\ Owed /\ AttemptIsOpen /\ DownIsNamed /\ MeasuredIsProven /\ StreakIsOwn
      /\ TodoIsAsked
  BY DEF Inv, Known
<1>t. /\ failures \in Failures /\ failures' \in Failures /\ in_a_row' \in Nat
      /\ runs \in [Cells -> FileState] /\ runs' \in [Cells -> FileState] /\ GIVE_UP \in Nat
  BY <1>b, StepBase, LimitsAssumption DEF Base, TypeOK
<1>1. /\ asked' = asked /\ todo' = todo /\ at' = at /\ recorded' = recorded
      /\ pc \in {"once", "write"} /\ pc' = "note"
  BY DEF Missed, Finished
<1>2. /\ at \in 1..Len(Plan) /\ Here \in todo /\ Here \in Cells
      /\ runs[Here] # "whole"
  BY <1>b, <1>1, HereIsOwed
<1>3. Here \in Owing /\ Owing' = Owing \ {Here}
  BY <1>b, <1>1, <1>2, HereIsSettled DEF Ahead
<1>4. Here.cache \notin failures.abandoned /\ Here.cache \in asked
  BY <1>b, <1>1, <1>2 DEF AttemptIsOpen, Attempting, DownIsNamed, TodoIsAsked
<1>5. Verdict' = Verdict
  BY <1>1, VerdictIsReturns
<1>6. CASE Missed
  <2>1. CountFailure(Here) /\ \A c \in Cells \ {Here} : runs'[c] = runs[c]
    BY <1>6 DEF Missed
  <2>2. /\ failures'.attempts[Here] = failures.attempts[Here] + 1
        /\ \A d \in Cells \ {Here} : failures'.attempts[d] = failures.attempts[d]
        /\ \/ failures'.abandoned = failures.abandoned
           \/ failures'.abandoned = failures.abandoned \cup {Here.cache}
    BY <1>b, <1>2, <2>1, CountFailureEffect
  <2>3. failures'.attempts = [failures.attempts EXCEPT ![Here] = @ + 1]
    BY <1>t, <1>2, <2>2 DEF Failures
  <2>4. Results' = Results \/ Results' = Results \cup {Here}
    BY <1>2, <2>1 DEF Results
  <2>5. ASSUME failures'.abandoned # failures.abandoned
        PROVE  Promise!Hopeless(Here.cache, failures'.attempts)
    <3> DEFINE failing == {c \in Cells : c.cache = Here.cache /\ failures'.attempts[c] > 0}
    <3>1. in_a_row' >= GIVE_UP /\ Here.cache \notin proven /\ last' = {Here.cache}
      BY <1>b, <1>2, <2>1, <2>5, FailureInARow
    <3>2. in_a_row' <= Cardinality(Streak')
      BY <1>1, StepKnown DEF Known, StreakIsOwn, Outside
    <3>3. Streak' \subseteq failing
      BY <3>1 DEF Streak
    <3>4. IsFiniteSet(failing)
      BY CellsFinite, FS_Subset
    <3>5. Cardinality(Streak') <= Cardinality(failing)
      BY <3>3, <3>4, FS_Subset
    <3>6. Cardinality(Streak') \in Nat /\ Cardinality(failing) \in Nat
      BY <3>4, StreakFinite, FS_CardinalityType
    <3>7. Cardinality(failing) >= GIVE_UP
      BY <1>t, <3>1, <3>2, <3>5, <3>6
    <3>8. ASSUME NEW c \in Results, c.cache = Here.cache
          PROVE  failures'.attempts[c] > 0
      <4>1. c \in Cells /\ runs[c] = "whole" /\ c # Here
        BY <1>2, <3>8 DEF Results
      <4>2. failures.attempts[c] # 0
        BY <1>b, <1>1, <1>4, <3>1, <3>8, <4>1 DEF MeasuredIsProven, Outside
      <4>3. failures'.attempts[c] = failures.attempts[c] /\ failures.attempts[c] \in Nat
        BY <1>t, <2>2, <4>1 DEF Failures
      <4> QED
        BY <4>2, <4>3
    <3> QED
      BY <3>7, <3>8, SameCardinality DEF Promise!Hopeless
  <2>6. Promise!Fail(Here)
    BY <1>1, <1>3, <1>4, <1>5, <2>2, <2>3, <2>4, <2>5 DEF Promise!Fail
  <2> QED
    BY <1>2, <2>6 DEF Promise!Next
<1>7. CASE Finished
  <2>1. CountMeasured(Here) /\ runs' = [runs EXCEPT ![Here] = "whole"]
    BY <1>7 DEF Finished
  <2>2. /\ failures'.abandoned = failures.abandoned
        /\ failures'.attempts[Here] = 0
        /\ \A d \in Cells \ {Here} : failures'.attempts[d] = failures.attempts[d]
    BY <1>b, <1>2, <2>1, CountMeasuredEffect
  <2>3. failures'.attempts = [failures.attempts EXCEPT ![Here] = 0]
    BY <1>t, <1>2, <2>2 DEF Failures
  <2>4. Results' = Results \cup {Here}
    BY <1>t, <1>2, <2>1 DEF Results
  <2>5. Promise!Succeed(Here)
    BY <1>1, <1>3, <1>4, <1>5, <2>2, <2>3, <2>4 DEF Promise!Succeed
  <2> QED
    BY <1>2, <2>5 DEF Promise!Next
<1> QED
  BY <1>6, <1>7

\* Every kind of step the sweep has, as a step of the campaign.
LEMMA StepPromised == Inv /\ Known /\ Unreported /\ [Next]_vars => Follows
<1> SUFFICES ASSUME Inv, Known, Unreported, [Next]_vars PROVE Follows
  OBVIOUS
<1> USE DEF Follows
<1>b. /\ Base /\ Base' /\ Owed /\ Asking /\ Asking' /\ AttemptIsOpen /\ DownIsNamed
      /\ HandIsOne
  BY StepBase, StepKnown DEF Inv, Known
<1>t. /\ failures \in Failures /\ failures' \in Failures
      /\ runs \in [Cells -> FileState] /\ runs' \in [Cells -> FileState]
      /\ at \in 1..(Len(Plan) + 1) /\ Len(Plan) \in Nat
  BY <1>b, PlanFacts DEF Base, TypeOK
<1>v. /\ pc # "idle" => Verdict = "none"
      /\ pc' # "idle" => Verdict' = "none"
      /\ Return \/ Verdict' \in {"none", Verdict}
  BY VerdictIsReturns
<1>z. Nothing.attempts = Promise!Untried /\ Nothing.abandoned = {}
  BY DEF Nothing, Promise!Untried
<1>1. CASE Begun
  <2>1. PICK mine \in (SUBSET Engines) \ {{}}, retry \in BOOLEAN : Start(mine, retry)
    BY <1>1 DEF Begun
  <2>s. mine \in SUBSET Engines
    BY <2>1
  <2>2. /\ asked' = mine /\ pc = "idle" /\ pc' = "keep" /\ at' = 1
        /\ runs' = runs /\ recorded' = recorded
    BY <2>1 DEF Start, disk
  <2>3. PICK past \in {recorded.attempts, [c \in Cells |-> 0]} :
          /\ failures'.attempts = [c \in Cells |->
               IF runs[c] = "whole" /\ c.cache \in mine THEN 0 ELSE past[c]]
          /\ failures'.abandoned = {}
          /\ todo' = {c \in Cells : runs[c] # "whole" /\ c.cache \in mine
                                      /\ failures'.attempts[c] < TRIES}
    <3>1. \E past \in {recorded.attempts, [c \in Cells |-> 0]} :
            /\ failures'.attempts = [c \in Cells |->
                 IF runs[c] = "whole" /\ c.cache \in mine THEN 0 ELSE past[c]]
            /\ failures'.abandoned = {}
            /\ todo' = {c \in Cells : runs[c] # "whole" /\ c.cache \in mine
                                        /\ failures'.attempts[c] < TRIES}
            /\ proven' = {c.cache : c \in {d \in Cells : runs[d] = "whole" /\ d.cache \in mine}}
      BY <1>b, <2>1, <2>s, SortedOut, Zenon
    <3> QED
      BY <3>1, Zenon
  <2>4. Owing' = todo'
    <3>1. \A i \in 1..Len(Plan) : Ahead(i)'
      BY <1>t, <2>2 DEF Ahead
    <3>2. \A c \in todo' : \E i \in 1..Len(Plan) : Plan[i] = c
      BY <2>3, PlanAssumption
    <3> QED
      BY <3>1, <3>2 DEF Owing
  <2>5. Results' = Results /\ Verdict' = "none" /\ asked = {}
    BY <1>b, <1>v, <2>2 DEF Results, Asking, Outside
  <2>6. /\ failures'.attempts = [c \in Cells |->
               IF c \in Results /\ c.cache \in mine THEN 0 ELSE past[c]]
        /\ Owing' = {c \in Cells \ Results : c.cache \in mine
                                               /\ failures'.attempts[c] < TRIES}
    BY <2>3, <2>4 DEF Results
  <2>7. Promise!Begin(mine, past)
    BY <2>2, <2>3, <2>5, <2>6 DEF Promise!Begin
  <2>8. past \in {recorded.attempts, Promise!Untried}
    BY <2>3 DEF Promise!Untried
  <2> QED
    BY <2>1, <2>7, <2>8 DEF Promise!Next
<1>2. CASE Framed
  <2>1. /\ runs' = runs /\ asked' = asked /\ failures' = failures /\ todo' = todo
        /\ at' = at
        /\ pc' = "note" <=> pc = "note"
        /\ Outside(pc') <=> Outside(pc)
        /\ \/ recorded' = recorded
           \/ ~Outside(pc) /\ recorded' \in {Nothing, failures}
    BY <1>2 DEF Framed, sweep
  <2>2. Owing' = Owing /\ Results' = Results
    <3>1. \A i : Ahead(i)' <=> Ahead(i)
      BY <2>1 DEF Ahead
    <3> QED
      BY <2>1, <3>1 DEF Owing, Results
  <2>3. CASE ~Outside(pc)
    <3>1. asked # {} /\ Verdict' = Verdict
      BY <1>b, <1>v, <2>1, <2>3 DEF Asking, Outside
    <3>2. CASE recorded' = recorded
      BY <2>1, <2>2, <3>1, <3>2 DEF Promise!campaign
    <3>3. CASE recorded' \in {Nothing, failures}
      <4>1. recorded'.attempts = failures.attempts \/ recorded'.attempts = Promise!Untried
        BY <1>z, <3>3
      <4>2. Promise!Save
        BY <2>1, <2>2, <3>1, <4>1 DEF Promise!Save
      <4> QED
        BY <4>2 DEF Promise!Next
    <3> QED
      BY <2>1, <3>2, <3>3
  <2>4. CASE Outside(pc)
    <3>1. asked = {} /\ recorded' = recorded
      BY <1>b, <2>1, <2>4 DEF Asking
    <3>2. Verdict' \in {"none", Verdict}
      BY <1>v, <2>4 DEF Return, Outside
    <3>3. CASE Verdict' = Verdict
      BY <2>1, <2>2, <3>1, <3>3 DEF Promise!campaign
    <3>4. CASE Verdict' = "none"
      <4>1. Promise!TurnedAway
        BY <2>1, <2>2, <3>1, <3>4 DEF Promise!TurnedAway
      <4> QED
        BY <4>1 DEF Promise!Next
    <3> QED
      BY <3>2, <3>3, <3>4
  <2> QED
    BY <2>3, <2>4
<1>3. CASE Passed \/ Noted
  <2>1. /\ runs' = runs /\ asked' = asked /\ failures' = failures /\ todo' = todo
        /\ recorded' = recorded /\ at' = at + 1
        /\ pc \in {"next", "note"} /\ pc' \in {"next", "keep"}
    BY <1>3 DEF Passed, Noted, sweep
  <2>2. Results' = Results /\ Verdict' = Verdict
    BY <1>v, <2>1 DEF Results
  <2>3. \A i \in 1..Len(Plan) : Ahead(i)' <=> i > at
    BY <1>t, <2>1 DEF Ahead
  <2>4. CASE Passed /\ Here \in todo
    <3>1. /\ at \in 1..Len(Plan) /\ pc = "next" /\ Here.cache \in given_up
      BY <1>t, <2>4 DEF Passed, Attempting
    <3>2. Here \in Owing /\ Owing' = Owing \ {Here}
      BY <1>b, <2>1, <2>3, <2>4, <3>1, HereIsSettled
    <3>3. Promise!Pass(Here)
      BY <1>b, <2>1, <2>2, <3>1, <3>2 DEF Promise!Pass, DownIsNamed
    <3>4. Here \in Cells
      BY <3>1, PlanFacts DEF Here
    <3> QED
      BY <3>3, <3>4 DEF Promise!Next
  <2>5. CASE Noted \/ Here \notin todo
    <3>1. \A i \in 1..Len(Plan) : Plan[i] \in todo => (Ahead(i) <=> i > at)
      BY <1>3, <2>5 DEF Ahead, Noted, Here
    <3>2. Owing' = Owing
      BY <2>1, <2>3, <3>1 DEF Owing
    <3> QED
      BY <2>1, <2>2, <3>2 DEF Promise!campaign
  <2> QED
    BY <1>3, <2>4, <2>5
<1>4. CASE Opened
  <2>1. /\ asked' = asked /\ failures' = failures /\ todo' = todo /\ at' = at
        /\ recorded' = recorded
        /\ pc = "once" /\ pc' = "write" /\ runs' = [runs EXCEPT ![Here] = "torn"]
    BY <1>4 DEF Opened, sweep
  <2>2. Here \in Cells /\ runs[Here] # "whole"
    BY <1>b, <2>1, HereIsOwed
  <2>3. Results' = Results
    BY <1>t, <2>1, <2>2 DEF Results
  <2>4. Owing' = Owing /\ Verdict' = Verdict
    BY <1>v, <2>1 DEF Owing, Ahead
  <2> QED
    BY <2>1, <2>3, <2>4 DEF Promise!campaign
<1>5. CASE Missed \/ Finished
  BY <1>5, AttemptFollows
<1>6. CASE Rested
  <2>1. /\ Outside(pc') /\ recorded' = recorded /\ asked' = {}
        /\ todo' = {} /\ failures' = Nothing
    BY <1>6, <1>b DEF Rested, Base, Resting, Outside, Asking
  <2>2. Owing' = {}
    BY <2>1 DEF Owing
  <2>3. CASE Ended /\ Return
    <3>1. /\ runs' = runs /\ pc = "next" /\ at > Len(Plan)
          /\ exit' = IF is_empty(failures) THEN "ok" ELSE "missing"
      BY <2>3 DEF Ended, Return, Leave
    <3>2. Owing = {} /\ Results' = Results /\ asked # {}
      BY <1>b, <1>t, <3>1 DEF Owing, Ahead, Results, Asking, Outside
    <3>3. is_empty(failures) <=> failures.attempts = Promise!Untried /\ failures.abandoned = {}
      BY <1>t DEF is_empty, Failures, Promise!Untried
    <3>4. Verdict' = IF failures.attempts = Promise!Untried /\ failures.abandoned = {}
                     THEN "ok" ELSE "missing"
      BY <3>1, <3>3 DEF Verdict
    <3>5. Promise!Finish
      BY <1>z, <2>1, <2>2, <3>2, <3>4 DEF Promise!Finish, Promise!Over
    <3> QED
      BY <3>5 DEF Promise!Next
  <2>4. CASE Ended /\ ~Return
    <3>1. runs' = runs /\ exit' \notin {"ok", "missing"} /\ ~Outside(pc)
      BY <1>6, <2>4 DEF Ended, Rested
    <3>2. Results' = Results /\ asked # {} /\ Verdict' = "none"
      BY <1>b, <3>1 DEF Results, Asking, Verdict
    <3>3. Promise!Stop
      BY <1>z, <2>1, <2>2, <3>2 DEF Promise!Stop, Promise!Over
    <3> QED
      BY <3>3 DEF Promise!Next
  <2>5. CASE Handled
    <3>1. Outside(pc) /\ asked = {} /\ Owing = {} /\ failures = Nothing
      BY <1>b, <2>5 DEF Handled, Asking, Base, Resting, Outside, Owing
    <3>2. Verdict' = "none"
      BY <1>6, <3>1 DEF Rested, Return, Outside, Verdict
    <3>3. PICK c \in Cells : HandTouches(c)
      BY <1>b, <2>5 DEF Handled, HandIsOne
    <3>4. Results' = Results \/ Results' = Results \cup {c} \/ Results' = Results \ {c}
      BY <3>3 DEF HandTouches, Results
    <3>5. Promise!ByHand(c)
      BY <2>1, <2>2, <3>1, <3>2, <3>4 DEF Promise!ByHand
    <3> QED
      BY <3>5 DEF Promise!Next
  <2> QED
    BY <1>6, <2>3, <2>4, <2>5 DEF Rested
<1> QED
  BY <1>1, <1>2, <1>3, <1>4, <1>5, <1>6, <1>b, StepKinds

\* The sweep keeps the promise of the campaign, whatever is killed or fails.
THEOREM PromiseKept == Spec => KeepsThePromise
<1>1. Init => Known /\ Promise!Init
  BY InitKnown, InitPromised
<1>2. Inv /\ Known /\ [Next]_vars => Known'
  BY StepKnown
<1>3. Inv /\ Known /\ Unreported /\ [Next]_vars => [Promise!Next]_(Promise!campaign)
  BY StepPromised DEF Follows
<1> QED
  BY <1>1, <1>2, <1>3, InvAlways, UnreportedAlways, PTL DEF Spec, KeepsThePromise, Promise!Spec

-----------------------------------------------------------------------------
(***************************************************************************)
(* What is put down.                                                       *)
(***************************************************************************)

\* What is put down was asked for and is not known to run.
Apart == given_up \subseteq asked /\ \A e \in given_up : e \notin proven

LEMMA StepApart == Inv /\ Known /\ Apart /\ [Next]_vars => Apart'
<1> SUFFICES ASSUME Inv, Known, Apart, [Next]_vars PROVE Apart'
  OBVIOUS
<1>b. Base /\ Base' /\ Owed /\ TodoIsAsked /\ AttemptIsOpen
  BY StepBase DEF Inv, Known
<1>1. CASE Begun
  BY <1>1 DEF Begun, Start, Apart
<1>2. CASE Framed \/ Passed \/ Noted \/ Opened
  <2>1. given_up' = given_up /\ asked' = asked /\ proven' = proven
    BY <1>2 DEF Framed, Passed, Noted, Opened, sweep
  <2> QED
    BY <2>1 DEF Apart
<1>3. CASE Missed \/ Finished
  <2>1. Here \in Cells /\ Here \in todo /\ Here.cache \in asked /\ Here.cache \notin given_up
    BY <1>3, <1>b, HereIsOwed
    DEF Missed, Finished, TodoIsAsked, AttemptIsOpen, Attempting
  <2>2. asked' = asked
    BY <1>3 DEF Missed, Finished
  <2>3. CASE Missed
    <3>1. /\ proven' = proven
          /\ \/ given_up' = given_up
             \/ Here.cache \notin proven /\ given_up' = given_up \cup {Here.cache}
      BY <1>b, <2>1, <2>3, CountFailureEffect DEF Missed
    <3> QED
      BY <2>1, <2>2, <3>1 DEF Apart
  <2>4. CASE Finished
    <3>1. proven' = proven \cup {Here.cache} /\ given_up' = given_up
      BY <1>b, <2>1, <2>4, CountMeasuredEffect DEF Finished
    <3> QED
      BY <2>1, <2>2, <3>1 DEF Apart
  <2> QED
    BY <1>3, <2>3, <2>4
<1>4. CASE Rested
  <2>1. given_up' = {}
    BY <1>4, <1>b DEF Rested, Base, Resting, Outside
  <2> QED
    BY <2>1 DEF Apart
<1> QED
  BY <1>1, <1>2, <1>3, <1>4, <1>b, StepKinds

\* An engine with a measured cell is never put down, in whichever session the
\* cell was measured.
THEOREM MeasuredNeverPutDown == Spec => []AbandonedNeverRan
<1>1. Init => Known /\ Apart
  BY InitKnown DEF Init, Apart
<1>2. Inv /\ Known /\ Apart /\ [Next]_vars => Known' /\ Apart'
  BY StepKnown, StepApart
<1>3. ASSUME Inv, Known, Apart PROVE AbandonedNeverRan
  <2> SUFFICES ASSUME NEW c \in Cells, runs[c] = "whole", failures.attempts[c] = 0,
                      c.cache \in failures.abandoned
               PROVE  FALSE
    BY DEF AbandonedNeverRan
  <2>1. c.cache \in given_up
    BY <1>3 DEF Known, DownIsNamed
  <2>2. ~Outside(pc)
    BY <1>3, <2>1 DEF Inv, Base, Resting, Outside
  <2>3. c.cache \in asked /\ c.cache \notin proven
    BY <1>3, <2>1 DEF Apart
  <2> QED
    BY <1>3, <2>2, <2>3 DEF Known, MeasuredIsProven
<1> QED
  BY <1>1, <1>2, <1>3, InvAlways, PTL DEF Spec

=============================================================================
