----------------------------- MODULE LockProofs -----------------------------
(***************************************************************************)
(* One writer at a time, for any number of processes, boots and kills, as  *)
(* long as no command starts while another is inside `take` (Overlap is    *)
(* FALSE; with it TRUE two takers can both win, as the run LockTwoTakers   *)
(* shows).                                                                 *)
(*                                                                         *)
(* OneHolder is not inductive.  A takeover is safe because the process     *)
(* that is about to seize the file judged the holder of that very moment:  *)
(* while somebody holds the directory, what a taker has read is the        *)
(* holder's record, and that record never looks gone.                      *)
(***************************************************************************)
EXTENDS Lock, TLAPS

\* One process at a time is deciding.
OneInside == \A p, q \in Pids : st[p] \in Inside /\ st[q] \in Inside => p = q

\* Whoever is about to own the file owns it alone.
Owning == {"created", "seize", "fill"}
OwnerIsAlone ==
  \A p, q \in Pids : st[p] \in Owning => st[q] # "hold"
OwnedIsEmpty == \A p \in Pids : st[p] \in {"created", "fill"} => file = "empty"

\* What is being judged is what the file says, and its holder's.
JudgedIsCurrent ==
  \A p \in Pids : st[p] = "judge" =>
    /\ file = "written" => seen[p] = says
    /\ \A q \in Pids : st[q] = "hold" => seen[p] = mine(q)

\* No record is from the future, and a process that wrote one and is running
\* holds the directory.
RecordsArePast == says.boot <= boot /\ (says.boot = boot => says.started <= ticks)
StartsArePast == \A p \in Pids : st[p] # "none" => started[p] <= ticks
WriterHolds ==
  file = "written" => \A p \in Pids : st[p] # "none" /\ mine(p) = says => st[p] = "hold"

LockInv ==
  /\ TypeOK /\ OneInside /\ OwnerIsAlone /\ OwnedIsEmpty
  /\ OneHolder /\ HolderIsNamed
  /\ JudgedIsCurrent /\ RecordsArePast /\ StartsArePast /\ WriterHolds

LEMMA InitLock == Init => LockInv
<1> SUFFICES ASSUME Init PROVE LockInv
  OBVIOUS
<1>1. TypeOK
  BY LockAssumption DEF Init, TypeOK, Held, Inside
<1>2. OneInside /\ OwnerIsAlone /\ OwnedIsEmpty /\ OneHolder /\ HolderIsNamed
  BY DEF Init, OneInside, OwnerIsAlone, OwnedIsEmpty, OneHolder, HolderIsNamed, Inside, Owning
<1>3. JudgedIsCurrent /\ RecordsArePast /\ StartsArePast /\ WriterHolds
  BY DEF Init, JudgedIsCurrent, RecordsArePast, StartsArePast, WriterHolds
<1> QED
  BY <1>1, <1>2, <1>3 DEF LockInv

\* A running holder's record never looks gone.
LEMMA HolderIsNotGone ==
  ASSUME NEW q \in Pids, st[q] = "hold"
  PROVE  ~gone(mine(q))
  BY DEF gone, mine

\* The types survive every step.
LEMMA StepTypes == TypeOK /\ [Next]_vars => TypeOK'
<1> SUFFICES ASSUME TypeOK, [Next]_vars PROVE TypeOK'
  OBVIOUS
<1>t. /\ MaxTicks \in Nat /\ MaxBoots \in Nat /\ MaxKills \in Nat
      /\ \A p \in Pids : mine(p) \in Held
  BY LockAssumption DEF TypeOK, mine, Held
<1> USE DEF TypeOK, Inside
<1>1. ASSUME NEW p \in Pids, Begin(p) PROVE TypeOK'
  BY <1>1, <1>t DEF Begin
<1>2. ASSUME NEW p \in Pids, CreateNew(p) PROVE TypeOK'
  BY <1>2 DEF CreateNew, To, Still
<1>3. ASSUME NEW p \in Pids, Stamp(p) PROVE TypeOK'
  BY <1>3, <1>t DEF Stamp, To, Still
<1>4. ASSUME NEW p \in Pids, StampFails(p) \/ Judge(p) \/ TakeFails(p) PROVE TypeOK'
  BY <1>4 DEF StampFails, Judge, TakeFails, To, Still
<1>5. ASSUME NEW p \in Pids, Read(p) PROVE TypeOK'
  BY <1>5 DEF Read, To, Still
<1>6. ASSUME NEW p \in Pids, Seize(p) PROVE TypeOK'
  BY <1>6 DEF Seize, To, Still
<1>7. ASSUME NEW p \in Pids, Fill(p) PROVE TypeOK'
  BY <1>7, <1>t DEF Fill, To, Still
<1>8. ASSUME NEW p \in Pids, Drop(p) \/ Exit(p) PROVE TypeOK'
  BY <1>8 DEF Drop, Exit, To, Still
<1>9. ASSUME NEW p \in Pids, Kill(p) PROVE TypeOK'
  BY <1>9, <1>t DEF Kill, To
<1>10. CASE Reboot
  BY <1>10, <1>t DEF Reboot
<1>11. CASE UNCHANGED vars
  BY <1>11 DEF vars
<1> QED
  BY <1>1, <1>2, <1>3, <1>4, <1>5, <1>6, <1>7, <1>8, <1>9, <1>10, <1>11 DEF Next, Take

\* A process that owned the file alone and writes its record in it holds it.
LEMMA WrittenByOwner ==
  ASSUME TypeOK, OneInside, OwnerIsAlone, JudgedIsCurrent, RecordsArePast, StartsArePast,
         NEW p \in Pids, st[p] \in {"created", "fill"},
         st' = [st EXCEPT ![p] = "hold"],
         file' = "written", says' = mine(p), seen' = seen,
         started' = started, ticks' = ticks, boot' = boot
  PROVE  /\ OneInside' /\ OwnerIsAlone' /\ OwnedIsEmpty' /\ OneHolder' /\ HolderIsNamed'
         /\ JudgedIsCurrent' /\ RecordsArePast' /\ StartsArePast' /\ WriterHolds'
<1>1. /\ \A q \in Pids \ {p} : st'[q] = st[q] /\ st[q] \notin Inside /\ st[q] # "hold"
      /\ st'[p] = "hold"
  BY DEF TypeOK, OneInside, OwnerIsAlone, Owning, Inside
<1>2. \A q \in Pids : mine(q)' = mine(q)
  BY DEF mine
<1>3. OneInside' /\ OwnerIsAlone' /\ OwnedIsEmpty' /\ JudgedIsCurrent'
  BY <1>1 DEF OneInside, OwnerIsAlone, OwnedIsEmpty, JudgedIsCurrent, Inside, Owning
<1>4. OneHolder' /\ HolderIsNamed'
  BY <1>1, <1>2 DEF OneHolder, HolderIsNamed
<1>5. mine(p).boot = boot /\ mine(p).started = started[p]
  BY DEF mine
<1>6. started[p] <= ticks
  BY DEF StartsArePast
<1>7. RecordsArePast'
  BY <1>5, <1>6 DEF RecordsArePast, TypeOK
<1>9. StartsArePast'
  BY <1>1, <1>6 DEF StartsArePast
<1>8. WriterHolds'
  BY <1>1, <1>2 DEF WriterHolds, mine
<1> QED
  BY <1>3, <1>4, <1>7, <1>8, <1>9

LEMMA StepLock ==
  ASSUME Overlap = FALSE, LockInv, [Next]_vars
  PROVE  LockInv'
<1>t. TypeOK /\ TypeOK'
  BY StepTypes DEF LockInv
<1>i. /\ OneInside /\ OwnerIsAlone /\ OwnedIsEmpty /\ OneHolder /\ HolderIsNamed
      /\ JudgedIsCurrent /\ RecordsArePast /\ StartsArePast /\ WriterHolds
  BY DEF LockInv
<1>y. /\ st \in [Pids -> Inside \cup {"none", "hold", "dropped", "refused"}]
      /\ started \in [Pids -> 0..MaxTicks] /\ seen \in [Pids -> Held]
      /\ ticks \in Nat /\ boot \in Nat
      /\ says.boot \in Nat /\ says.started \in Nat
  BY <1>t, LockAssumption DEF TypeOK, Held
<1> DEFINE Rest == /\ OneInside' /\ OwnerIsAlone' /\ OwnedIsEmpty' /\ OneHolder' /\ HolderIsNamed'
                   /\ JudgedIsCurrent' /\ RecordsArePast' /\ StartsArePast' /\ WriterHolds'
<1> USE DEF OneInside, OwnerIsAlone, OwnedIsEmpty, OneHolder, HolderIsNamed, JudgedIsCurrent,
            RecordsArePast, StartsArePast, WriterHolds, Inside, Owning, mine
<1>1. ASSUME NEW p \in Pids, Begin(p) PROVE Rest
  <2>1. /\ st[p] = "none" /\ \A q \in Pids : st[q] \notin Inside
        /\ st' = [st EXCEPT ![p] = "take"] /\ started' = [started EXCEPT ![p] = ticks + 1]
        /\ ticks' = ticks + 1
        /\ file' = file /\ says' = says /\ seen' = seen /\ boot' = boot
    BY <1>1 DEF Begin
  <2>2. \A q \in Pids \ {p} : st'[q] = st[q] /\ mine(q)' = mine(q)
    BY <1>y, <2>1
  <2>3. st'[p] = "take" /\ mine(p)' # says
    BY <1>y, <1>i, <2>1
  <2> QED
    BY <1>i, <1>y, <2>1, <2>2, <2>3
<1>2. ASSUME NEW p \in Pids, CreateNew(p) PROVE Rest
  BY <1>2, <1>i, <1>y DEF CreateNew, To, Still
<1>3. ASSUME NEW p \in Pids, Stamp(p) PROVE Rest
  <2>1. /\ st[p] = "created" /\ st' = [st EXCEPT ![p] = "hold"]
        /\ file' = "written" /\ says' = mine(p) /\ seen' = seen
        /\ started' = started /\ ticks' = ticks /\ boot' = boot
    BY <1>3 DEF Stamp, To, Still
  <2> QED
    BY <2>1, WrittenByOwner, <1>t, <1>i
<1>4. ASSUME NEW p \in Pids, StampFails(p) \/ TakeFails(p) PROVE Rest
  BY <1>4, <1>i, <1>y DEF StampFails, TakeFails, To, Still
<1>5. ASSUME NEW p \in Pids, Read(p) PROVE Rest
  BY <1>5, <1>i, <1>y DEF Read, To, Still
<1>6. ASSUME NEW p \in Pids, Judge(p) PROVE Rest
  BY <1>6, <1>i, <1>y, HolderIsNotGone DEF Judge, To, Still
<1>7. ASSUME NEW p \in Pids, Seize(p) PROVE Rest
  BY <1>7, <1>i, <1>y DEF Seize, To, Still
<1>8. ASSUME NEW p \in Pids, Fill(p) PROVE Rest
  <2>1. /\ st[p] = "fill" /\ st' = [st EXCEPT ![p] = "hold"]
        /\ file' = "written" /\ says' = mine(p) /\ seen' = seen
        /\ started' = started /\ ticks' = ticks /\ boot' = boot
    BY <1>8 DEF Fill, To, Still
  <2> QED
    BY <2>1, WrittenByOwner, <1>t, <1>i
<1>9. ASSUME NEW p \in Pids, Drop(p) PROVE Rest
  BY <1>9, <1>i, <1>y DEF Drop, To, Still
<1>10. ASSUME NEW p \in Pids, Exit(p) PROVE Rest
  BY <1>10, <1>i, <1>y DEF Exit, To, Still
<1>11. ASSUME NEW p \in Pids, Kill(p) PROVE Rest
  BY <1>11, <1>i, <1>y DEF Kill, To
<1>12. ASSUME Reboot PROVE Rest
  <2>1. /\ \A q \in Pids : st'[q] = "none"
        /\ says' = says /\ file' = file /\ boot' = boot + 1
    BY <1>12 DEF Reboot
  <2>2. RecordsArePast'
    BY <1>i, <1>y, <2>1
  <2> QED
    BY <2>1, <2>2
<1>13. ASSUME UNCHANGED vars PROVE Rest
  <2>1. /\ file' = file /\ says' = says /\ st' = st /\ seen' = seen
        /\ started' = started /\ ticks' = ticks /\ boot' = boot
    BY <1>13 DEF vars
  <2> QED
    BY <1>i, <2>1
<1>14. Rest
  BY <1>1, <1>2, <1>3, <1>4, <1>5, <1>6, <1>7, <1>8, <1>9, <1>10, <1>11, <1>12, <1>13
  DEF Next, Take
<1> QED
  BY <1>t, <1>14 DEF LockInv

LEMMA LockAlways == ASSUME Overlap = FALSE PROVE Spec => []LockInv
<1>1. Init => LockInv
  BY InitLock
<1>2. LockInv /\ [Next]_vars => LockInv'
  BY StepLock
<1> QED
  BY <1>1, <1>2, PTL DEF Spec

\* Two processes never hold a results directory at once.
THEOREM OneHolderAlways == ASSUME Overlap = FALSE PROVE Spec => []OneHolder
<1>1. LockInv => OneHolder
  BY DEF LockInv
<1> QED
  BY <1>1, LockAlways, PTL

\* The holder's lock is neither taken over nor removed while it holds it.
THEOREM HolderNamed == ASSUME Overlap = FALSE PROVE Spec => []HolderIsNamed
<1>1. LockInv => HolderIsNamed
  BY DEF LockInv
<1> QED
  BY <1>1, LockAlways, PTL

\* A record turns takers away exactly while its writer runs.
THEOREM RecordObeyed == ASSUME Overlap = FALSE PROVE Spec => RecordIsObeyed
<1> DEFINE Obeyed == \A p \in Pids : file = "written" =>
             /\ st[p] = "seize" /\ st'[p] = "fill" => ~Running(says)
             /\ st[p] = "judge" /\ st'[p] = "refused" => Running(says)
<1>1. ASSUME LockInv, [Next]_vars PROVE Obeyed
  <2> SUFFICES ASSUME NEW p \in Pids, file = "written"
               PROVE  /\ st[p] = "seize" /\ st'[p] = "fill" => ~Running(says)
                      /\ st[p] = "judge" /\ st'[p] = "refused" => Running(says)
    OBVIOUS
  <2>1. ASSUME st[p] = "seize" PROVE ~Running(says)
    BY <1>1, <2>1 DEF LockInv, WriterHolds, OwnerIsAlone, Owning, Running
  <2>2. ASSUME st[p] = "judge", st'[p] = "refused" PROVE Running(says)
    <3>1. seen[p] = says /\ says \in Held /\ st \in [Pids -> Inside \cup {"none", "hold", "dropped", "refused"}]
      BY <1>1, <2>2 DEF LockInv, JudgedIsCurrent, TypeOK
    <3>2. Judge(p)
      BY <1>1, <2>2, <3>1
      DEF Next, Take, vars, Begin, CreateNew, Stamp, StampFails, Read, Judge, Seize, Fill,
          TakeFails, Drop, Exit, Kill, Reboot, To, Inside
    <3>3. ~gone(says)
      BY <2>2, <3>1, <3>2 DEF Judge, To, Inside
    <3>4. says.pid \in Pids /\ says = mine(says.pid) /\ st[says.pid] # "none"
      BY <3>1, <3>3 DEF gone, mine, Held
    <3> QED
      BY <3>4 DEF Running
  <2> QED
    BY <2>1, <2>2
<1>2. LockInv /\ [Next]_vars => [Obeyed]_vars
  BY <1>1
<1> QED
  BY <1>2, LockAlways, PTL DEF Spec, RecordIsObeyed

=============================================================================
